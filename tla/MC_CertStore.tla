---------------------------- MODULE MC_CertStore ----------------------------
(***************************************************************************)
(* Small sets of documents for CertStore.  Serial numbers are unique       *)
(* except where two documents are meant to share one.                      *)
(***************************************************************************)
EXTENDS CertStore

CONSTANTS
  root, root2,    \* a root CA and its renewal with a later expiry date
  sub,            \* a CA below the root
  leaf, leaf2,    \* a certificate issued by sub and its renewal with a new serial
  mail, mail2,    \* a certificate of the root and its renewal with the same serial
  pinned,         \* a certificate of root that names root by its serial
  other, crossed, crossedOther,
                  \* another root, cross certified with the first: crossed is the
                  \* first one issued by other, crossedOther is other issued by the first
  list            \* a revocation list of the root

Doc(subj, iss, key, signKey, serial, notAfter, ca) ==
  [subject |-> subj, issuer |-> iss, key |-> key, signKey |-> signKey,
   keyId |-> NoId, caSerial |-> NoId, serial |-> serial, notAfter |-> notAfter,
   ca |-> ca, certSign |-> TRUE]

Documents(c) ==
  CASE c = root  -> Doc("root", "root", "kr", "kr", 1, 1, TRUE)
    [] c = root2 -> Doc("root", "root", "kr", "kr", 2, 2, TRUE)
    [] c = sub   -> Doc("sub",  "root", "ks", "kr", 3, 1, TRUE)
    [] c = leaf  -> Doc("leaf", "sub",  "kl", "ks", 4, 1, FALSE)
    [] c = leaf2 -> Doc("leaf", "sub",  "kl", "ks", 5, 2, FALSE)
    [] c = mail  -> Doc("mail", "root", "km", "kr", 6, 1, FALSE)
    [] c = mail2 -> Doc("mail", "root", "km", "kr", 6, 2, FALSE)
    [] c = pinned   -> [Doc("pin", "root", "kp", "kr", 7, 1, FALSE) EXCEPT !.caSerial = 1]
    [] c = other    -> Doc("b", "b", "kb", "kb", 9, 2, TRUE)
    [] c = crossed  -> Doc("root", "b", "kr", "kb", 10, 2, TRUE)
    [] c = crossedOther -> Doc("b", "root", "kb", "kr", 11, 2, TRUE)

MCCertData == [c \in Cert |-> Documents(c)]

MCCrlData == [c \in Crl |-> [issuer |-> "root", signKey |-> "kr",
                             serials |-> {IF sub \in Cert THEN 3 ELSE 7}]]
==============================================================================

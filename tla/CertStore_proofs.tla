--------------------------- MODULE CertStore_proofs ---------------------------
(***************************************************************************)
(* Proofs about CertStore that hold for every set of documents: whatever   *)
(* certificates and revocation lists are imported, in whatever order, the  *)
(* tree in memory and the one in the database describe the same forest.    *)
(***************************************************************************)
EXTENDS CertStore, TLAPS

\* What the operations on certificates have to keep: Consistent without the
\* renewal in progress, which is kept by the actions around them.
StoreOK ==
  /\ certs \in SUBSET Cert
  /\ issuer \in [Cert -> certs \cup {NoCert}]
  /\ revocations \in [Cert -> SUBSET Serial]
  /\ crls \in SUBSET Crl
  /\ crlsIssuer \in [Crl -> certs \cup {NoCert}]
  /\ signer \in [Cert -> certs \cup {NoCert}]
  /\ parent \in [Cert -> certs \cup {NoCert}]
  /\ revoked \in [Cert -> BOOLEAN]
  /\ crlIssuer \in [Crl -> certs \cup {NoCert}]
  /\ TreeMatchesDb
  /\ SignerMatchesDb
  /\ IssuerVerifies
  /\ CrlIssuerVerifies
  /\ SelfSignedKnown
  /\ AbsentUnlinked

RenewalOK == renewal \in [old : certs, revoke : BOOLEAN, replace : BOOLEAN] \cup {NoCert}

\* The invariant, before and after a step, in terms of StoreOK.
LEMMA ConsistentParts ==
  /\ Consistent <=> StoreOK /\ RenewalOK
  /\ Consistent' <=> StoreOK' /\ RenewalOK'
  BY DEF Consistent, StoreOK, RenewalOK, TypeOK

\* The serial of a certificate is one of the serials.
LEMMA SerialOfType == \A c \in Cert : SerialOf(c) \in Serial
  BY DEF SerialOf, Serial

\* getRevList() returns rows of the table.
LEMMA RevListType == ASSUME StoreOK, NEW c \in Cert PROVE RevList(c) \in SUBSET Serial
  BY DEF StoreOK, RevList

\* mergeRevList() leaves serials in the table.
LEMMA MergeRevListType ==
  ASSUME StoreOK, NEW c \in Cert, NEW S \in SUBSET Serial
  PROVE  MergeRevList(c, S) \in SUBSET Serial
  BY RevListType DEF StoreOK, MergeRevList

\* findIssuer() returns a stored certificate that verifies, the certificate
\* itself or nothing.
LEMMA FindIssuerVerifies ==
  ASSUME NEW c \in Cert, NEW S \in SUBSET Cert, NEW s \in FindIssuer(c, S)
  PROVE  /\ s \in S \cup {c, NoCert}
         /\ s # NoCert => VerifyOnly(c, s)
  BY CertAssumption DEF FindIssuer, Latest

------------------------------------------------------------------------------
(* insertPKI() of a certificate.                                           *)

\* Only stored certificates, and c, are given to c, and c verifies them.
LEMMA AdoptedVerify ==
  ASSUME NEW c \in Cert, NEW s, NEW d \in Adopted(c, s)
  PROVE  d \in certs \cup {c} /\ VerifyOnly(d, c)
  BY DEF Adopted, Collected, Detached

\* A signer changes in inToCont() by being taken away only.
LEMMA DetachedSignerType ==
  ASSUME NEW c \in Cert, NEW s, NEW d \in Cert, signer \in [Cert -> certs \cup {NoCert}]
  PROVE  DetachedSigner(c, s)[d] \in {NoCert, IF d = c THEN s ELSE signer[d]}
  BY DEF DetachedSigner

\* inToCont() keeps memory and database in step.
LEMMA InsertPKIStoreOK ==
  ASSUME StoreOK,
         NEW c \in Cert, c \notin certs,
         NEW s \in certs \cup {c, NoCert}, s # NoCert => VerifyOnly(c, s),
         NEW rev \in BOOLEAN,
         InsertPKI(c, s, rev)
  PROVE  StoreOK'
<1> DEFINE adopted == Adopted(c, s)
           sig == DetachedSigner(c, s)
           list == InheritedRevList(c, adopted)
           tree == ParentAfter(c, s, adopted)
<1>1. /\ certs' = certs \cup {c}
      /\ issuer' = IssuerAfter(c, s, adopted)
      /\ signer' = [d \in Cert |-> IF d \in adopted THEN c ELSE sig[d]]
      /\ parent' = tree
      /\ revocations' = [revocations EXCEPT ![c] = list]
      /\ revoked' = [d \in Cert |-> IF tree[d] = c THEN SerialOf(d) \in list
                                    ELSE IF d = c THEN rev ELSE revoked[d]]
      /\ crlIssuer'  = [k \in Crl |-> IF k \in Claimed(c) THEN c ELSE crlIssuer[k]]
      /\ crlsIssuer' = [k \in Crl |-> IF k \in Claimed(c) THEN c ELSE crlsIssuer[k]]
      /\ crls' = crls
  BY DEF InsertPKI
<1> HIDE DEF adopted, sig, list, tree
<1>2. /\ adopted \subseteq certs \cup {c}
      /\ \A d \in adopted : VerifyOnly(d, c)
  BY AdoptedVerify DEF adopted
<1>3. \A d \in Cert : sig[d] \in {NoCert, IF d = c THEN s ELSE signer[d]}
  BY DetachedSignerType DEF sig, StoreOK
<1>4. list \in SUBSET Serial
  <2>1. certs \subseteq Cert
    BY DEF StoreOK
  <2>2. \A o \in Superseded(c) : RevList(o) \in SUBSET Serial
    BY <2>1, RevListType DEF Superseded
  <2>3. \A d \in adopted : SerialOf(d) \in Serial
    BY <2>1, <1>2, SerialOfType
  <2> QED
    BY <2>2, <2>3 DEF list, InheritedRevList
<1>5. /\ issuer' = [d \in Cert |-> IF d \in adopted THEN c ELSE IF d = c THEN s ELSE issuer[d]]
      /\ parent' = [d \in Cert |-> IF d \in adopted THEN TreeParent(d, c)
                                   ELSE IF d = c THEN TreeParent(c, s) ELSE parent[d]]
  BY <1>1 DEF IssuerAfter, ParentAfter, tree
<1>6. /\ certs' \in SUBSET Cert
      /\ issuer' \in [Cert -> certs' \cup {NoCert}]
      /\ signer' \in [Cert -> certs' \cup {NoCert}]
      /\ parent' \in [Cert -> certs' \cup {NoCert}]
  BY <1>1, <1>3, <1>5 DEF StoreOK, TreeParent
<1>7. /\ revocations' \in [Cert -> SUBSET Serial]
      /\ revoked' \in [Cert -> BOOLEAN]
  <2>1. revocations' \in [Cert -> SUBSET Serial]
    BY <1>1, <1>4 DEF StoreOK
  <2>2. \A d \in Cert : revoked[d] \in BOOLEAN
    BY DEF StoreOK
  <2>3. ASSUME NEW d \in Cert
        PROVE  (IF tree[d] = c THEN SerialOf(d) \in list ELSE IF d = c THEN rev ELSE revoked[d])
                 \in BOOLEAN
    <3>1. (SerialOf(d) \in list) \in BOOLEAN
      OBVIOUS
    <3>2. CASE tree[d] = c
      BY <3>1, <3>2, Zenon
    <3>3. CASE tree[d] # c
      BY <3>3, <2>2, Zenon
    <3> QED
      BY <3>2, <3>3, Zenon
  <2>4. revoked' \in [Cert -> BOOLEAN]
    BY <1>1, <2>3, Zenon
  <2> QED
    BY <2>1, <2>4
<1>8. /\ crls' \in SUBSET Crl
      /\ crlIssuer' \in [Crl -> certs' \cup {NoCert}]
      /\ crlsIssuer' \in [Crl -> certs' \cup {NoCert}]
      /\ CrlIssuerVerifies'
  BY <1>1 DEF StoreOK, CrlIssuerVerifies, Claimed
<1>9. TreeMatchesDb'
  BY <1>1, <1>5 DEF StoreOK, TreeMatchesDb, TreeParent
<1>10. SignerMatchesDb'
  BY <1>1, <1>3, <1>5 DEF StoreOK, SignerMatchesDb
<1>11. IssuerVerifies'
  BY <1>1, <1>2, <1>5 DEF StoreOK, IssuerVerifies
<1>12. SelfSignedKnown'
  <2> SUFFICES ASSUME NEW d \in certs', issuer'[d] = d PROVE signer'[d] = d
    BY DEF SelfSignedKnown
  <2> d \in Cert
    BY <1>6
  <2>1. CASE d \in adopted
    BY <2>1, <1>1, <1>5
  <2>2. CASE d \notin adopted
    <3>1. /\ d = c => s = d
          /\ d # c => issuer[d] = d /\ signer[d] = d /\ parent[d] = NoCert
      BY <2>2, <1>1, <1>5 DEF StoreOK, SelfSignedKnown, TreeMatchesDb, TreeParent
    <3>2. d \notin Detached(c, s)
      BY <3>1, CertAssumption DEF Detached, Superseded, TreeParent, StoreOK
    <3>3. sig[d] = d
      BY <3>1, <3>2 DEF sig, DetachedSigner, StoreOK
    <3> QED
      BY <2>2, <3>3, <1>1
  <2> QED
    BY <2>1, <2>2
<1>13. AbsentUnlinked'
  BY <1>1, <1>2, <1>3, <1>5 DEF StoreOK, AbsentUnlinked
<1> QED
  BY <1>6, <1>7, <1>8, <1>9, <1>10, <1>11, <1>12, <1>13 DEF StoreOK
------------------------------------------------------------------------------
(* deletePKI() of a certificate.                                           *)

\* remFromCont() asks findIssuer() for every child, for none of them keeps
\* the deleted signer in memory.
LEMMA ChildsAskFindIssuer ==
  ASSUME StoreOK, NEW c \in certs, NEW d \in Childs(c)
  PROVE  /\ d # c
         /\ issuer[d] = c
         /\ NextIssuers(c, d) = FindIssuer(d, certs \ {c})
<1>1. d # c /\ issuer[d] = c
  BY CertAssumption DEF Childs, StoreOK, TreeMatchesDb, TreeParent
<1>2. signer[d] \in {NoCert, c}
  BY <1>1 DEF Childs, StoreOK, SignerMatchesDb
<1> QED
  BY <1>1, <1>2 DEF NextIssuers

\* The rows and marks of revocations keep their type.
LEMMA DeletePKIRevocations ==
  ASSUME StoreOK, NEW c \in certs, DeletePKI(c)
  PROVE  revocations' \in [Cert -> SUBSET Serial] /\ revoked' \in [Cert -> BOOLEAN]
<1>1. PICK next, late :
        /\ revocations' = [s \in Cert |-> IF s = c THEN {} ELSE MergeRevList(s, GivenTo(c, next, s))]
        /\ revoked' = [d \in Cert |-> /\ d # c
                                      /\ \/ revoked[d]
                                         \/ d \in Childs(c) /\ TakesFrom(c, next, late, d)]
  BY Zenon DEF DeletePKI
<1>2. \A s : GivenTo(c, next, s) \in SUBSET Serial
  BY SerialOfType DEF StoreOK, GivenTo, Childs
<1>3. revocations' \in [Cert -> SUBSET Serial]
  BY <1>1, <1>2, MergeRevListType
<1>4. revoked' \in [Cert -> BOOLEAN]
  BY <1>1, Zenon
<1> QED
  BY <1>3, <1>4

\* remFromCont() keeps memory and database in step.
LEMMA DeletePKIStoreOK == ASSUME StoreOK, NEW c \in certs, DeletePKI(c) PROVE StoreOK'
<1>1. PICK next : Relinked(c, next) /\ \A d \in Childs(c) : next[d] \in NextIssuers(c, d)
  BY Zenon DEF DeletePKI
<1>2. c \in Cert /\ certs \subseteq Cert /\ certs' = certs \ {c}
  BY <1>1 DEF StoreOK, Relinked
<1>3. \A d \in Childs(c) : /\ next[d] \in certs' \cup {NoCert}
                           /\ next[d] # NoCert => VerifyOnly(d, next[d])
  <2> SUFFICES ASSUME NEW d \in Childs(c)
               PROVE  /\ next[d] \in certs' \cup {NoCert}
                      /\ next[d] # NoCert => VerifyOnly(d, next[d])
    OBVIOUS
  <2>1. d \in Cert /\ d \in certs' /\ next[d] \in FindIssuer(d, certs \ {c})
    BY <1>1, <1>2, ChildsAskFindIssuer DEF Childs
  <2> QED
    BY <2>1, <1>2, FindIssuerVerifies
\* Nobody else has c as signer or issuer.
<1>4. \A d \in Cert : d \notin Childs(c) /\ d # c =>
        /\ issuer[d] # c
        /\ signer[d] # c
        /\ parent[d] # c
  BY <1>2, CertAssumption
     DEF Childs, StoreOK, TreeMatchesDb, TreeParent, SignerMatchesDb, AbsentUnlinked
<1>5. /\ issuer' \in [Cert -> certs' \cup {NoCert}]
      /\ signer' \in [Cert -> certs' \cup {NoCert}]
      /\ parent' \in [Cert -> certs' \cup {NoCert}]
  BY <1>1, <1>2, <1>3, <1>4 DEF StoreOK, Relinked, TreeParent
<1>6. /\ crls' \in SUBSET Crl
      /\ crlIssuer' \in [Crl -> certs' \cup {NoCert}]
      /\ crlsIssuer' \in [Crl -> certs' \cup {NoCert}]
      /\ CrlIssuerVerifies'
  BY <1>1, <1>2 DEF StoreOK, Relinked, CrlIssuerVerifies
<1>7. TreeMatchesDb' /\ SignerMatchesDb' /\ IssuerVerifies' /\ SelfSignedKnown'
  BY <1>1, <1>2, <1>3, <1>4
     DEF StoreOK, Relinked, TreeMatchesDb, SignerMatchesDb, IssuerVerifies, SelfSignedKnown, TreeParent
<1>8. AbsentUnlinked'
  BY <1>1, <1>2, <1>4 DEF StoreOK, Relinked, AbsentUnlinked, Childs
<1> QED
  BY <1>2, <1>5, <1>6, <1>7, <1>8, DeletePKIRevocations DEF StoreOK

------------------------------------------------------------------------------
(* The other operations leave the tree alone.                              *)

\* What a step that keeps certificates, signers and tree preserves.
LEMMA SameTree ==
  ASSUME StoreOK,
         UNCHANGED <<certs, issuer, crls, crlsIssuer, signer, parent, crlIssuer>>,
         revocations' \in [Cert -> SUBSET Serial],
         revoked' \in [Cert -> BOOLEAN]
  PROVE  StoreOK'
  BY DEF StoreOK, TreeMatchesDb, SignerMatchesDb, IssuerVerifies, CrlIssuerVerifies,
         SelfSignedKnown, AbsentUnlinked

\* A step that changes neither the database nor the objects.
LEMMA SameStore == ASSUME StoreOK, UNCHANGED <<dbVars, memVars>> PROVE StoreOK'
<1>1. revocations' \in [Cert -> SUBSET Serial] /\ revoked' \in [Cert -> BOOLEAN]
  BY DEF dbVars, memVars, StoreOK
<1> QED
  BY <1>1, SameTree DEF dbVars, memVars

\* do_revoke() changes revocations only.
LEMMA DoRevokeStoreOK ==
  ASSUME StoreOK, NEW S \in SUBSET Cert, NEW s \in Cert, DoRevoke(S, s)
  PROVE  StoreOK'
<1>1. revocations' \in [Cert -> SUBSET Serial]
  <2>1. {SerialOf(c) : c \in S} \in SUBSET Serial
    BY SerialOfType
  <2>2. MergeRevList(s, {SerialOf(c) : c \in S}) \in SUBSET Serial
    BY <2>1, MergeRevListType
  <2> QED
    BY <2>2 DEF DoRevoke, StoreOK
<1>2. revoked' \in [Cert -> BOOLEAN]
  BY Zenon DEF DoRevoke
<1> QED
  BY <1>1, <1>2, SameTree DEF DoRevoke

\* setRevocations() changes revocations only.
LEMMA SetRevocationsStoreOK ==
  ASSUME StoreOK, NEW s \in Cert, NEW L \in SUBSET Serial, SetRevocations(s, L)
  PROVE  StoreOK'
<1>1. revocations' \in [Cert -> SUBSET Serial]
  BY DEF SetRevocations, StoreOK
<1>2. revoked' \in [Cert -> BOOLEAN]
  <2>1. \A c \in Cert : revoked[c] \in BOOLEAN
    BY DEF StoreOK
  <2>2. ASSUME NEW c \in Cert
        PROVE  (IF c \in certs /\ parent[c] = s THEN SerialOf(c) \in L ELSE revoked[c]) \in BOOLEAN
    <3> (SerialOf(c) \in L) \in BOOLEAN
      OBVIOUS
    <3>1. CASE c \in certs /\ parent[c] = s
      BY <3>1, Zenon
    <3>2. CASE ~(c \in certs /\ parent[c] = s)
      BY <3>2, <2>1, Zenon
    <3> QED
      BY <3>1, <3>2, Zenon
  <2> QED
    BY <2>2, Zenon DEF SetRevocations
<1> QED
  BY <1>1, <1>2, SameTree DEF SetRevocations

\* The issuer inToCont() gives to a revocation list is stored and verifies it.
LEMMA CrlIssuersVerify ==
  ASSUME NEW k \in Crl, NEW s \in CrlIssuers(k)
  PROVE  s \in certs \cup {NoCert} /\ (s # NoCert => CrlVerifies(k, s))
  BY DEF CrlIssuers, Latest

\* What happens to table crls does not touch the certificates.
LEMMA InsertCrlStoreOK ==
  ASSUME StoreOK, NEW k \in Crl, NEW s \in CrlIssuers(k), InsertCrl(k, s),
         UNCHANGED <<certs, issuer, signer, parent>>,
         revocations' \in [Cert -> SUBSET Serial],
         revoked' \in [Cert -> BOOLEAN]
  PROVE  StoreOK'
<1>1. /\ crls' \in SUBSET Crl
      /\ crlIssuer' \in [Crl -> certs' \cup {NoCert}]
      /\ crlsIssuer' \in [Crl -> certs' \cup {NoCert}]
      /\ CrlIssuerVerifies'
  BY CrlIssuersVerify DEF StoreOK, InsertCrl, CrlIssuerVerifies
<1> QED
  BY <1>1 DEF StoreOK, TreeMatchesDb, SignerMatchesDb, IssuerVerifies, SelfSignedKnown,
              AbsentUnlinked

------------------------------------------------------------------------------
(* Every action keeps the invariant.                                       *)

\* The empty database.
LEMMA InitConsistent == Init => Consistent
  BY DEF Init, Consistent, TypeOK, TreeMatchesDb, SignerMatchesDb, IssuerVerifies,
         CrlIssuerVerifies, SelfSignedKnown, AbsentUnlinked, TreeParent

\* insertPKI() of a certificate: database and memory relink the same certificates.
LEMMA InsertConsistent ==
  ASSUME Consistent, NEW c \in Cert, Insert(c) PROVE Consistent'
<1> USE ConsistentParts
<1>1. PICK s \in FindIssuer(c, certs) :
        InsertPKI(c, s, s \notin {NoCert, c} /\ SerialOf(c) \in RevList(s))
  BY DEF Insert
<1>2. s \in certs \cup {c, NoCert} /\ (s # NoCert => VerifyOnly(c, s))
  BY <1>1, FindIssuerVerifies DEF StoreOK
<1>3. (s \notin {NoCert, c} /\ SerialOf(c) \in RevList(s)) \in BOOLEAN
  OBVIOUS
<1>4. StoreOK'
  BY <1>1, <1>2, <1>3, InsertPKIStoreOK DEF Insert
<1>5. RenewalOK'
  BY DEF Insert, Idle, RenewalOK
<1> QED
  BY <1>4, <1>5

\* The renewed certificate verifies against the signer of the old one: the
\* copy differs from it in fields X509_check_issued() does not compare.
LEMMA RenewalVerifies ==
  ASSUME NEW old \in Cert, NEW new \in Cert, NEW s \in Cert,
         IsRenewalOf(new, old, s), VerifyOnly(old, s)
  PROVE  VerifyOnly(new, s)
<1>1. CertData[old] \in CertRecord
  BY CertAssumption
<1>2. /\ CertData[new].issuer = CertData[old].issuer
      /\ CertData[new].keyId = CertData[old].keyId
      /\ CertData[new].caSerial = CertData[old].caSerial
  BY <1>1 DEF IsRenewalOf, CertRecord
<1> QED
  BY <1>2 DEF VerifyOnly, CheckIssued

\* The insertion of a renewed certificate.
LEMMA RenewInsertConsistent ==
  ASSUME Consistent, NEW old \in Cert, NEW new \in Cert,
         NEW revoke \in BOOLEAN, NEW replace \in BOOLEAN,
         RenewInsert(old, new, revoke, replace)
  PROVE  Consistent'
<1> USE ConsistentParts
<1> DEFINE s == signer[old]
<1>1. /\ old \in certs /\ new \notin certs
      /\ s \in certs
      /\ IsRenewalOf(new, old, s)
      /\ InsertPKI(new, s, FALSE)
      /\ renewal' = [old |-> old, revoke |-> revoke, replace |-> replace]
  BY DEF RenewInsert, StoreOK
<1>2. VerifyOnly(old, s)
  BY <1>1, CertAssumption DEF StoreOK, SignerMatchesDb, IssuerVerifies
<1>3. VerifyOnly(new, s)
  BY <1>1, <1>2, RenewalVerifies DEF StoreOK
<1>4. StoreOK'
  BY <1>1, <1>3, InsertPKIStoreOK
<1>5. certs' = certs \cup {new}
  BY <1>1 DEF InsertPKI
<1>6. RenewalOK'
  BY <1>1, <1>5 DEF RenewalOK
<1> QED
  BY <1>4, <1>6

\* Every operation keeps the invariant.
LEMMA NextConsistent == ASSUME Consistent, [Next]_vars PROVE Consistent'
<1> USE ConsistentParts
<1>0. StoreOK /\ RenewalOK /\ certs \subseteq Cert
  BY DEF StoreOK
<1>1. ASSUME NEW c \in Cert, Insert(c) PROVE Consistent'
  BY <1>1, InsertConsistent
<1>2. ASSUME NEW c \in Cert, Delete(c) PROVE Consistent'
  <2>1. StoreOK'
    BY <1>2, <1>0, DeletePKIStoreOK DEF Delete
  <2>2. RenewalOK'
    BY <1>2 DEF Delete, Idle, RenewalOK
  <2> QED
    BY <2>1, <2>2
<1>3. ASSUME NEW S \in SUBSET certs, Revoke(S) PROVE Consistent'
  <2>1. StoreOK'
    BY <1>3, <1>0, DoRevokeStoreOK DEF Revoke
  <2>2. RenewalOK'
    BY <1>3 DEF Revoke, Idle, RenewalOK
  <2> QED
    BY <2>1, <2>2
<1>4. ASSUME NEW S \in SUBSET certs, UnRevoke(S) PROVE Consistent'
  <2>1. PICK s \in certs : SetRevocations(s, RevList(s) \ {SerialOf(c) : c \in S})
    BY <1>4 DEF UnRevoke
  <2>2. RevList(s) \ {SerialOf(c) : c \in S} \in SUBSET Serial
    BY <1>0, RevListType
  <2>3. StoreOK'
    BY <2>1, <2>2, <1>0, SetRevocationsStoreOK
  <2>4. RenewalOK'
    BY <1>4 DEF UnRevoke, Idle, RenewalOK
  <2> QED
    BY <2>3, <2>4
<1>5. ASSUME NEW s \in certs, NEW n \in TypedSerial, ManageRevocations(s, n) PROVE Consistent'
  <2>1. PICK L \in SUBSET Serial : SetRevocations(s, L)
    <3>1. RevList(s) \cup {n} \in SUBSET Serial /\ RevList(s) \ {n} \in SUBSET Serial
      BY <1>0, RevListType, TypedAssumption
    <3> QED
      BY <1>5, <3>1 DEF ManageRevocations
  <2>2. StoreOK'
    BY <2>1, <1>0, SetRevocationsStoreOK
  <2>3. RenewalOK'
    BY <1>5 DEF ManageRevocations, Idle, RenewalOK
  <2> QED
    BY <2>2, <2>3
<1>6. ASSUME NEW old \in Cert, NEW new \in Cert, NEW revoke \in BOOLEAN, NEW replace \in BOOLEAN,
             RenewInsert(old, new, revoke, replace)
      PROVE  Consistent'
  BY <1>6, RenewInsertConsistent
<1>7. CASE RenewRevoke
  <2>1. renewal \in [old : certs, revoke : BOOLEAN, replace : BOOLEAN]
    BY <1>7, <1>0 DEF RenewRevoke, Idle, RenewalOK
  <2>2. {renewal.old} \in SUBSET Cert /\ signer[renewal.old] \in Cert
    BY <1>7, <1>0, <2>1 DEF RenewRevoke, StoreOK
  <2>3. StoreOK'
    BY <1>7, <1>0, <2>2, DoRevokeStoreOK DEF RenewRevoke
  <2>4. RenewalOK'
    BY <1>7, <2>1 DEF RenewRevoke, DoRevoke, RenewalOK
  <2> QED
    BY <2>3, <2>4
<1>8. CASE RenewReplace
  <2>1. renewal.old \in certs
    BY <1>8, <1>0 DEF RenewReplace, Idle, RenewalOK
  <2>2. StoreOK'
    BY <1>8, <1>0, <2>1, DeletePKIStoreOK DEF RenewReplace
  <2>3. RenewalOK'
    BY <1>8 DEF RenewReplace, NoRenewal, RenewalOK
  <2> QED
    BY <2>2, <2>3
<1>9. CASE RenewDone
  <2>1. StoreOK'
    BY <1>9, <1>0, SameStore DEF RenewDone
  <2>2. RenewalOK'
    BY <1>9 DEF RenewDone, NoRenewal, RenewalOK
  <2> QED
    BY <2>1, <2>2
<1>10. ASSUME NEW k \in Crl, ImportCrl(k) PROVE Consistent'
  <2>0. UNCHANGED <<certs, issuer, signer, parent>> /\ RenewalOK'
    BY <1>10 DEF ImportCrl, Idle, RenewalOK
  <2>1. PICK s \in CrlIssuers(k) :
          /\ InsertCrl(k, s)
          /\ IF s = NoCert
             THEN UNCHANGED <<revocations, revoked>>
             ELSE /\ revocations' =
                       [revocations EXCEPT ![s] = MergeRevList(s, CrlData[k].serials)]
                  /\ \E M \in MarkedBy(k, s) : revoked' = [c \in Cert |-> c \in M \/ revoked[c]]
    BY <1>10 DEF ImportCrl
  <2>2. CASE s = NoCert
    <3>1. revocations' \in [Cert -> SUBSET Serial] /\ revoked' \in [Cert -> BOOLEAN]
      BY <2>1, <2>2, <1>0 DEF StoreOK
    <3> QED
      BY <3>1, <2>1, <2>0, <1>0, InsertCrlStoreOK
  <2>3. CASE s # NoCert
    <3>1. s \in Cert
      BY <2>3, <1>0, CrlIssuersVerify
    <3>2. CrlData[k].serials \in SUBSET Serial
      BY CrlAssumption DEF CrlRecord
    <3>3. MergeRevList(s, CrlData[k].serials) \in SUBSET Serial
      BY <3>1, <3>2, <1>0, MergeRevListType
    <3>4. revocations' \in [Cert -> SUBSET Serial]
      BY <2>1, <2>3, <3>3, <1>0 DEF StoreOK
    <3>5. revoked' \in [Cert -> BOOLEAN]
      <4>1. PICK M : revoked' = [c \in Cert |-> c \in M \/ revoked[c]]
        BY <2>1, <2>3
      <4> QED
        BY <4>1, Zenon
    <3> QED
      BY <3>4, <3>5, <2>1, <2>0, <1>0, InsertCrlStoreOK
  <2> QED
    BY <2>2, <2>3
<1>11. ASSUME NEW s \in certs, NEW k \in Crl, GenerateCrl(s, k) PROVE Consistent'
  <2>1. StoreOK'
    BY <1>11, <1>0, InsertCrlStoreOK DEF GenerateCrl, StoreOK
  <2>2. RenewalOK'
    BY <1>11 DEF GenerateCrl, Idle, RenewalOK
  <2> QED
    BY <2>1, <2>2
<1>12. ASSUME NEW k \in Crl, DeleteCrl(k) PROVE Consistent'
  <2>1. StoreOK'
    BY <1>12, <1>0 DEF DeleteCrl, StoreOK, TreeMatchesDb, SignerMatchesDb, IssuerVerifies,
       CrlIssuerVerifies, SelfSignedKnown, AbsentUnlinked
  <2>2. RenewalOK'
    BY <1>12 DEF DeleteCrl, Idle, RenewalOK
  <2> QED
    BY <2>1, <2>2
<1>13. CASE Reload
  <2>1. revoked' \in [Cert -> BOOLEAN]
    BY <1>13, Zenon DEF Reload
  <2>2. StoreOK'
    BY <2>1, <1>13, <1>0 DEF Reload, dbVars, StoreOK, TreeMatchesDb, SignerMatchesDb,
       IssuerVerifies, CrlIssuerVerifies, SelfSignedKnown, AbsentUnlinked, TreeParent
  <2>3. RenewalOK'
    BY <1>13 DEF Reload, NoRenewal, RenewalOK
  <2> QED
    BY <2>2, <2>3
<1>14. CASE UNCHANGED vars
  <2>1. StoreOK'
    BY <1>14, <1>0, SameStore DEF vars
  <2>2. RenewalOK'
    BY <1>14, <1>0 DEF vars, dbVars, RenewalOK
  <2> QED
    BY <2>1, <2>2
<1> QED
  BY <1>1, <1>2, <1>3, <1>4, <1>5, <1>6, <1>7, <1>8, <1>9, <1>10, <1>11, <1>12, <1>13, <1>14
     DEF Next, Renewal

------------------------------------------------------------------------------
(* The theorems.                                                           *)

\* The copy of the tree in memory and the one in the database describe the
\* same forest: every import, renewal, deletion and reload keeps them in step.
THEOREM ConsistentHolds == Spec => []Consistent
<1>1. Init => Consistent
  BY InitConsistent
<1>2. Consistent /\ [Next]_vars => Consistent'
  BY NextConsistent
<1> QED
  BY <1>1, <1>2, PTL DEF Spec

\* Every variable keeps its type: in particular no row and no object refers
\* to a certificate that deletePKI() has removed.
THEOREM TypeCorrect == Spec => []TypeOK
<1>1. Consistent => TypeOK
  BY DEF Consistent
<1> QED
  BY <1>1, ConsistentHolds, PTL

\* The tree the user sees is the one loadContainer() would build.
THEOREM TreeIsStored == Spec => []TreeMatchesDb
<1>1. Consistent => TreeMatchesDb
  BY DEF Consistent
<1> QED
  BY <1>1, ConsistentHolds, PTL

\* An object never believes in a signer the database does not record.
THEOREM SignerIsStored == Spec => []SignerMatchesDb
<1>1. Consistent => SignerMatchesDb
  BY DEF Consistent
<1> QED
  BY <1>1, ConsistentHolds, PTL

\* No certificate is filed under one that could not have issued it, renewed
\* certificates included, which inToCont() files without verify().
THEOREM IssuersVerify == Spec => []IssuerVerifies
<1>1. Consistent => IssuerVerifies
  BY DEF Consistent
<1> QED
  BY <1>1, ConsistentHolds, PTL

\* A revocation list is filed under the CA that signed it, in memory and in
\* the database alike.
THEOREM CrlIssuersAgree == Spec => []CrlIssuerVerifies
<1>1. Consistent => CrlIssuerVerifies
  BY DEF Consistent
<1> QED
  BY <1>1, ConsistentHolds, PTL

------------------------------------------------------------------------------
(* Where an issuer is replaced.                                            *)

AnchorMovesUp ==
  \A c \in certs \cap certs' :
    issuer'[c] # issuer[c] /\ issuer[c] \in certs' =>
      /\ issuer'[c] \in certs' \ certs
      /\ CompareNameAndKey(issuer'[c], issuer[c])
      /\ NotAfter(issuer[c]) <= NotAfter(issuer'[c])

\* inToCont() takes children from superseded CAs and from the root item; a
\* self signed one among the latter is left where it is.
LEMMA InsertMovesUp ==
  ASSUME StoreOK, NEW n \in Cert, n \notin certs, NEW s, NEW rev, InsertPKI(n, s, rev)
  PROVE  AnchorMovesUp
<1>1. certs' = certs \cup {n} /\ issuer' = IssuerAfter(n, s, Adopted(n, s))
  BY DEF InsertPKI
<1> SUFFICES ASSUME NEW c \in certs \cap certs', issuer'[c] # issuer[c], issuer[c] \in certs'
             PROVE  /\ issuer'[c] \in certs' \ certs
                    /\ CompareNameAndKey(issuer'[c], issuer[c])
                    /\ NotAfter(issuer[c]) <= NotAfter(issuer'[c])
  BY DEF AnchorMovesUp
<1>2. c \in Cert /\ c # n /\ issuer[c] # NoCert
  BY <1>1, CertAssumption DEF StoreOK
<1>3. c \in Adopted(n, s) /\ issuer'[c] = n
  BY <1>1, <1>2 DEF IssuerAfter
<1>4. c \in Detached(n, s)
  <2>1. CASE parent[c] = NoCert /\ signer[c] # c
    <3>1. issuer[c] = c
      BY <2>1, <1>2 DEF StoreOK, TreeMatchesDb, TreeParent
    <3> QED
      BY <2>1, <3>1 DEF StoreOK, SelfSignedKnown
  <2> QED
    BY <2>1, <1>3 DEF Adopted, Collected
<1>5. parent[c] \in Superseded(n)
  BY <1>2, <1>4 DEF Detached, StoreOK
<1>6. issuer[c] = parent[c]
  BY <1>2, <1>5, CertAssumption DEF StoreOK, TreeMatchesDb, TreeParent, Superseded
<1> QED
  BY <1>1, <1>3, <1>5, <1>6 DEF Superseded, CompareNameAndKey

\* remFromCont() gives another issuer to the children of the deleted one only.
LEMMA DeleteMovesUp ==
  ASSUME StoreOK, NEW d \in certs, DeletePKI(d) PROVE AnchorMovesUp
<1>1. PICK next : Relinked(d, next)
  BY Zenon DEF DeletePKI
<1>2. \A c \in Childs(d) : issuer[c] = d
  BY ChildsAskFindIssuer
<1> QED
  BY <1>1, <1>2 DEF Relinked, AnchorMovesUp, StoreOK

\* A certificate moves from a stored issuer to another one only when that one
\* is a new certificate of the same CA that does not expire earlier.
THEOREM AnchorsMoveUp == Spec => AnchorOnlyMovesUp
<1>1. ASSUME Consistent, [Next]_vars PROVE [AnchorMovesUp]_vars
  <2> StoreOK
    BY <1>1, ConsistentParts
  <2>0. certs \subseteq Cert
    BY DEF StoreOK
  <2>1. ASSUME NEW c \in Cert, Insert(c) PROVE AnchorMovesUp
    BY <2>1, InsertMovesUp DEF Insert
  <2>2. ASSUME NEW c \in Cert, Delete(c) PROVE AnchorMovesUp
    BY <2>2, DeleteMovesUp DEF Delete
  <2>3. ASSUME NEW old \in Cert, NEW new \in Cert, NEW revoke \in BOOLEAN, NEW replace \in BOOLEAN,
               RenewInsert(old, new, revoke, replace)
        PROVE  AnchorMovesUp
    BY <2>3, InsertMovesUp DEF RenewInsert
  <2>4. CASE RenewReplace
    <3>1. renewal.old \in certs
      BY <1>1, <2>4, ConsistentParts DEF RenewReplace, Idle, RenewalOK
    <3> QED
      BY <2>4, <3>1, DeleteMovesUp DEF RenewReplace
  <2>5. ASSUME issuer' = issuer PROVE AnchorMovesUp
    BY <2>5 DEF AnchorMovesUp
  <2>6. ASSUME NEW S, Revoke(S) \/ UnRevoke(S) PROVE issuer' = issuer
    BY <2>6 DEF Revoke, UnRevoke, DoRevoke, SetRevocations
  <2>7. ASSUME NEW s, NEW n, ManageRevocations(s, n) PROVE issuer' = issuer
    BY <2>7 DEF ManageRevocations, SetRevocations
  <2>8. CASE RenewRevoke \/ RenewDone \/ Reload
    <3>1. issuer' = issuer
      BY <2>8 DEF RenewRevoke, DoRevoke, RenewDone, Reload, dbVars
    <3> QED
      BY <3>1, <2>5
  <2>9. ASSUME NEW s, NEW k, ImportCrl(k) \/ GenerateCrl(s, k) \/ DeleteCrl(k)
        PROVE  issuer' = issuer
    BY <2>9 DEF ImportCrl, GenerateCrl, DeleteCrl
  <2>10. CASE UNCHANGED vars
    BY <2>10
  <2> QED
    BY <1>1, <2>1, <2>2, <2>3, <2>4, <2>5, <2>6, <2>7, <2>8, <2>9, <2>10 DEF Next, Renewal
<1>2. Spec => [][AnchorMovesUp]_vars
  BY <1>1, ConsistentHolds, PTL DEF Spec
<1> QED
  BY <1>2, PTL DEF AnchorOnlyMovesUp, AnchorMovesUp

------------------------------------------------------------------------------
(* Walks along getSigner().                                                *)

\* The walk stays in every set that has its start and the signers of its members.
LEMMA ChainWithin ==
  ASSUME NEW sig, NEW c, NEW S \in SUBSET Cert,
         c \in S, \A x \in S : sig[x] \in S \cup {NoCert}
  PROVE  Chain(sig, c) \subseteq S
  BY DEF Chain

\* The walk starts at c and goes on at the signer of each certificate it meets.
LEMMA ChainClosed ==
  ASSUME NEW sig, NEW c \in Cert
  PROVE  /\ c \in Chain(sig, c)
         /\ \A x \in Chain(sig, c) : sig[x] \in Cert \cup {NoCert} =>
              sig[x] \in Chain(sig, c) \cup {NoCert}
  BY DEF Chain

\* A walk that comes to no end stays among certificates with another signer.
LEMMA EndlessChain ==
  ASSUME NEW sig, NEW c \in Cert, \A x \in Cert : sig[x] \in Cert \cup {NoCert}, ~Ends(sig, c)
  PROVE  \A x \in Chain(sig, c) : sig[x] \in Chain(sig, c) /\ sig[x] # x
<1>1. Chain(sig, c) \subseteq Cert
  BY DEF Chain
<1> QED
  BY <1>1, ChainClosed DEF Ends

\* No walk in such a set comes to an end.
LEMMA EndlessSet ==
  ASSUME NEW sig, NEW S \in SUBSET Cert, \A x \in S : sig[x] \in S /\ sig[x] # x,
         NEW c \in S
  PROVE  ~Ends(sig, c)
<1>1. Chain(sig, c) \subseteq S
  BY ChainWithin
<1> QED
  BY <1>1, CertAssumption DEF Ends

\* inToCont() changes signers in a way recursiveSigning() has checked: where all
\* walks ended before they end after it.
LEMMA InsertEnds ==
  ASSUME StoreOK, ChainsEnd,
         NEW c \in Cert, c \notin certs,
         NEW s \in certs \cup {c, NoCert}, NEW rev,
         InsertPKI(c, s, rev)
  PROVE  ChainsEnd'
<1> DEFINE adopted == Adopted(c, s)
           sig == DetachedSigner(c, s)
<1>1. /\ certs' = certs \cup {c}
      /\ signer' = [d \in Cert |-> IF d \in adopted THEN c ELSE sig[d]]
  BY DEF InsertPKI
<1>2. certs \subseteq Cert /\ \A d \in certs : signer[d] \in certs \cup {NoCert}
  BY DEF StoreOK
<1>3. \A d \in Cert : sig[d] \in {NoCert, IF d = c THEN s ELSE signer[d]}
  BY DetachedSignerType DEF StoreOK
<1>4. \A d \in adopted : sig[d] = NoCert /\ ~RecursiveSigning(sig, c, d)
  BY DEF Adopted
<1>5. \A x \in Cert : signer'[x] \in Cert \cup {NoCert}
  <2>1. \A x \in Cert : signer[x] \in Cert \cup {NoCert}
    BY <1>2 DEF StoreOK
  <2> HIDE DEF sig, adopted
  <2> QED
    BY <1>1, <1>2, <1>3, <2>1
<1> HIDE DEF adopted, sig
\* Nothing that is endless among the old certificates was given to c.
<1>6. ASSUME NEW B \in SUBSET certs, NEW x \in B,
             \A y \in B : signer'[y] \in B /\ signer'[y] # y
      PROVE  FALSE
  <2>1. \A y \in B : signer[y] = signer'[y]
    BY <1>1, <1>2, <1>3, <1>6, CertAssumption
  <2>2. ~Ends(signer, x)
    <3>1. B \in SUBSET Cert /\ \A y \in B : signer[y] \in B /\ signer[y] # y
      BY <1>2, <1>6, <2>1
    <3> QED
      BY <3>1, EndlessSet
  <2> QED
    BY <2>2 DEF ChainsEnd
\* So it goes through c and on at the signer of c, which is an old certificate.
<1>7. SUFFICES ASSUME NEW x \in certs', ~Ends(signer', x) PROVE FALSE
  BY DEF ChainsEnd, Ends
<1> DEFINE B == Chain(signer', x)
<1>8. /\ x \in B /\ B \subseteq Cert
      /\ \A y \in B : signer'[y] \in B /\ signer'[y] # y
  <2>1. x \in Cert
    BY <1>1, <1>2, <1>7
  <2>2. B \subseteq Cert
    BY DEF Chain
  <2> QED
    BY <1>5, <1>7, <2>1, <2>2, ChainClosed, EndlessChain
<1>9. B \subseteq certs \cup {c}
  <2>1. \A y \in certs \cup {c} : signer'[y] \in certs \cup {c, NoCert}
    BY <1>1, <1>2, <1>3
  <2>2. certs \cup {c} \in SUBSET Cert /\ x \in certs \cup {c}
    BY <1>1, <1>2, <1>7
  <2> HIDE DEF B
  <2> QED
    <3>1. \A y \in certs \cup {c} : signer'[y] \in (certs \cup {c}) \cup {NoCert}
      BY <2>1
    <3> QED
      BY <2>2, <3>1, ChainWithin DEF B
<1> HIDE DEF B
<1>10. c \in B
  BY <1>6, <1>8, <1>9
<1> DEFINE p == sig[c]
           C == Chain(sig, p)
<1>11. c \notin adopted /\ signer'[c] = p /\ p \in B /\ p \in certs
  <2>1. c \notin adopted
    BY <1>1, <1>8, <1>10
  <2>2. signer'[c] = p
    BY <1>1, <2>1
  <2>3. p \in B /\ p # c
    BY <1>8, <1>10, <2>2
  <2> QED
    BY <1>9, <2>1, <2>2, <2>3
<1>12. C \subseteq certs
  <2>1. \A y \in certs : sig[y] \in certs \cup {NoCert}
    BY <1>2, <1>3
  <2> QED
    BY <1>2, <1>11, <2>1, ChainWithin
<1>13. \A y \in C : y \notin adopted
  <2>1. p # NoCert
    BY <1>2, <1>11, CertAssumption
  <2> SUFFICES ASSUME NEW y \in C, y \in adopted PROVE FALSE
    OBVIOUS
  <2>2. sig[y] = NoCert /\ y # NoCert
    BY <1>2, <1>4, <1>12, CertAssumption
  <2> QED
    BY <1>4, <2>1, <2>2 DEF RecursiveSigning
<1> DEFINE D == B \cap C
<1>14. p \in D
  BY <1>2, <1>11, ChainClosed
<1>15. \A y \in D : signer'[y] \in D /\ signer'[y] # y
  <2> SUFFICES ASSUME NEW y \in D PROVE signer'[y] \in C
    BY <1>8
  <2>1. y \in Cert /\ signer'[y] = sig[y] /\ sig[y] \in B
    BY <1>1, <1>2, <1>8, <1>12, <1>13
  <2>2. sig[y] \in Cert /\ sig[y] # NoCert
    BY <1>8, <2>1, CertAssumption
  <2> QED
    BY <1>2, <1>11, <2>1, <2>2, ChainClosed
<1> QED
  <2>1. D \in SUBSET certs
    BY <1>12
  <2> HIDE DEF D
  <2> QED
    BY <1>6, <1>14, <1>15, <2>1

\* A new certificate closes no cycle of signers, cross certified CAs included.
THEOREM ImportsKeepChains == Spec => ImportKeepsChains
<1>1. ASSUME Consistent, [Next]_vars, certs' \ certs # {}, ChainsEnd PROVE ChainsEnd'
  <2> StoreOK
    BY <1>1, ConsistentParts
  <2>1. ASSUME NEW c \in Cert, Insert(c) PROVE ChainsEnd'
    BY <1>1, <2>1, FindIssuerVerifies, InsertEnds DEF Insert, StoreOK
  <2>2. ASSUME NEW old \in Cert, NEW new \in Cert, NEW revoke \in BOOLEAN, NEW replace \in BOOLEAN,
               RenewInsert(old, new, revoke, replace)
        PROVE  ChainsEnd'
    BY <1>1, <2>2, InsertEnds DEF RenewInsert, StoreOK
  <2>3. ASSUME NEW c, Delete(c) PROVE certs' \ certs = {}
    BY <2>3, Zenon DEF Delete, DeletePKI, Relinked
  <2>4. ASSUME NEW S, Revoke(S) \/ UnRevoke(S) PROVE certs' = certs
    BY <2>4 DEF Revoke, UnRevoke, DoRevoke, SetRevocations
  <2>5. ASSUME NEW s, NEW n, ManageRevocations(s, n) PROVE certs' = certs
    BY <2>5 DEF ManageRevocations, SetRevocations
  <2>6. CASE RenewRevoke \/ RenewDone \/ Reload
    BY <1>1, <2>6 DEF RenewRevoke, DoRevoke, RenewDone, Reload, dbVars
  <2>7. CASE RenewReplace
    BY <1>1, <2>7, Zenon DEF RenewReplace, DeletePKI, Relinked
  <2>8. ASSUME NEW s, NEW k, ImportCrl(k) \/ GenerateCrl(s, k) \/ DeleteCrl(k)
        PROVE  certs' = certs
    BY <2>8 DEF ImportCrl, GenerateCrl, DeleteCrl
  <2>9. CASE UNCHANGED vars
    BY <1>1, <2>9 DEF vars, dbVars
  <2> QED
    BY <1>1, <2>1, <2>2, <2>3, <2>4, <2>5, <2>6, <2>7, <2>8, <2>9 DEF Next, Renewal
<1> QED
  BY <1>1, ConsistentHolds, PTL DEF Spec, ImportKeepsChains

==============================================================================

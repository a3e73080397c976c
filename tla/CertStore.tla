------------------------------ MODULE CertStore ------------------------------
(***************************************************************************)
(* The certificate chain store of XCA: lib/db_x509.cpp, lib/pki_x509.cpp,  *)
(* lib/db_crl.cpp and lib/pki_crl.cpp on top of lib/db_base.cpp.           *)
(*                                                                         *)
(* Every certificate is kept twice: as rows of the database and as an      *)
(* object in memory.  The object holds its signer (issuerSqlId), its place *)
(* in the tree view and its revocation; the database holds the `issuer'    *)
(* column of table `certs' and, for each CA, the rows of table             *)
(* `revocations'.  Importing, renewing or deleting a certificate relinks   *)
(* both sides by hand, in the order of the handlers below.                 *)
(*                                                                         *)
(* A certificate or CRL document never changes, so what it says is a       *)
(* constant (CertData, CrlData) and the identity of the document is the    *)
(* identity of its database item.                                          *)
(***************************************************************************)
EXTENDS Naturals, FiniteSets

CONSTANTS
  Cert,        \* the certificates the user may create or import
  CertData,    \* what each certificate says, see CertRecord
  Crl,         \* the revocation lists the user may generate or import
  CrlData,     \* what each revocation list says, see CrlRecord
  TypedSerial, \* the serials the user adds and removes in the Manage revocations dialog
  HaveKey,     \* the keys whose private part is in the database
  NoCert,      \* SQL NULL, and the invisible root item of the tree view
  NoId         \* an authority key identifier field that is absent

Serial == {CertData[c].serial : c \in Cert} \cup UNION {CrlData[k].serials : k \in Crl}
Name   == {CertData[c].subject : c \in Cert} \cup {CertData[c].issuer : c \in Cert}
Key    == {CertData[c].key : c \in Cert} \cup {CertData[c].signKey : c \in Cert}

\* keyId and caSerial are the fields of the authority key identifier; signKey
\* is the key that made the signature; certSign is FALSE when a key usage
\* extension forbids the certificate to sign others.
CertRecord == [subject : Name, issuer : Name, key : Key, signKey : Key,
               keyId : Key \cup {NoId}, caSerial : Serial \cup {NoId},
               serial : Serial, notAfter : Nat, ca : BOOLEAN, certSign : BOOLEAN]

CrlRecord == [issuer : Name, signKey : Key, serials : SUBSET Serial]

ASSUME CertAssumption ==
  /\ IsFiniteSet(Cert)
  /\ CertData \in [Cert -> CertRecord]
  /\ NoCert \notin Cert
ASSUME TypedAssumption == TypedSerial \subseteq Serial
ASSUME CrlAssumption == CrlData \in [Crl -> CrlRecord]

VARIABLES
  certs,        \* DB: the items in table certs, which are also the objects in memory
  issuer,       \* DB: column certs.issuer
  revocations,  \* DB: the serials in table revocations with this caId
  crls,         \* DB and memory: the revocation lists
  crlsIssuer,   \* DB: column crls.issuer
  signer,       \* memory: pki_x509::issuerSqlId looked up in the Store
  parent,       \* memory: the parent item in the tree view
  revoked,      \* memory: pki_x509::revocation is valid
  crlIssuer,    \* memory: pki_crl::issuerSqlId
  renewal       \* the renewal that is between two of its transactions

dbVars  == <<certs, issuer, revocations, crls, crlsIssuer>>
memVars == <<signer, parent, revoked, crlIssuer>>
vars    == <<dbVars, memVars, renewal>>

------------------------------------------------------------------------------
(* What the documents say about each other.                                *)

Subject(c)  == CertData[c].subject
SerialOf(c) == CertData[c].serial
NotAfter(c) == CertData[c].notAfter
IsCA(c)     == CertData[c].ca
CanSign(c)  == IsCA(c) /\ CertData[c].key \in HaveKey

\* X509_check_issued() of OpenSSL: names, authority key identifier and key
\* usage.  It does not look at the signature.
CheckIssued(s, c) ==
  /\ CertData[s].subject = CertData[c].issuer
  /\ CertData[c].keyId \in {NoId, CertData[s].key}
  /\ CertData[c].caSerial \in {NoId, CertData[s].serial}
  /\ CertData[s].certSign

VerifyOnly(c, s) == CheckIssued(s, c)

CompareNameAndKey(c, d) ==
  /\ CertData[c].subject = CertData[d].subject
  /\ CertData[c].key = CertData[d].key

\* pki_crl::verify() does check the signature of the list.
CrlVerifies(k, c) ==
  /\ CrlData[k].issuer = CertData[c].subject
  /\ CrlData[k].signKey = CertData[c].key

Latest_Any(S) == S

Latest(S) == {s \in S : \A t \in S : NotAfter(t) <= NotAfter(s)}

------------------------------------------------------------------------------
(* Building blocks of the handlers.                                        *)

\* The certificates findIssuer() can return for c when it has no signer and
\* the rows S are in the table: itself, else the CA that expires last.  The
\* query has no ORDER BY, so any of several that expire together.
FindIssuer_DeletedToo(c, S) ==
  LET candidates == {s \in certs : IsCA(s) /\ VerifyOnly(c, s)}
  IN  IF VerifyOnly(c, c) THEN {c}
      ELSE IF candidates = {} THEN {NoCert} ELSE Latest(candidates)

FindIssuer(c, S) ==
  LET candidates == {s \in S : IsCA(s) /\ VerifyOnly(c, s)}
  IN  IF VerifyOnly(c, c) THEN {c}
      ELSE IF candidates = {} THEN {NoCert} ELSE Latest(candidates)

\* insertChild(): a self signed certificate and one without signer are
\* children of the root item.
TreeParent(c, s) == IF s = c THEN NoCert ELSE s

RevList(c) == IF IsCA(c) THEN revocations[c] ELSE {}

\* The rows of CA c after mergeRevList(): rewritten only if something is new.
MergeRevList(c, S) ==
  IF S \subseteq RevList(c) THEN revocations[c] ELSE RevList(c) \cup S

\* The certificates on the walk from c along getSigner(), c included: those in
\* every set that has c and the signers of its members.
Chain(sig, c) ==
  {d \in Cert : \A S \in SUBSET Cert :
                  c \in S /\ (\A x \in S : sig[x] \in S \cup {NoCert}) => d \in S}

\* recursiveSigning(): client is met on the walk from the signer of c before a
\* self signed certificate is.
RecursiveSigning_Never(sig, c, client) == FALSE

RecursiveSigning(sig, c, client) ==
  /\ sig[client] # client
  /\ sig[c] # NoCert
  /\ client \in Chain(sig, sig[c])

\* The walk from c comes to a certificate without signer or to a self signed one.
Ends(sig, c) == \E d \in Chain(sig, c) : sig[d] \in {NoCert, d}

\* The loop in recursiveSigning() ends: there or at the client.
WalkEnds(sig, c, client) == Ends(sig, c) \/ RecursiveSigning(sig, c, client)

Idle == renewal = NoCert
NoRenewal == renewal' = NoCert

------------------------------------------------------------------------------
(* insertPKI() of a certificate: insertSql(), then inToCont().             *)

\* The CAs with the name and key of c whose children c takes over.
Superseded_AnyAge(c) == {o \in certs : IsCA(o) /\ CompareNameAndKey(o, c)}

Superseded(c) ==
  {o \in certs : IsCA(o) /\ CompareNameAndKey(o, c) /\ NotAfter(o) <= NotAfter(c)}

\* The children, c among them, of the CAs c supersedes when c was given signer
\* s (NoCert, c itself or a stored certificate) ...
Detached(c, s) ==
  LET par == [parent EXCEPT ![c] = TreeParent(c, s)]
  IN  {d \in certs \cup {c} : par[d] \in Superseded(c)}

\* ... have lost that signer (delSigner).
DetachedSigner(c, s) ==
  LET par == [parent EXCEPT ![c] = TreeParent(c, s)]
      sig == [signer EXCEPT ![c] = s]
  IN  [d \in Cert |-> IF d \in Detached(c, s) /\ sig[d] = par[d] THEN NoCert ELSE sig[d]]

\* They and those below the root item that c issued are collected ...
Collected_FromRoot(c, s) ==
  {d \in certs : parent[d] = NoCert /\ signer[d] # d /\ VerifyOnly(d, c)}

Collected_FromSuperseded(c, s) == Detached(c, s)

Collected(c, s) ==
  Detached(c, s) \cup {d \in certs : parent[d] = NoCert /\ signer[d] # d /\ VerifyOnly(d, c)}

\* ... and these of them are given to c.
Adopted_Unverified(c, s) ==
  {d \in Collected(c, s) : /\ DetachedSigner(c, s)[d] = NoCert
                           /\ ~RecursiveSigning(DetachedSigner(c, s), c, d)}

Adopted(c, s) ==
  {d \in Collected(c, s) : /\ DetachedSigner(c, s)[d] = NoCert
                           /\ VerifyOnly(d, c)
                           /\ ~RecursiveSigning(DetachedSigner(c, s), c, d)}

\* The list c takes over from the superseded CAs and from its new children.
InheritedRevList_NotOfChildren(c, adopted) == UNION {RevList(o) : o \in Superseded(c)}

InheritedRevList(c, adopted) ==
  (UNION {RevList(o) : o \in Superseded(c)}) \cup {SerialOf(d) : d \in {e \in adopted : revoked[e]}}

\* Column certs.issuer and the tree when the adopted certificates are moved to c.
IssuerAfter_NoUpdate(c, s, adopted) == [issuer EXCEPT ![c] = s]

IssuerAfter(c, s, adopted) ==
  [d \in Cert |-> IF d \in adopted THEN c ELSE IF d = c THEN s ELSE issuer[d]]

ParentAfter_NoMove(c, s, adopted) == [parent EXCEPT ![c] = TreeParent(c, s)]

ParentAfter(c, s, adopted) ==
  [d \in Cert |-> IF d \in adopted THEN TreeParent(d, c)
                  ELSE IF d = c THEN TreeParent(c, s) ELSE parent[d]]

\* The revocation lists c is the newest issuer of.
Claimed(c) ==
  {k \in crls : /\ CrlVerifies(k, c)
                /\ \/ crlIssuer[k] = NoCert
                   \/ NotAfter(crlIssuer[k]) <= NotAfter(c)}

\* rev tells whether c took a revocation from the list of s.
InsertPKI(c, s, rev) ==
  \E sig \in {DetachedSigner(c, s)}, adopted \in {Adopted(c, s)} :
  \E list \in {InheritedRevList(c, adopted)}, tree \in {ParentAfter(c, s, adopted)} :
    /\ \A d \in Collected(c, s) : WalkEnds(sig, c, d)
    /\ certs' = certs \cup {c}
    /\ issuer' = IssuerAfter(c, s, adopted)
    /\ signer' = [d \in Cert |-> IF d \in adopted THEN c ELSE sig[d]]
    /\ parent' = tree
    /\ revocations' = [revocations EXCEPT ![c] = list]
    /\ revoked' = [d \in Cert |-> IF tree[d] = c THEN SerialOf(d) \in list
                                  ELSE IF d = c THEN rev ELSE revoked[d]]
    /\ crlIssuer'  = [k \in Crl |-> IF k \in Claimed(c) THEN c ELSE crlIssuer[k]]
    /\ crlsIssuer' = [k \in Crl |-> IF k \in Claimed(c) THEN c ELSE crlsIssuer[k]]
    /\ UNCHANGED crls

\* db_x509::insert() of a certificate from a file, a token, the clipboard or
\* the new certificate dialog: findIssuer() and, in verify(), the revocation
\* the issuer's list already has for it.
Insert(c) ==
  /\ Idle
  /\ c \notin certs
  /\ \E s \in FindIssuer(c, certs) :
       InsertPKI(c, s, s \notin {NoCert, c} /\ SerialOf(c) \in RevList(s))
  /\ UNCHANGED renewal

------------------------------------------------------------------------------
(* deletePKI() of a certificate: deleteSqlData(), then remFromCont().      *)

Childs(c) == {d \in certs : parent[d] = c}

\* What findIssuer() can return for child d when its signer c is taken away.
NextIssuers(c, d) ==
  IF signer[d] \in {NoCert, c} THEN FindIssuer(d, certs \ {c}) ELSE {signer[d]}

\* Both copies of the tree when each child d is given the issuer next[d].
Relinked(c, next) ==
  /\ certs' = certs \ {c}
  /\ issuer' = [d \in Cert |->
                  IF d = c THEN NoCert
                  ELSE IF d \in Childs(c) THEN next[d]
                  ELSE IF issuer[d] = c THEN NoCert ELSE issuer[d]]
  /\ signer' = [d \in Cert |->
                  IF d = c THEN NoCert ELSE IF d \in Childs(c) THEN next[d] ELSE signer[d]]
  /\ parent' = [d \in Cert |->
                  IF d = c THEN NoCert
                  ELSE IF d \in Childs(c) THEN TreeParent(d, next[d]) ELSE parent[d]]
  /\ crlIssuer'  = [k \in Crl |-> IF crlIssuer[k]  = c THEN NoCert ELSE crlIssuer[k]]
  /\ crlsIssuer' = [k \in Crl |-> IF crlsIssuer[k] = c THEN NoCert ELSE crlsIssuer[k]]
  /\ UNCHANGED crls

\* verify() exchanges revocations with the next issuer: the child's goes on
\* the issuer's list ...
GivenTo(c, next, s) == {SerialOf(d) : d \in {e \in Childs(c) : revoked[e] /\ next[e] = s}}

\* ... and the child takes what is listed for it.  The children move one after
\* the other: of two with the same serial the one that comes late finds the
\* revocation of the other.
Twins(c, next) ==
  {d \in Childs(c) : ~revoked[d] /\ SerialOf(d) \in GivenTo(c, next, next[d])}

TakesFrom(c, next, late, d) ==
  \/ d \in late
  \/ next[d] # NoCert /\ SerialOf(d) \in RevList(next[d])

DeletePKI(c) ==
  \E next \in [Childs(c) -> UNION {NextIssuers(c, d) : d \in Childs(c)}] :
  \E late \in SUBSET Twins(c, next) :
    /\ \A d \in Childs(c) : next[d] \in NextIssuers(c, d)
    /\ Relinked(c, next)
    /\ revocations' = [s \in Cert |-> IF s = c THEN {} ELSE MergeRevList(s, GivenTo(c, next, s))]
    /\ revoked' = [d \in Cert |-> /\ d # c
                                  /\ \/ revoked[d]
                                     \/ d \in Childs(c) /\ TakesFrom(c, next, late, d)]

Delete(c) ==
  /\ Idle
  /\ c \in certs
  /\ DeletePKI(c)
  /\ UNCHANGED renewal

------------------------------------------------------------------------------
(* Revocation.                                                             *)

\* The context menu offers Revoke and Unrevoke for a selection S only.
SameSigner(S, s) == S # {} /\ \A c \in S : c # s /\ signer[c] = s

DoRevoke(S, s) ==
  /\ revoked' = [c \in Cert |-> c \in S \/ revoked[c]]
  /\ revocations' = [revocations EXCEPT ![s] = MergeRevList(s, {SerialOf(c) : c \in S})]
  /\ UNCHANGED <<certs, issuer, crls, crlsIssuer, signer, parent, crlIssuer>>

Revoke(S) ==
  /\ Idle
  /\ \E s \in certs : /\ SameSigner(S, s)
                      /\ CanSign(s)
                      /\ \A c \in S : ~revoked[c]
                      /\ DoRevoke(S, s)
  /\ UNCHANGED renewal

\* setRevocations(): the list replaces that of the CA and every child is
\* marked or unmarked by it.
SetRevocations(s, L) ==
  /\ revocations' = [revocations EXCEPT ![s] = L]
  /\ revoked' = [c \in Cert |-> IF c \in certs /\ parent[c] = s THEN SerialOf(c) \in L
                                ELSE revoked[c]]
  /\ UNCHANGED <<certs, issuer, crls, crlsIssuer, signer, parent, crlIssuer>>

UnRevoke(S) ==
  /\ Idle
  /\ \E s \in certs : /\ SameSigner(S, s)
                      /\ CanSign(s)
                      /\ \A c \in S : revoked[c]
                      /\ SetRevocations(s, RevList(s) \ {SerialOf(c) : c \in S})
  /\ UNCHANGED renewal

\* The Manage revocations dialog, closed with OK after serial n was added or
\* removed.
ManageRevocations(s, n) ==
  /\ Idle
  /\ s \in certs
  /\ CanSign(s)
  /\ \/ SetRevocations(s, RevList(s) \cup {n})
     \/ SetRevocations(s, RevList(s) \ {n})
  /\ UNCHANGED renewal

------------------------------------------------------------------------------
(* certRenewal(): the copy is inserted, then the old certificate is        *)
(* revoked, then it is deleted, each in a transaction of its own with a    *)
(* message box in between.                                                 *)

\* A renewed certificate is a copy with new dates and maybe a new serial,
\* signed by the signer of the old one.
IsRenewalOf(new, old, s) ==
  CertData[new] = [CertData[old] EXCEPT !.serial = SerialOf(new),
                                        !.notAfter = NotAfter(new),
                                        !.signKey = CertData[s].key]

\* getUniqueSerial()
UniqueSerial(n, s) ==
  /\ n # SerialOf(s)
  /\ n \notin RevList(s)
  /\ \A d \in certs : parent[d] = s => SerialOf(d) # n

\* The copy constructor takes issuerSqlId along, so findIssuer() returns the
\* signer of the old certificate without verify() and without looking for a
\* revocation.  CertExtend unchecks Revoke and checks Replace when the serial
\* is kept, and Revoke is disabled for a self signed certificate.
RenewInsert(old, new, revoke, replace) ==
  LET s == signer[old]
  IN  /\ Idle
      /\ old \in certs /\ new \notin certs
      /\ s # NoCert
      /\ CanSign(s)
      /\ IsRenewalOf(new, old, s)
      /\ \/ UniqueSerial(SerialOf(new), s)
         \/ SerialOf(new) = SerialOf(old) /\ ~revoke /\ replace
      /\ s = old => ~revoke
      /\ InsertPKI(new, s, FALSE)
      /\ renewal' = [old |-> old, revoke |-> revoke, replace |-> replace]

RenewRevoke ==
  /\ ~Idle
  /\ renewal.revoke
  /\ signer[renewal.old] # NoCert
  /\ DoRevoke({renewal.old}, signer[renewal.old])
  /\ renewal' = [renewal EXCEPT !.revoke = FALSE]

RenewReplace ==
  /\ ~Idle
  /\ ~renewal.revoke
  /\ renewal.replace
  /\ DeletePKI(renewal.old)
  /\ NoRenewal

RenewDone ==
  /\ ~Idle
  /\ ~renewal.revoke
  /\ ~renewal.replace
  /\ NoRenewal
  /\ UNCHANGED <<dbVars, memVars>>

------------------------------------------------------------------------------
(* Revocation lists.                                                       *)

\* pki_crl::insertSqlData() and db_crl::inToCont() look for the issuer.
CrlIssuers(k) ==
  LET candidates == {s \in certs : IsCA(s) /\ CrlVerifies(k, s)}
  IN  IF candidates = {} THEN {NoCert} ELSE Latest(candidates)

InsertCrl_NoUpdate(k, s) ==
  /\ crls' = crls \cup {k}
  /\ crlIssuer' = [crlIssuer EXCEPT ![k] = s]
  /\ UNCHANGED crlsIssuer

InsertCrl(k, s) ==
  /\ crls' = crls \cup {k}
  /\ crlIssuer'  = [crlIssuer EXCEPT ![k] = s]
  /\ crlsIssuer' = [crlsIssuer EXCEPT ![k] = s]

\* revokeCerts(): of several children with a listed serial getBySerial()
\* finds the first, and only that one is marked.
MarkedBy_None(k, s) == {{}}

MarkedBy(k, s) ==
  LET listed == {d \in certs : parent[d] = s /\ SerialOf(d) \in CrlData[k].serials}
  IN  {M \in SUBSET listed :
         \A d \in listed : \E m \in M : /\ SerialOf(m) = SerialOf(d)
                                        /\ \A n \in M : SerialOf(n) = SerialOf(d) => n = m}

ImportCrl(k) ==
  /\ Idle
  /\ k \notin crls
  /\ \E s \in CrlIssuers(k) :
       /\ InsertCrl(k, s)
       /\ IF s = NoCert
          THEN UNCHANGED <<revocations, revoked>>
          ELSE /\ revocations' =
                    [revocations EXCEPT ![s] = MergeRevList(s, CrlData[k].serials)]
               /\ \E M \in MarkedBy(k, s) : revoked' = [c \in Cert |-> c \in M \/ revoked[c]]
  /\ UNCHANGED <<certs, issuer, signer, parent, renewal>>

\* newCrl() lists what is in the database at that time.
GenerateCrl(s, k) ==
  /\ Idle
  /\ s \in certs /\ CanSign(s)
  /\ k \notin crls /\ CrlVerifies(k, s) /\ CrlData[k].serials = RevList(s)
  /\ \E i \in CrlIssuers(k) : InsertCrl(k, i)
  /\ UNCHANGED <<certs, issuer, revocations, signer, parent, revoked, renewal>>

DeleteCrl(k) ==
  /\ Idle
  /\ k \in crls
  /\ crls' = crls \ {k}
  /\ crlIssuer'  = [crlIssuer EXCEPT ![k] = NoCert]
  /\ crlsIssuer' = [crlsIssuer EXCEPT ![k] = NoCert]
  /\ UNCHANGED <<certs, issuer, revocations, signer, parent, revoked, renewal>>

------------------------------------------------------------------------------
\* The database is closed and opened again, at any time if the process dies:
\* loadContainer() builds the objects from the rows.
Reload ==
  /\ signer' = issuer
  /\ parent' = [c \in Cert |-> TreeParent(c, issuer[c])]
  /\ revoked' = [c \in Cert |-> issuer[c] # NoCert /\ SerialOf(c) \in revocations[issuer[c]]]
  /\ crlIssuer' = crlsIssuer
  /\ NoRenewal
  /\ UNCHANGED dbVars

Init ==
  /\ certs = {}
  /\ issuer = [c \in Cert |-> NoCert]
  /\ revocations = [c \in Cert |-> {}]
  /\ crls = {}
  /\ crlsIssuer = [k \in Crl |-> NoCert]
  /\ signer = [c \in Cert |-> NoCert]
  /\ parent = [c \in Cert |-> NoCert]
  /\ revoked = [c \in Cert |-> FALSE]
  /\ crlIssuer = [k \in Crl |-> NoCert]
  /\ renewal = NoCert

Renewal ==
  \/ \E old, new \in Cert, revoke, replace \in BOOLEAN : RenewInsert(old, new, revoke, replace)
  \/ RenewRevoke
  \/ RenewReplace
  \/ RenewDone

Next ==
  \/ \E c \in Cert : Insert(c)
  \/ \E c \in Cert : Delete(c)
  \/ \E S \in SUBSET certs : Revoke(S)
  \/ \E S \in SUBSET certs : UnRevoke(S)
  \/ \E s \in certs, n \in TypedSerial : ManageRevocations(s, n)
  \/ Renewal
  \/ \E k \in Crl : ImportCrl(k)
  \/ \E s \in certs, k \in Crl : GenerateCrl(s, k)
  \/ \E k \in Crl : DeleteCrl(k)
  \/ Reload

Spec == Init /\ [][Next]_vars

------------------------------------------------------------------------------
(* Properties.                                                             *)

TypeOK ==
  /\ certs \in SUBSET Cert
  /\ issuer \in [Cert -> certs \cup {NoCert}]
  /\ revocations \in [Cert -> SUBSET Serial]
  /\ crls \in SUBSET Crl
  /\ crlsIssuer \in [Crl -> certs \cup {NoCert}]
  /\ signer \in [Cert -> certs \cup {NoCert}]
  /\ parent \in [Cert -> certs \cup {NoCert}]
  /\ revoked \in [Cert -> BOOLEAN]
  /\ crlIssuer \in [Crl -> certs \cup {NoCert}]
  /\ renewal \in [old : certs, revoke : BOOLEAN, replace : BOOLEAN] \cup {NoCert}

\* The tree the user sees is the tree a reload would build: relinking in
\* inToCont() and remFromCont() keeps memory and table certs in step.
TreeMatchesDb == \A c \in certs : parent[c] = TreeParent(c, issuer[c])

\* A signer kept in memory is the one in the database.
SignerMatchesDb == \A c \in certs : signer[c] \in {NoCert, issuer[c]}

\* Nothing is filed below a certificate that could not have issued it.
IssuerVerifies == \A c \in certs : issuer[c] # NoCert => VerifyOnly(c, issuer[c])

\* A revocation list is filed under a certificate with its name and key.
CrlIssuerVerifies ==
  \A k \in crls : /\ crlIssuer[k] = crlsIssuer[k]
                  /\ crlIssuer[k] # NoCert => CrlVerifies(k, crlIssuer[k])

\* A self signed certificate never loses itself as signer, else another CA
\* could adopt it.
SelfSignedKnown == \A c \in certs : issuer[c] = c => signer[c] = c

\* What is not in the database is nobody's child and has no place.
AbsentUnlinked ==
  \A c \in Cert \ certs : issuer[c] = NoCert /\ signer[c] = NoCert /\ parent[c] = NoCert

\* The inductive invariant: the two copies of the tree describe the same
\* forest whatever documents there are.
Consistent ==
  /\ TypeOK
  /\ TreeMatchesDb
  /\ SignerMatchesDb
  /\ IssuerVerifies
  /\ CrlIssuerVerifies
  /\ SelfSignedKnown
  /\ AbsentUnlinked

\* A certificate with an issuer in the database knows it in memory: else it
\* can neither be revoked nor renewed until the next start.
SignerKnown == \A c \in certs : signer[c] = issuer[c]

\* A certificate is without issuer only while no CA that could have issued
\* it is in the database (doc/rst/certificates.rst:65-67).
NoNeedlessOrphan ==
  \A c \in certs : issuer[c] = NoCert => ~\E s \in certs : IsCA(s) /\ VerifyOnly(c, s)

\* Of CAs with the same name and key the one that expires last is the anchor
\* (doc/rst/certificates.rst:27-32).  Self signed certificates are their own
\* anchor, but a root renewed with an earlier expiry date goes below the one it
\* was copied from although a root that expires still later may be stored.
LatestAnchor ==
  \A c, s \in certs :
    /\ issuer[c] # NoCert /\ ~VerifyOnly(c, c)
    /\ IsCA(s) /\ CompareNameAndKey(s, issuer[c]) /\ VerifyOnly(c, s)
    => NotAfter(s) <= NotAfter(issuer[c])

\* Every walk along getSigner() comes to an end.
ChainsEnd == \A c \in certs : Ends(signer, c)

\* A certificate is shown as revoked if and only if its serial is on the list
\* of its CA, from which the next revocation list is made.
RevokedIffListed ==
  \A c \in certs : signer[c] \notin {NoCert, c} =>
    (revoked[c] <=> SerialOf(c) \in RevList(signer[c]))

\* Documents as a PKI without cross certification in both directions issues
\* them.  Who could have issued a certificate that is not self signed is above
\* it, where the certificates of one CA, those with the same name and key, are on
\* the same level ...
Hierarchy ==
  \E level \in [Cert -> 1..Cardinality(Cert)] :
    \A c, s \in Cert :
      /\ CompareNameAndKey(c, s) => level[c] = level[s]
      /\ VerifyOnly(c, s) /\ ~VerifyOnly(c, c) => level[s] < level[c]

\* ... and a CA; what one certificate of a CA could have issued the others could
\* have issued, too ...
CAsInterchangeable ==
  \A o, c \in Cert :
    /\ VerifyOnly(c, o) /\ ~VerifyOnly(c, c) => IsCA(o)
    /\ CompareNameAndKey(o, c) =>
         /\ IsCA(o) => IsCA(c)
         /\ \A d \in Cert : VerifyOnly(d, o) => VerifyOnly(d, c)

\* ... and no issuer gives a serial twice.
SerialsUnique ==
  \A c, d \in Cert :
    c # d /\ CertData[c].issuer = CertData[d].issuer => SerialOf(c) # SerialOf(d)

Conventional == Hierarchy /\ CAsInterchangeable /\ SerialsUnique

\* A self signed certificate is its own issuer, or the renewal of one of the
\* same CA that expires later.
SelfSignedAnchored ==
  \A c \in certs :
    VerifyOnly(c, c) /\ issuer[c] # c =>
      /\ issuer[c] \in certs /\ IsCA(issuer[c])
      /\ CompareNameAndKey(issuer[c], c)
      /\ NotAfter(c) < NotAfter(issuer[c])

\* With such documents every certificate is where it belongs, in memory and in
\* the database, and marked by the list of its CA.
Placed == SignerKnown /\ SelfSignedAnchored /\ NoNeedlessOrphan /\ LatestAnchor
Orderly == Placed /\ RevokedIffListed

\* A revoked certificate stays revoked through import, renewal and deletion
\* of certificates and revocation lists, its own CA's included: only taking
\* its serial off the list of its CA ends that.  Without a CA the revocation
\* is in memory only and is gone after a reload.
RevocationSticks ==
  [][\A c \in certs \cap certs' :
       revoked[c] /\ ~revoked'[c] /\ signer[c] # c =>
         /\ certs' = certs
         /\ \/ signer[c] = NoCert /\ issuer[c] = NoCert
            \/ SerialOf(c) \in RevList(signer[c]) \ RevList(signer[c])']_vars

\* inToCont() takes a certificate from an issuer that stays in the database
\* only for a new certificate of the same CA that does not expire earlier.
AnchorOnlyMovesUp ==
  [][\A c \in certs \cap certs' :
       issuer'[c] # issuer[c] /\ issuer[c] \in certs' =>
         /\ issuer'[c] \in certs' \ certs
         /\ CompareNameAndKey(issuer'[c], issuer[c])
         /\ NotAfter(issuer[c]) <= NotAfter(issuer'[c])]_vars

\* recursiveSigning() keeps inToCont() from closing a cycle of signers, cross
\* certified CAs included (db_x509.cpp:148-162).
ImportKeepsChains == [][certs' \ certs # {} /\ ChainsEnd => ChainsEnd']_vars

==============================================================================

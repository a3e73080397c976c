----------------------- MODULE CertStore_orderly_proofs -----------------------
(***************************************************************************)
(* Proofs about CertStore for documents as a PKI issues them               *)
(* (Conventional): every certificate has the issuer it should have, knows  *)
(* it in memory, and is shown as revoked if and only if its CA lists it.   *)
(***************************************************************************)
EXTENDS CertStore_proofs

\* Expiry dates are comparable.
LEMMA NotAfterType == \A c \in Cert : NotAfter(c) \in Nat
  BY CertAssumption DEF NotAfter, CertRecord

\* compareNameAndKey() is an equivalence relation.
LEMMA SameCA ==
  /\ \A a, b : CompareNameAndKey(a, b) => CompareNameAndKey(b, a)
  /\ \A a, b, c : CompareNameAndKey(a, b) /\ CompareNameAndKey(b, c) => CompareNameAndKey(a, c)
  BY DEF CompareNameAndKey

\* findIssuer() returns the certificate itself if it is self signed, else the
\* latest CA that could have issued it, and nothing only if there is none.
LEMMA FindIssuerLatest ==
  ASSUME NEW c \in Cert, NEW S \in SUBSET Cert, NEW s \in FindIssuer(c, S)
  PROVE  /\ VerifyOnly(c, c) => s = c
         /\ ~VerifyOnly(c, c) => s \in S \cup {NoCert}
         /\ ~VerifyOnly(c, c) /\ s # NoCert =>
              \A t \in S : IsCA(t) /\ VerifyOnly(c, t) => NotAfter(t) <= NotAfter(s)
         /\ s = NoCert => \A t \in S : ~(IsCA(t) /\ VerifyOnly(c, t))
  BY CertAssumption DEF FindIssuer, Latest

\* getRevList() after a step.
NextRevList(o) == IF IsCA(o) THEN revocations'[o] ELSE {}

\* Of two certificates below the same issuer the serials differ.
LEMMA SiblingsDiffer ==
  ASSUME SerialsUnique, NEW c \in Cert, NEW d \in Cert, NEW o,
         VerifyOnly(c, o), VerifyOnly(d, o), SerialOf(c) = SerialOf(d)
  PROVE  c = d
  BY DEF SerialsUnique, VerifyOnly, CheckIssued

------------------------------------------------------------------------------
(* The hierarchy of the CAs.                                               *)

\* The levels of the hierarchy.
Levels(level) ==
  /\ level \in [Cert -> Nat]
  /\ \A c, s \in Cert :
       /\ CompareNameAndKey(c, s) => level[c] = level[s]
       /\ VerifyOnly(c, s) /\ ~VerifyOnly(c, c) => level[s] < level[c]

\* There are levels.
LEMMA LevelsExist == ASSUME Hierarchy PROVE \E level : Levels(level)
<1>1. PICK level \in [Cert -> 1..Cardinality(Cert)] :
        \A c, s \in Cert :
          /\ CompareNameAndKey(c, s) => level[c] = level[s]
          /\ VerifyOnly(c, s) /\ ~VerifyOnly(c, c) => level[s] < level[c]
  BY DEF Hierarchy
<1>2. level \in [Cert -> Nat]
  BY <1>1
<1> QED
  BY <1>1, <1>2 DEF Levels

\* The issuer of a certificate is a CA.
LEMMA IssuerIsCA ==
  ASSUME CAsInterchangeable, StoreOK, SelfSignedAnchored,
         NEW c \in certs, issuer[c] \notin {NoCert, c}
  PROVE  issuer[c] \in certs /\ IsCA(issuer[c]) /\ VerifyOnly(c, issuer[c])
<1>1. c \in Cert /\ issuer[c] \in certs /\ issuer[c] \in Cert /\ VerifyOnly(c, issuer[c])
  BY DEF StoreOK, IssuerVerifies
<1> QED
  BY <1>1 DEF CAsInterchangeable, SelfSignedAnchored

\* What a new certificate c and its signer s have to do with each other, found
\* by findIssuer() or taken from the certificate that is renewed.
SignerOf(c, s) ==
  /\ s \in certs \cup {c, NoCert}
  /\ s # NoCert => VerifyOnly(c, s)
  /\ VerifyOnly(c, c) /\ s # c => s \in certs /\ IsCA(s) /\ CompareNameAndKey(s, c)
  /\ s = NoCert => \A t \in certs : ~(IsCA(t) /\ VerifyOnly(c, t))
  /\ s # NoCert /\ ~VerifyOnly(c, c) =>
       \A t \in certs :
         IsCA(t) /\ CompareNameAndKey(t, s) /\ VerifyOnly(c, t) => NotAfter(t) <= NotAfter(s)

\* The certificates above c, c included: those of a higher CA and those of the
\* same CA that expire later.
Above(level, c) ==
  {x \in Cert : \/ x = c
                \/ level[x] < level[c]
                \/ CompareNameAndKey(x, c) /\ NotAfter(c) < NotAfter(x)}

\* The walk from c along getSigner() goes up.
LEMMA SignerAbove ==
  ASSUME StoreOK, SelfSignedAnchored, NEW level, Levels(level),
         NEW c \in Cert, c \notin certs, NEW s, SignerOf(c, s), s \notin Superseded(c),
         NEW x \in Above(level, c), DetachedSigner(c, s)[x] # NoCert
  PROVE  DetachedSigner(c, s)[x] \in Above(level, c)
<1> DEFINE y == DetachedSigner(c, s)[x]
<1>0. x \in Cert /\ y = IF x = c THEN s ELSE signer[x]
  BY DetachedSignerType DEF Above, StoreOK
<1> HIDE DEF y
<1>1. CASE x = c
  <2>1. CASE s = c
    BY <1>0, <1>1, <2>1 DEF y, Above
  <2>2. CASE s # c
    <3>1. s \in certs /\ s \in Cert /\ VerifyOnly(c, s)
      BY <1>0, <1>1, <2>2 DEF y, SignerOf, StoreOK
    <3>2. CASE VerifyOnly(c, c)
      <4>1. IsCA(s) /\ CompareNameAndKey(s, c)
        BY <2>2, <3>2 DEF SignerOf
      <4>2. NotAfter(c) < NotAfter(s)
        BY <3>1, <4>1, NotAfterType DEF Superseded
      <4> QED
        BY <1>0, <1>1, <3>1, <4>1, <4>2 DEF y, Above
    <3>3. CASE ~VerifyOnly(c, c)
      <4>1. level[s] < level[c]
        BY <3>1, <3>3 DEF Levels
      <4> QED
        BY <1>0, <1>1, <3>1, <4>1 DEF y, Above
    <3> QED
      BY <3>2, <3>3
  <2> QED
    BY <2>1, <2>2
<1>2. CASE x # c
  <2>1. x \in certs /\ y \in certs /\ y \in Cert /\ y = issuer[x] /\ VerifyOnly(x, y)
    BY <1>0, <1>2 DEF y, StoreOK, AbsentUnlinked, SignerMatchesDb, IssuerVerifies
  <2>2. \/ level[x] < level[c]
        \/ CompareNameAndKey(x, c) /\ NotAfter(c) < NotAfter(x) /\ level[x] = level[c]
    BY <1>2, <1>0 DEF Above, Levels
  <2>3. level[x] \in Nat /\ level[y] \in Nat /\ level[c] \in Nat
    BY <1>0, <2>1 DEF Levels
  <2>4. CASE ~VerifyOnly(x, x)
    <3>1. level[y] < level[x]
      BY <1>0, <2>1, <2>4 DEF Levels
    <3>2. level[y] < level[c]
      BY <2>2, <2>3, <3>1
    <3> QED
      BY <2>1, <3>2 DEF y, Above
  <2>5. CASE VerifyOnly(x, x) /\ y # x
    <3>1. CompareNameAndKey(y, x) /\ NotAfter(x) < NotAfter(y)
      BY <2>1, <2>5 DEF SelfSignedAnchored
    <3>2. level[y] = level[x]
      BY <1>0, <2>1, <3>1 DEF Levels
    <3>3. CASE level[x] < level[c]
      BY <2>1, <3>2, <3>3 DEF y, Above
    <3>4. CASE CompareNameAndKey(x, c) /\ NotAfter(c) < NotAfter(x)
      <4>1. CompareNameAndKey(y, c)
        BY <3>1, <3>4 DEF CompareNameAndKey
      <4>2. NotAfter(c) < NotAfter(y)
        BY <1>0, <2>1, <3>1, <3>4, NotAfterType
      <4> QED
        BY <2>1, <4>1, <4>2 DEF y, Above
    <3> QED
      BY <2>2, <3>3, <3>4
  <2>6. CASE y = x
    BY <2>6 DEF y
  <2> QED
    BY <2>4, <2>5, <2>6
<1> QED
  BY <1>1, <1>2

\* What inToCont() collects is below c, without signer, and c could have issued it.
LEMMA CollectedBelow ==
  ASSUME CAsInterchangeable, StoreOK, SignerKnown, SelfSignedAnchored,
         NEW level, Levels(level),
         NEW c \in Cert, c \notin certs, NEW s,
         NEW d \in Collected(c, s), d # c
  PROVE  /\ d \in certs
         /\ VerifyOnly(d, c)
         /\ d \notin Above(level, c)
         /\ DetachedSigner(c, s)[d] = NoCert
         /\ \/ issuer[d] = NoCert /\ ~VerifyOnly(d, d)
            \/ issuer[d] \in Superseded(c)
<1>0. d \in certs /\ d \in Cert /\ level[d] \in Nat /\ level[c] \in Nat
  BY DEF Collected, Detached, StoreOK, Levels
<1>1. CASE d \in Detached(c, s)
  <2> DEFINE o == parent[d]
  <2>1. o \in Superseded(c)
    BY <1>0, <1>1 DEF Detached, StoreOK
  <2>2. /\ o \in certs /\ o \in Cert /\ IsCA(o) /\ CompareNameAndKey(o, c)
        /\ NotAfter(o) <= NotAfter(c)
    BY <2>1 DEF Superseded, StoreOK
  <2>3. issuer[d] = o /\ signer[d] = o /\ o # d
    BY <1>0, <2>2, CertAssumption DEF StoreOK, TreeMatchesDb, TreeParent, SignerKnown
  <2>4. VerifyOnly(d, o)
    BY <1>0, <2>2, <2>3, CertAssumption DEF StoreOK, IssuerVerifies
  <2>5. VerifyOnly(d, c)
    BY <1>0, <2>2, <2>4 DEF CAsInterchangeable
  <2>6. DetachedSigner(c, s)[d] = NoCert
    BY <1>0, <1>1, <2>3 DEF DetachedSigner
  <2>7. d \notin Above(level, c)
    <3>1. level[o] = level[c]
      BY <2>2 DEF Levels
    <3>2. CASE ~VerifyOnly(d, d)
      <4>1. level[c] < level[d]
        BY <1>0, <2>2, <2>4, <3>1, <3>2 DEF Levels
      <4> QED
        BY <1>0, <4>1 DEF Above, Levels
    <3>3. CASE VerifyOnly(d, d)
      <4>1. CompareNameAndKey(o, d) /\ NotAfter(d) < NotAfter(o)
        BY <1>0, <2>3, <3>3 DEF SelfSignedAnchored
      <4>2. level[d] = level[c]
        BY <1>0, <2>2, <3>1, <4>1 DEF Levels
      <4>3. ~(NotAfter(c) < NotAfter(d))
        BY <1>0, <2>2, <4>1, NotAfterType
      <4> QED
        BY <1>0, <4>2, <4>3 DEF Above
    <3> QED
      BY <3>2, <3>3
  <2> QED
    BY <1>0, <2>1, <2>3, <2>5, <2>6, <2>7
<1>2. CASE d \notin Detached(c, s)
  <2>1. parent[d] = NoCert /\ signer[d] # d /\ VerifyOnly(d, c)
    BY <1>2 DEF Collected
  <2>2. issuer[d] = NoCert /\ signer[d] = NoCert
    BY <1>0, <2>1 DEF StoreOK, TreeMatchesDb, TreeParent, SignerKnown
  <2>3. ~VerifyOnly(d, d)
    BY <1>0, <2>2, CertAssumption DEF StoreOK, SelfSignedAnchored
  <2>4. level[c] < level[d]
    BY <1>0, <2>1, <2>3 DEF Levels
  <2>5. d \notin Above(level, c)
    BY <1>0, <2>4 DEF Above, Levels
  <2>6. DetachedSigner(c, s)[d] = NoCert
    BY <1>0, <1>2, <2>2 DEF DetachedSigner
  <2> QED
    BY <1>0, <2>1, <2>2, <2>3, <2>5, <2>6
<1> QED
  BY <1>1, <1>2

\* So inToCont() never refuses what it has collected: recursiveSigning() does
\* not fire.  The new certificate is among it if it supersedes its signer.
LEMMA AllAdopted ==
  ASSUME Hierarchy, CAsInterchangeable, StoreOK, SignerKnown, SelfSignedAnchored,
         NEW c \in Cert, c \notin certs, NEW s, SignerOf(c, s)
  PROVE  /\ Adopted(c, s) = Collected(c, s)
         /\ c \in Collected(c, s) <=> s \in Superseded(c)
         /\ c \in Collected(c, s) => VerifyOnly(c, c)
<1>0. /\ certs \subseteq Cert /\ NoCert \notin certs
      /\ parent \in [Cert -> certs \cup {NoCert}]
      /\ signer \in [Cert -> certs \cup {NoCert}]
  BY CertAssumption DEF StoreOK
<1>1. PICK level : Levels(level)
  BY LevelsExist
<1> DEFINE sig == DetachedSigner(c, s)
<1>2. c \in Collected(c, s) <=> s \in Superseded(c)
  BY <1>0 DEF Collected, Detached, Superseded, TreeParent
<1>3. c \in Collected(c, s) => VerifyOnly(c, c)
  <2> SUFFICES ASSUME s \in Superseded(c) PROVE VerifyOnly(c, c)
    BY <1>2
  <2>1. s \in Cert /\ s # NoCert /\ CompareNameAndKey(s, c)
    BY <1>0 DEF Superseded
  <2> QED
    BY <2>1 DEF SignerOf, CAsInterchangeable
<1>4. CASE s \in Superseded(c)
  <2>1. s # c /\ c \in Detached(c, s)
    BY <1>0, <1>4 DEF Detached, Superseded, TreeParent
  <2>2. sig[c] = NoCert
    BY <1>0, <2>1 DEF DetachedSigner, TreeParent
  <2>3. \A d : ~RecursiveSigning(sig, c, d)
    BY <2>2 DEF RecursiveSigning
  <2>4. \A d \in Collected(c, s) : sig[d] = NoCert /\ VerifyOnly(d, c)
    BY <1>1, <1>3, <2>2, CollectedBelow
  <2> HIDE DEF sig
  <2> QED
    BY <1>2, <1>3, <2>3, <2>4 DEF Adopted, sig
<1>5. CASE s \notin Superseded(c)
  <2>1. ASSUME NEW d \in Collected(c, s)
        PROVE  sig[d] = NoCert /\ VerifyOnly(d, c) /\ d \notin Above(level, c)
    BY <1>1, <1>2, <1>5, <2>1, CollectedBelow
  <2>2. sig[c] # NoCert => Chain(sig, sig[c]) \subseteq Above(level, c)
    <3> SUFFICES ASSUME sig[c] # NoCert PROVE Chain(sig, sig[c]) \subseteq Above(level, c)
      OBVIOUS
    <3>1. c \in Above(level, c) /\ Above(level, c) \in SUBSET Cert
      BY DEF Above
    <3>2. \A x \in Above(level, c) : sig[x] \in Above(level, c) \cup {NoCert}
      BY <1>1, <1>5, SignerAbove
    <3> HIDE DEF sig
    <3> QED
      BY <3>1, <3>2, ChainWithin
  <2> HIDE DEF sig
  <2>3. \A d \in Collected(c, s) : ~RecursiveSigning(sig, c, d)
    BY <2>1, <2>2 DEF RecursiveSigning
  <2> QED
    BY <1>2, <1>3, <2>1, <2>3 DEF Adopted, sig
<1> QED
  BY <1>2, <1>3, <1>4, <1>5

------------------------------------------------------------------------------
(* insertPKI() of a certificate.                                           *)

\* What insertPKI() of c with signer s does to the links, A being the
\* certificates given to c.
Relinks(c, s, A) ==
  /\ certs' = certs \cup {c}
  /\ A \subseteq certs \cup {c}
  /\ \A d \in certs :
       IF d \in A
       THEN /\ issuer'[d] = c /\ signer'[d] = c /\ VerifyOnly(d, c)
            /\ \/ issuer[d] = NoCert /\ ~VerifyOnly(d, d)
               \/ issuer[d] \in Superseded(c) \ {d}
       ELSE /\ issuer'[d] = issuer[d] /\ signer'[d] = signer[d]
            /\ issuer[d] = NoCert => ~VerifyOnly(d, c)
            /\ issuer[d] \in Superseded(c) => issuer[d] = d
  /\ IF c \in A
     THEN issuer'[c] = c /\ signer'[c] = c /\ VerifyOnly(c, c)
     ELSE issuer'[c] = s /\ signer'[c] = s /\ s \notin Superseded(c)

\* insertPKI() relinks what c supersedes and the orphans c could have issued.
LEMMA InsertRelinks ==
  ASSUME Hierarchy, CAsInterchangeable, StoreOK, SignerKnown, SelfSignedAnchored,
         NEW c \in Cert, c \notin certs, NEW s, SignerOf(c, s),
         NEW rev, InsertPKI(c, s, rev)
  PROVE  Relinks(c, s, Adopted(c, s))
<1> DEFINE A == Adopted(c, s)
           sig == DetachedSigner(c, s)
<1>0. /\ certs \subseteq Cert /\ NoCert \notin certs
      /\ parent \in [Cert -> certs \cup {NoCert}]
      /\ signer \in [Cert -> certs \cup {NoCert}]
  BY CertAssumption DEF StoreOK
<1>1. PICK level : Levels(level)
  BY LevelsExist
<1>2. /\ certs' = certs \cup {c}
      /\ \A d \in Cert : issuer'[d] = IF d \in A THEN c ELSE IF d = c THEN s ELSE issuer[d]
      /\ \A d \in Cert : signer'[d] = IF d \in A THEN c ELSE sig[d]
  BY DEF InsertPKI, IssuerAfter
<1>3. A = Collected(c, s) /\ A \subseteq certs \cup {c}
  BY AllAdopted DEF Collected, Detached
<1>4. ASSUME NEW d \in certs, d \in A
      PROVE  /\ issuer'[d] = c /\ signer'[d] = c /\ VerifyOnly(d, c)
             /\ \/ issuer[d] = NoCert /\ ~VerifyOnly(d, d)
                \/ issuer[d] \in Superseded(c) \ {d}
  <2>1. d \in Cert /\ d # c /\ d \in Collected(c, s)
    BY <1>0, <1>3, <1>4
  <2>2. issuer'[d] = c /\ signer'[d] = c
    BY <1>2, <1>4, <2>1
  <2>3. /\ VerifyOnly(d, c)
        /\ \/ issuer[d] = NoCert /\ ~VerifyOnly(d, d)
           \/ issuer[d] \in Superseded(c)
    BY <1>1, <2>1, CollectedBelow
  <2>4. issuer[d] # d
    <3>1. CASE issuer[d] = d
      <4>1. signer[d] = d /\ parent[d] = NoCert
        BY <1>4, <3>1 DEF StoreOK, SelfSignedKnown, TreeMatchesDb, TreeParent
      <4> QED
        BY <1>0, <2>1, <4>1 DEF Collected, Detached, Superseded
    <3> QED
      BY <3>1
  <2> QED
    BY <2>2, <2>3, <2>4
<1>5. ASSUME NEW d \in certs, d \notin A
      PROVE  /\ issuer'[d] = issuer[d] /\ signer'[d] = signer[d]
             /\ issuer[d] = NoCert => ~VerifyOnly(d, c)
             /\ issuer[d] \in Superseded(c) => issuer[d] = d
  <2>1. d \in Cert /\ d # c /\ d \notin Collected(c, s)
    BY <1>0, <1>3, <1>5
  <2>2. issuer'[d] = issuer[d] /\ signer'[d] = sig[d]
    BY <1>2, <1>5, <2>1
  <2>3. d \notin Detached(c, s)
    BY <2>1 DEF Collected
  <2>4. sig[d] = signer[d]
    BY <1>0, <2>1, <2>3 DEF DetachedSigner
  <2>5. parent[d] = TreeParent(d, issuer[d]) /\ signer[d] = issuer[d]
    BY DEF StoreOK, TreeMatchesDb, SignerKnown
  <2>6. issuer[d] = NoCert => ~VerifyOnly(d, c)
    BY <1>0, <2>1, <2>5 DEF Collected, TreeParent
  <2>7. issuer[d] \in Superseded(c) => issuer[d] = d
    BY <1>0, <2>1, <2>3, <2>5 DEF Detached, TreeParent
  <2> QED
    BY <2>2, <2>4, <2>6, <2>7
<1>6. IF c \in A
      THEN issuer'[c] = c /\ signer'[c] = c /\ VerifyOnly(c, c)
      ELSE issuer'[c] = s /\ signer'[c] = s /\ s \notin Superseded(c)
  <2>1. CASE c \in A
    BY <1>2, <1>3, <2>1, AllAdopted
  <2>2. CASE c \notin A
    <3>1. s \notin Superseded(c) /\ c \notin Detached(c, s)
      BY <1>3, <2>2, AllAdopted DEF Collected
    <3>2. sig[c] = s
      BY <1>0, <3>1 DEF DetachedSigner
    <3> QED
      BY <1>2, <2>2, <3>1, <3>2
  <2> QED
    BY <2>1, <2>2
<1> QED
  BY <1>2, <1>3, <1>4, <1>5, <1>6 DEF Relinks

\* insertPKI() puts c and what is given to it where they belong.
LEMMA InsertPlaced ==
  ASSUME CAsInterchangeable, StoreOK, Placed,
         NEW c \in Cert, c \notin certs, NEW s, SignerOf(c, s),
         NEW A, Relinks(c, s, A)
  PROVE  Placed'
<1>0. /\ certs \subseteq Cert /\ NoCert \notin Cert /\ certs' = certs \cup {c}
      /\ \A d \in certs : issuer[d] \in certs \cup {NoCert}
  BY CertAssumption DEF StoreOK, Relinks
<1>1. ASSUME NEW o \in Superseded(c)
      PROVE  /\ o \in certs /\ IsCA(o) /\ IsCA(c)
             /\ CompareNameAndKey(o, c) /\ NotAfter(o) <= NotAfter(c)
  BY <1>0 DEF Superseded, CAsInterchangeable
<1>2. SignerKnown'
  BY <1>0 DEF Placed, SignerKnown, Relinks
<1>3. SelfSignedAnchored'
  <2> SUFFICES ASSUME NEW d \in certs', VerifyOnly(d, d), issuer'[d] # d
               PROVE  /\ issuer'[d] \in certs' /\ IsCA(issuer'[d])
                      /\ CompareNameAndKey(issuer'[d], d)
                      /\ NotAfter(d) < NotAfter(issuer'[d])
    BY DEF SelfSignedAnchored
  <2>1. CASE d = c
    <3>1. issuer'[c] = s /\ s \notin Superseded(c)
      BY <2>1 DEF Relinks
    <3>2. s \in certs /\ IsCA(s) /\ CompareNameAndKey(s, c)
      BY <2>1, <3>1 DEF SignerOf
    <3>3. NotAfter(c) < NotAfter(s)
      BY <1>0, <3>1, <3>2, NotAfterType DEF Superseded
    <3> QED
      BY <1>0, <2>1, <3>1, <3>2, <3>3
  <2>2. CASE d \in certs /\ d \notin A
    BY <1>0, <2>2 DEF Placed, SelfSignedAnchored, Relinks
  <2>3. CASE d \in certs /\ d \in A
    <3>1. issuer'[d] = c /\ issuer[d] \in Superseded(c) \ {d}
      BY <2>3 DEF Relinks
    <3>2. CompareNameAndKey(issuer[d], d) /\ NotAfter(d) < NotAfter(issuer[d])
      BY <2>3, <3>1 DEF Placed, SelfSignedAnchored
    <3>3. CompareNameAndKey(c, d)
      BY <1>1, <3>1, <3>2 DEF CompareNameAndKey
    <3>4. NotAfter(d) < NotAfter(c)
      BY <1>0, <1>1, <2>3, <3>1, <3>2, NotAfterType
    <3> QED
      BY <1>0, <1>1, <3>1, <3>3, <3>4
  <2> QED
    BY <1>0, <2>1, <2>2, <2>3
<1>4. NoNeedlessOrphan'
  <2> SUFFICES ASSUME NEW d \in certs', issuer'[d] = NoCert,
                      NEW t \in certs', IsCA(t), VerifyOnly(d, t)
               PROVE  FALSE
    BY DEF NoNeedlessOrphan
  <2>1. CASE d = c
    <3>1. s = NoCert
      BY <1>0, <2>1 DEF Relinks
    <3>2. ~VerifyOnly(c, c)
      BY <1>0, <3>1 DEF SignerOf
    <3> QED
      BY <1>0, <2>1, <3>1, <3>2 DEF SignerOf
  <2>2. CASE d \in certs
    <3>1. d \notin A /\ issuer[d] = NoCert
      BY <1>0, <2>2 DEF Relinks
    <3>2. ~VerifyOnly(d, c)
      BY <2>2, <3>1 DEF Relinks
    <3> QED
      BY <1>0, <2>2, <3>1, <3>2 DEF Placed, NoNeedlessOrphan
  <2> QED
    BY <1>0, <2>1, <2>2
<1>5. LatestAnchor'
  <2> SUFFICES ASSUME NEW d \in certs', NEW t \in certs', issuer'[d] # NoCert, ~VerifyOnly(d, d),
                      IsCA(t), CompareNameAndKey(t, issuer'[d]), VerifyOnly(d, t)
               PROVE  NotAfter(t) <= NotAfter(issuer'[d])
    BY DEF LatestAnchor
  <2>0. NotAfter(c) \in Nat /\ NotAfter(t) \in Nat
    BY <1>0, NotAfterType
  <2>1. CASE d = c
    <3>1. issuer'[c] = s /\ s # NoCert /\ t # c
      BY <1>0, <2>1 DEF Relinks
    <3> QED
      BY <1>0, <2>1, <3>1 DEF SignerOf
  <2>2. CASE d \in certs /\ d \in A /\ t # c
    <3>1. issuer'[d] = c /\ t \in certs
      BY <1>0, <2>2 DEF Relinks
    <3>2. issuer[d] \in Superseded(c)
      BY <2>2, <3>1 DEF Relinks, Placed, NoNeedlessOrphan
    <3>3. NotAfter(t) <= NotAfter(issuer[d])
      <4>1. CompareNameAndKey(t, issuer[d])
        BY <1>1, <3>1, <3>2 DEF CompareNameAndKey
      <4>2. issuer[d] # NoCert
        BY <1>0, <1>1, <3>2
      <4> QED
        BY <2>2, <3>1, <4>1, <4>2 DEF Placed, LatestAnchor
    <3>4. NotAfter(issuer[d]) <= NotAfter(c) /\ NotAfter(issuer[d]) \in Nat
      BY <1>0, <1>1, <3>2, NotAfterType
    <3> QED
      BY <2>0, <3>1, <3>3, <3>4
  <2>3. CASE d \in certs /\ d \in A /\ t = c
    BY <2>0, <2>3 DEF Relinks
  <2>4. CASE d \in certs /\ d \notin A
    <3>1. issuer'[d] = issuer[d] /\ issuer[d] \in certs
      BY <1>0, <2>4 DEF Relinks
    <3>2. CASE t = c
      <4>1. VerifyOnly(d, issuer[d]) /\ issuer[d] # d
        BY <2>4, <3>1, <1>0 DEF StoreOK, IssuerVerifies
      <4>2. IsCA(issuer[d])
        BY <1>0, <2>4, <3>1, <4>1 DEF CAsInterchangeable
      <4>3. issuer[d] \notin Superseded(c)
        BY <2>4, <4>1 DEF Relinks
      <4>4. CompareNameAndKey(issuer[d], c)
        BY <3>1, <3>2 DEF CompareNameAndKey
      <4>5. ~(NotAfter(issuer[d]) <= NotAfter(c))
        BY <3>1, <4>2, <4>3, <4>4 DEF Superseded
      <4> QED
        BY <1>0, <3>1, <3>2, <4>5, NotAfterType
    <3>3. CASE t \in certs
      BY <1>0, <2>4, <3>1, <3>3 DEF Placed, LatestAnchor
    <3> QED
      BY <1>0, <3>2, <3>3
  <2> QED
    BY <1>0, <2>1, <2>2, <2>3, <2>4
<1> QED
  BY <1>2, <1>3, <1>4, <1>5 DEF Placed

\* insertPKI() marks what it gives to c by the list of c, which has the serials
\* of those that were revoked.
LEMMA InsertRevoked ==
  ASSUME CAsInterchangeable, StoreOK, Placed, RevokedIffListed,
         NEW c \in Cert, c \notin certs, NEW s, SignerOf(c, s),
         NEW rev \in BOOLEAN, s \notin {NoCert, c} => (rev <=> SerialOf(c) \in RevList(s)),
         Relinks(c, s, Adopted(c, s)), InsertPKI(c, s, rev), StoreOK'
  PROVE  /\ RevokedIffListed'
         /\ \A d \in certs : revoked[d] => revoked'[d]
<1> DEFINE A == Adopted(c, s)
           list == InheritedRevList(c, A)
           tree == ParentAfter(c, s, A)
<1>0. /\ certs \subseteq Cert /\ NoCert \notin Cert /\ certs' = certs \cup {c}
      /\ parent \in [Cert -> certs \cup {NoCert}]
      /\ revocations \in [Cert -> SUBSET Serial]
      /\ \A d \in certs : issuer[d] \in certs \cup {NoCert} /\ signer[d] = issuer[d]
  BY CertAssumption DEF StoreOK, Relinks, Placed, SignerKnown
<1>1. /\ revocations' = [revocations EXCEPT ![c] = list]
      /\ revoked' = [d \in Cert |-> IF tree[d] = c THEN SerialOf(d) \in list
                                    ELSE IF d = c THEN rev ELSE revoked[d]]
  BY DEF InsertPKI
<1>2. A \subseteq certs \cup {c}
  BY DEF Relinks
<1>3. \A d \in Cert : tree[d] = c <=> d \in A /\ d # c
  BY <1>0, <1>2, <1>1 DEF ParentAfter, TreeParent, SignerOf
<1>4. \A d \in A : revoked[d] => SerialOf(d) \in list
  BY DEF InheritedRevList
<1> HIDE DEF A, list, tree
<1>5. /\ revocations'[c] = list
      /\ \A o \in certs : revocations'[o] = revocations[o]
  BY <1>0, <1>1
<1>6. /\ \A d \in certs : d \in A => revoked'[d] = (SerialOf(d) \in list)
      /\ \A d \in certs : d \notin A => revoked'[d] = revoked[d]
      /\ revoked'[c] = rev
  <2>1. \A d \in Cert : revoked'[d] = IF tree[d] = c THEN SerialOf(d) \in list
                                      ELSE IF d = c THEN rev ELSE revoked[d]
    BY <1>1, Zenon
  <2>2. \A d \in certs : d \in Cert /\ d # c
    BY <1>0
  <2> QED
    BY <1>3, <2>1, <2>2, Zenon
<1>7. \A d \in certs : revoked[d] => revoked'[d]
  BY <1>4, <1>6, Zenon
<1>8. RevokedIffListed'
  <2> SUFFICES ASSUME NEW d \in certs', signer'[d] \notin {NoCert, d}
               PROVE  revoked'[d] <=> SerialOf(d) \in NextRevList(signer'[d])
    BY DEF RevokedIffListed, RevList, NextRevList
  <2>1. CASE d = c
    <3>1. c \notin A /\ signer'[c] = s
      BY <2>1 DEF Relinks, A
    <3>2. s \in certs /\ s \notin {NoCert, c}
      BY <1>0, <2>1, <3>1 DEF SignerOf
    <3>3. NextRevList(s) = RevList(s)
      BY <1>5, <3>2 DEF RevList, NextRevList
    <3>4. NextRevList(signer'[d]) = RevList(s)
      BY <2>1, <3>1, <3>3
    <3>5. revoked'[d] = rev
      BY <1>6, <2>1
    <3> QED
      BY <2>1, <3>2, <3>4, <3>5
  <2>2. CASE d \in certs /\ d \in A
    <3>1. signer'[d] = c
      BY <2>2 DEF Relinks, A
    <3>2. IsCA(c)
      <4>1. CASE ~VerifyOnly(d, d)
        BY <1>0, <2>2, <4>1 DEF Relinks, A, CAsInterchangeable
      <4>2. CASE issuer[d] \in Superseded(c)
        BY <1>0, <4>2 DEF Superseded, CAsInterchangeable
      <4> QED
        BY <2>2, <4>1, <4>2 DEF Relinks, A
    <3>3. NextRevList(signer'[d]) = list
      BY <1>5, <3>1, <3>2 DEF NextRevList
    <3>4. revoked'[d] = (SerialOf(d) \in list)
      BY <1>6, <2>2
    <3> QED
      BY <3>3, <3>4
  <2>3. CASE d \in certs /\ d \notin A
    <3>1. signer'[d] = signer[d] /\ signer[d] \in certs
      BY <1>0, <2>3 DEF Relinks, A
    <3>2. NextRevList(signer'[d]) = RevList(signer[d])
      BY <1>5, <3>1 DEF RevList, NextRevList
    <3>3. revoked'[d] = revoked[d]
      BY <1>6, <2>3
    <3>4. revoked[d] <=> SerialOf(d) \in RevList(signer[d])
      BY <2>3, <3>1 DEF RevokedIffListed
    <3> QED
      BY <3>2, <3>3, <3>4
  <2> QED
    BY <1>0, <2>1, <2>2, <2>3
<1> QED
  BY <1>7, <1>8

------------------------------------------------------------------------------
(* deletePKI() of a certificate.                                           *)

\* remFromCont() gives the children of the deleted certificate to the latest CA
\* that is left, if there is one.
LEMMA DeletePlaced ==
  ASSUME StoreOK, Placed, NEW c \in certs, NEW next, Relinked(c, next),
         \A d \in Childs(c) : next[d] \in FindIssuer(d, certs \ {c})
  PROVE  Placed'
<1>0. /\ certs \subseteq Cert /\ NoCert \notin Cert /\ certs' = certs \ {c}
      /\ certs \ {c} \in SUBSET Cert
  BY CertAssumption DEF StoreOK, Relinked
<1>1. \A d \in certs \ {c} : d \notin Childs(c) => issuer[d] # c
  BY <1>0 DEF Childs, StoreOK, TreeMatchesDb, TreeParent
<1>2. \A d \in certs \ {c} :
        /\ d \in Childs(c) => issuer'[d] = next[d] /\ signer'[d] = next[d]
        /\ d \notin Childs(c) => issuer'[d] = issuer[d] /\ signer'[d] = signer[d]
  BY <1>0, <1>1 DEF Relinked
<1>3. ASSUME NEW d \in certs \ {c}, d \in Childs(c)
      PROVE  /\ VerifyOnly(d, d) => next[d] = d
             /\ ~VerifyOnly(d, d) /\ next[d] # NoCert =>
                  \A t \in certs \ {c} : IsCA(t) /\ VerifyOnly(d, t) => NotAfter(t) <= NotAfter(next[d])
             /\ next[d] = NoCert => \A t \in certs \ {c} : ~(IsCA(t) /\ VerifyOnly(d, t))
  BY <1>0, <1>3, FindIssuerLatest
<1>4. SignerKnown'
  BY <1>0, <1>2 DEF Placed, SignerKnown
<1>5. SelfSignedAnchored'
  <2> SUFFICES ASSUME NEW d \in certs \ {c}, VerifyOnly(d, d), issuer'[d] # d
               PROVE  /\ issuer'[d] \in certs \ {c} /\ IsCA(issuer'[d])
                      /\ CompareNameAndKey(issuer'[d], d)
                      /\ NotAfter(d) < NotAfter(issuer'[d])
    BY <1>0 DEF SelfSignedAnchored
  <2>1. d \notin Childs(c) /\ issuer'[d] = issuer[d] /\ issuer[d] # c
    BY <1>1, <1>2, <1>3
  <2> QED
    BY <2>1 DEF Placed, SelfSignedAnchored
<1>6. NoNeedlessOrphan'
  BY <1>0, <1>2, <1>3 DEF Placed, NoNeedlessOrphan
<1>7. LatestAnchor'
  BY <1>0, <1>2, <1>3 DEF Placed, LatestAnchor
<1> QED
  BY <1>4, <1>5, <1>6, <1>7 DEF Placed

\* The children take their revocations along to the list of their next issuer.
LEMMA DeleteRevoked ==
  ASSUME CAsInterchangeable, SerialsUnique, StoreOK, Placed, RevokedIffListed,
         NEW c \in certs, DeletePKI(c), StoreOK'
  PROVE  /\ Placed' /\ RevokedIffListed'
         /\ \A d \in certs' : revoked[d] => revoked'[d]
<1>1. PICK next, late :
        /\ late \in SUBSET Twins(c, next)
        /\ \A d \in Childs(c) : next[d] \in NextIssuers(c, d)
        /\ Relinked(c, next)
        /\ revocations' = [s \in Cert |-> IF s = c THEN {} ELSE MergeRevList(s, GivenTo(c, next, s))]
        /\ revoked' = [d \in Cert |-> /\ d # c
                                      /\ \/ revoked[d]
                                         \/ d \in Childs(c) /\ TakesFrom(c, next, late, d)]
  BY Zenon DEF DeletePKI
<1>2. \A d \in Childs(c) : next[d] \in FindIssuer(d, certs \ {c})
  BY <1>1, ChildsAskFindIssuer
<1>3. Placed'
  BY <1>1, <1>2, DeletePlaced
<1>4. /\ certs \subseteq Cert /\ NoCert \notin Cert /\ certs' = certs \ {c}
      /\ certs \ {c} \in SUBSET Cert
  BY <1>1, CertAssumption DEF StoreOK, Relinked
<1> DEFINE Takes(d) == d \in Childs(c) /\ TakesFrom(c, next, late, d)
<1>5. \A d \in certs' : revoked'[d] = (revoked[d] \/ Takes(d))
  <2>1. \A d \in Cert : revoked'[d] = (d # c /\ (revoked[d] \/ Takes(d)))
    BY <1>1, Zenon
  <2>2. \A d \in certs' : d \in Cert /\ d # c
    BY <1>4
  <2> QED
    BY <2>1, <2>2, Zenon
<1>6. \A d \in certs' : revoked[d] => revoked'[d]
  BY <1>5, Zenon
<1>7. ASSUME NEW n \in certs \ {c}, IsCA(n)
      PROVE  NextRevList(n) = RevList(n) \cup GivenTo(c, next, n)
  <2>1. NextRevList(n) = MergeRevList(n, GivenTo(c, next, n))
    BY <1>1, <1>4, <1>7 DEF NextRevList
  <2> QED
    BY <1>7, <2>1 DEF MergeRevList, RevList
<1>8. ASSUME NEW d \in certs \ {c}, NEW n \in certs \ {c}, VerifyOnly(d, n),
             SerialOf(d) \in GivenTo(c, next, n)
      PROVE  d \in Childs(c) /\ revoked[d]
  <2>1. PICK e \in Childs(c) : revoked[e] /\ next[e] = n /\ SerialOf(e) = SerialOf(d)
    BY <1>8, Zenon DEF GivenTo
  <2>2. e \in Cert /\ VerifyOnly(e, n)
    BY <1>2, <1>4, <2>1, FindIssuerVerifies DEF Childs
  <2>3. e = d
    BY <1>4, <1>8, <2>1, <2>2, SiblingsDiffer
  <2> QED
    BY <2>1, <2>3
<1>9. RevokedIffListed'
  <2> SUFFICES ASSUME NEW d \in certs \ {c}, signer'[d] \notin {NoCert, d}
               PROVE  revoked'[d] <=> SerialOf(d) \in NextRevList(signer'[d])
    BY <1>4 DEF RevokedIffListed, RevList, NextRevList
  <2> DEFINE n == signer'[d]
  <2>1. n \in certs \ {c} /\ IsCA(n) /\ VerifyOnly(d, n)
    <3>1. issuer'[d] = n /\ issuer'[d] \in certs'
      BY <1>3, <1>4 DEF Placed, SignerKnown, StoreOK
    <3>2. VerifyOnly(d, n)
      BY <1>4, <3>1 DEF StoreOK, IssuerVerifies
    <3>3. IsCA(n)
      <4>1. CASE VerifyOnly(d, d)
        BY <1>3, <1>4, <3>1, <4>1 DEF Placed, SelfSignedAnchored
      <4>2. CASE ~VerifyOnly(d, d)
        BY <1>4, <3>1, <3>2, <4>2 DEF CAsInterchangeable
      <4> QED
        BY <4>1, <4>2
    <3> QED
      BY <1>4, <3>1, <3>2, <3>3
  <2>2. NextRevList(n) = RevList(n) \cup GivenTo(c, next, n)
    BY <1>7, <2>1
  <2>3. revoked'[d] = (revoked[d] \/ Takes(d))
    BY <1>4, <1>5, Zenon
  <2>4. CASE d \in Childs(c)
    <3>1. n = next[d] /\ n # NoCert
      BY <1>1, <1>4, <2>4 DEF Relinked
    <3>2. SerialOf(d) \in GivenTo(c, next, n) <=> revoked[d]
      <4>1. revoked[d] => SerialOf(d) \in GivenTo(c, next, n)
        BY <2>4, <3>1, Zenon DEF GivenTo
      <4> QED
        BY <1>8, <2>1, <4>1
    <3>3. d \in late => revoked[d]
      <4>1. d \in late => SerialOf(d) \in GivenTo(c, next, n)
        BY <1>1, <3>1 DEF Twins
      <4> QED
        BY <3>2, <4>1
    <3>4. TakesFrom(c, next, late, d) <=> d \in late \/ SerialOf(d) \in RevList(n)
      BY <3>1 DEF TakesFrom
    <3> HIDE DEF n
    <3> QED
      BY <2>2, <2>3, <2>4, <3>2, <3>3, <3>4 DEF n
  <2>5. CASE d \notin Childs(c)
    <3>1. signer'[d] = signer[d]
      BY <1>1, <1>4, <2>5 DEF Relinked
    <3>2. revoked[d] <=> SerialOf(d) \in RevList(n)
      BY <3>1 DEF RevokedIffListed
    <3>3. SerialOf(d) \notin GivenTo(c, next, n)
      BY <1>8, <2>1, <2>5
    <3> QED
      BY <2>2, <2>3, <2>5, <3>2, <3>3
  <2> QED
    BY <2>4, <2>5
<1> QED
  BY <1>3, <1>6, <1>9

------------------------------------------------------------------------------
(* Revocation.                                                             *)

\* Where a certificate is does not depend on the revocations.
LEMMA SamePlaced ==
  ASSUME Placed, certs' = certs, issuer' = issuer, signer' = signer
  PROVE  Placed'
  BY DEF Placed, SignerKnown, SelfSignedAnchored, NoNeedlessOrphan, LatestAnchor

\* If the list of one CA s is extended by L, those below s with a serial of L
\* have to be marked.
LEMMA ExtendedList ==
  ASSUME CAsInterchangeable, StoreOK, Placed, RevokedIffListed,
         certs' = certs, signer' = signer,
         NEW s \in certs, NEW L, revocations' = [revocations EXCEPT ![s] = MergeRevList(s, L)],
         NEW M, revoked' = [d \in Cert |-> d \in M \/ revoked[d]],
         \A d \in certs : signer[d] \notin {NoCert, d} =>
           (d \in M <=> signer[d] = s /\ SerialOf(d) \in L)
  PROVE  RevokedIffListed' /\ \A d \in certs : revoked[d] => revoked'[d]
<1>0. certs \subseteq Cert /\ revocations \in [Cert -> SUBSET Serial]
  BY DEF StoreOK
<1>1. \A d \in certs : revoked'[d] <=> d \in M \/ revoked[d]
  <2>1. \A d \in Cert : revoked'[d] = (d \in M \/ revoked[d])
    BY Zenon
  <2> QED
    BY <1>0, <2>1, Zenon
<1>2. ASSUME NEW d \in certs, signer[d] \notin {NoCert, d}
      PROVE  revoked'[d] <=> SerialOf(d) \in NextRevList(signer[d])
  <2>1. signer[d] \in certs /\ IsCA(signer[d])
    BY <1>2, IssuerIsCA DEF Placed, SignerKnown
  <2>2. revoked[d] <=> SerialOf(d) \in RevList(signer[d])
    BY <1>2 DEF RevokedIffListed
  <2>3. CASE signer[d] = s
    <3>1. NextRevList(s) = RevList(s) \cup L
      <4>1. NextRevList(s) = MergeRevList(s, L)
        BY <1>0, <2>1, <2>3 DEF NextRevList
      <4> QED
        BY <2>1, <2>3, <4>1 DEF MergeRevList, RevList
    <3> QED
      BY <1>1, <1>2, <2>2, <2>3, <3>1
  <2>4. CASE signer[d] # s
    <3>1. NextRevList(signer[d]) = RevList(signer[d])
      BY <1>0, <2>1, <2>4 DEF NextRevList, RevList
    <3> QED
      BY <1>1, <1>2, <2>2, <2>4, <3>1
  <2> QED
    BY <2>3, <2>4
<1> QED
  BY <1>1, <1>2 DEF RevokedIffListed, RevList, NextRevList

\* do_revoke() marks and lists the same certificates.
LEMMA DoRevokeRevoked ==
  ASSUME CAsInterchangeable, SerialsUnique, StoreOK, Placed, RevokedIffListed,
         NEW S \in SUBSET certs, NEW s \in certs, \A c \in S : signer[c] = s, DoRevoke(S, s)
  PROVE  /\ Placed' /\ RevokedIffListed'
         /\ \A d \in certs : revoked[d] => revoked'[d]
<1> DEFINE L == {SerialOf(c) : c \in S}
<1>1. /\ certs' = certs /\ issuer' = issuer /\ signer' = signer
      /\ revocations' = [revocations EXCEPT ![s] = MergeRevList(s, L)]
      /\ revoked' = [d \in Cert |-> d \in S \/ revoked[d]]
  BY Zenon DEF DoRevoke
<1>2. ASSUME NEW d \in certs, signer[d] \notin {NoCert, d}
      PROVE  d \in S <=> signer[d] = s /\ SerialOf(d) \in L
  <2>1. d \in S => signer[d] = s /\ SerialOf(d) \in L
    OBVIOUS
  <2>2. ASSUME signer[d] = s, SerialOf(d) \in L PROVE d \in S
    <3>1. PICK c \in S : SerialOf(c) = SerialOf(d)
      BY <2>2
    <3>2. issuer[c] = s /\ issuer[d] = s /\ s # NoCert /\ c \in Cert /\ d \in Cert
      BY <2>2, CertAssumption DEF Placed, SignerKnown, StoreOK
    <3>3. VerifyOnly(c, s) /\ VerifyOnly(d, s)
      BY <3>2 DEF StoreOK, IssuerVerifies
    <3>4. c = d
      BY <3>1, <3>2, <3>3, SiblingsDiffer
    <3> QED
      BY <3>4
  <2> QED
    BY <2>1, <2>2
<1>3. Placed'
  BY <1>1, SamePlaced
<1> HIDE DEF L
<1> QED
  BY <1>1, <1>2, <1>3, ExtendedList

\* A revocation is not lost, but for one that is taken off the list of its CA and
\* one that no list has.
Kept ==
  \A c \in certs \cap certs' :
    revoked[c] /\ ~revoked'[c] /\ signer[c] # c =>
      /\ certs' = certs
      /\ \/ signer[c] = NoCert /\ issuer[c] = NoCert
         \/ SerialOf(c) \in RevList(signer[c]) \ NextRevList(signer'[c])

\* setRevocations() marks the children by the new list.
LEMMA SetRevocationsRevoked ==
  ASSUME CAsInterchangeable, StoreOK, Placed, RevokedIffListed,
         NEW s \in certs, IsCA(s), NEW L, SetRevocations(s, L)
  PROVE  Placed' /\ RevokedIffListed' /\ Kept
<1>0. /\ certs \subseteq Cert /\ NoCert \notin Cert
      /\ revocations \in [Cert -> SUBSET Serial]
      /\ certs' = certs /\ issuer' = issuer /\ signer' = signer
      /\ revocations' = [revocations EXCEPT ![s] = L]
  BY CertAssumption DEF StoreOK, SetRevocations
<1>1. \A d \in certs : revoked'[d] = IF parent[d] = s THEN SerialOf(d) \in L ELSE revoked[d]
  <2>1. \A d \in Cert : revoked'[d] = IF d \in certs /\ parent[d] = s THEN SerialOf(d) \in L
                                      ELSE revoked[d]
    BY Zenon DEF SetRevocations
  <2>2. \A d \in certs : d \in Cert
    BY <1>0
  <2> QED
    BY <2>1, <2>2, Zenon
<1>2. \A d \in certs : parent[d] = s <=> signer[d] = s /\ d # s
  BY <1>0 DEF StoreOK, TreeMatchesDb, TreeParent, Placed, SignerKnown
<1>3. NextRevList(s) = L /\ \A o \in certs : o # s => NextRevList(o) = RevList(o)
  BY <1>0 DEF NextRevList, RevList
<1>4. ASSUME NEW d \in certs, signer[d] \notin {NoCert, d}
      PROVE  revoked'[d] <=> SerialOf(d) \in NextRevList(signer[d])
  <2>1. CASE signer[d] = s
    BY <1>1, <1>2, <1>3, <1>4, <2>1
  <2>2. CASE signer[d] # s
    <3>1. revoked'[d] = revoked[d]
      BY <1>1, <1>2, <2>2
    <3>2. signer[d] \in certs
      BY <1>0, <1>4 DEF StoreOK
    <3> QED
      BY <1>3, <1>4, <2>2, <3>1, <3>2 DEF RevokedIffListed
  <2> QED
    BY <2>1, <2>2
<1>5. RevokedIffListed'
  BY <1>0, <1>4 DEF RevokedIffListed, RevList, NextRevList
<1>6. Kept
  <2> SUFFICES ASSUME NEW d \in certs, revoked[d], ~revoked'[d], signer[d] # d
               PROVE  SerialOf(d) \in RevList(signer[d]) \ NextRevList(signer[d])
    BY <1>0 DEF Kept
  <2>1. parent[d] = s
    BY <1>1
  <2>2. signer[d] = s /\ s # NoCert
    BY <1>0, <1>2, <2>1
  <2> QED
    BY <1>4, <2>2 DEF RevokedIffListed
<1> QED
  BY <1>0, <1>5, <1>6, SamePlaced

\* revokeCerts() marks what the imported list adds to that of its issuer.
LEMMA ImportCrlRevoked ==
  ASSUME CAsInterchangeable, SerialsUnique, StoreOK, Placed, RevokedIffListed,
         NEW k \in Crl, ImportCrl(k)
  PROVE  /\ Placed' /\ RevokedIffListed'
         /\ \A d \in certs : revoked[d] => revoked'[d]
<1>0. /\ certs' = certs /\ issuer' = issuer /\ signer' = signer
      /\ certs \subseteq Cert /\ NoCert \notin Cert
  BY CertAssumption DEF ImportCrl, StoreOK
<1>1. Placed'
  BY <1>0, SamePlaced
<1>2. PICK s \in CrlIssuers(k) :
        IF s = NoCert
        THEN UNCHANGED <<revocations, revoked>>
        ELSE /\ revocations' = [revocations EXCEPT ![s] = MergeRevList(s, CrlData[k].serials)]
             /\ \E M \in MarkedBy(k, s) : revoked' = [c \in Cert |-> c \in M \/ revoked[c]]
  BY DEF ImportCrl
<1>3. CASE s = NoCert
  BY <1>0, <1>1, <1>2, <1>3 DEF RevokedIffListed, RevList
<1>4. CASE s # NoCert
  <2>1. s \in certs
    BY <1>4, CrlIssuersVerify
  <2> DEFINE L == CrlData[k].serials
             listed == {d \in certs : parent[d] = s /\ SerialOf(d) \in L}
  <2>2. PICK M \in SUBSET listed :
          /\ revoked' = [c \in Cert |-> c \in M \/ revoked[c]]
          /\ \A d \in listed : \E m \in M : SerialOf(m) = SerialOf(d)
    BY <1>2, <1>4 DEF MarkedBy
  <2>3. M = listed
    <3> SUFFICES ASSUME NEW d \in listed PROVE d \in M
      OBVIOUS
    <3>1. PICK m \in M : SerialOf(m) = SerialOf(d)
      BY <2>2
    <3>2. m \in certs /\ parent[m] = s /\ d \in certs /\ parent[d] = s
      BY <2>2
    <3>3. issuer[m] = s /\ issuer[d] = s /\ s # NoCert
      BY <1>0, <2>1, <3>2 DEF StoreOK, TreeMatchesDb, TreeParent
    <3>4. VerifyOnly(m, s) /\ VerifyOnly(d, s)
      BY <3>2, <3>3 DEF StoreOK, IssuerVerifies
    <3>5. m = d
      BY <1>0, <3>1, <3>2, <3>4, SiblingsDiffer
    <3> QED
      BY <3>5
  <2>4. ASSUME NEW d \in certs, signer[d] \notin {NoCert, d}
        PROVE  d \in M <=> signer[d] = s /\ SerialOf(d) \in L
    <3>1. parent[d] = signer[d]
      BY <2>4 DEF StoreOK, TreeMatchesDb, TreeParent, Placed, SignerKnown
    <3> QED
      BY <2>3, <3>1
  <2>5. revocations' = [revocations EXCEPT ![s] = MergeRevList(s, L)]
    BY <1>2, <1>4
  <2> HIDE DEF L, listed
  <2> QED
    BY <1>0, <1>1, <2>1, <2>2, <2>4, <2>5, ExtendedList
<1> QED
  BY <1>3, <1>4

------------------------------------------------------------------------------
(* Every step keeps the certificates orderly.                              *)

\* What every step has to do.
Advances == Orderly' /\ Kept

\* Where no mark is lost nothing has to be said about the lists.
LEMMA MarksKept ==
  ASSUME Placed', RevokedIffListed', \A d \in certs \cap certs' : revoked[d] => revoked'[d]
  PROVE  Advances
  BY DEF Advances, Orderly, Kept

\* A step that changes neither certificates nor revocations.
LEMMA SameOrderly ==
  ASSUME Orderly, certs' = certs, issuer' = issuer, signer' = signer,
         revocations' = revocations, revoked' = revoked
  PROVE  Advances
<1>1. Placed'
  BY SamePlaced DEF Orderly
<1>2. RevokedIffListed'
  BY DEF Orderly, RevokedIffListed, RevList
<1> QED
  BY <1>1, <1>2, MarksKept

\* insertPKI() of a certificate that has the signer it should have.
LEMMA InsertAdvances ==
  ASSUME Conventional, StoreOK, StoreOK', Orderly,
         NEW c \in Cert, c \notin certs, NEW s, SignerOf(c, s),
         NEW rev \in BOOLEAN, s \notin {NoCert, c} => (rev <=> SerialOf(c) \in RevList(s)),
         InsertPKI(c, s, rev)
  PROVE  Advances
<1>1. Relinks(c, s, Adopted(c, s))
  BY InsertRelinks DEF Conventional, Orderly, Placed
<1>2. Placed'
  BY <1>1, InsertPlaced DEF Conventional, Orderly
<1>3. RevokedIffListed' /\ \A d \in certs : revoked[d] => revoked'[d]
  BY <1>1, InsertRevoked DEF Conventional, Orderly
<1> QED
  BY <1>2, <1>3, MarksKept

\* deletePKI() of a certificate.
LEMMA DeleteAdvances ==
  ASSUME Conventional, StoreOK, StoreOK', Orderly, NEW c \in certs, DeletePKI(c)
  PROVE  Advances
<1>1. Placed' /\ RevokedIffListed' /\ \A d \in certs' : revoked[d] => revoked'[d]
  BY DeleteRevoked DEF Conventional, Orderly
<1> QED
  BY <1>1, MarksKept

\* Import of a certificate: findIssuer() and verify() find what is stored.
LEMMA ImportAdvances ==
  ASSUME Conventional, StoreOK, StoreOK', Orderly, NEW c \in Cert, Insert(c)
  PROVE  Advances
<1>1. PICK s \in FindIssuer(c, certs) :
        InsertPKI(c, s, s \notin {NoCert, c} /\ SerialOf(c) \in RevList(s))
  BY DEF Insert
<1>2. SignerOf(c, s)
  <2>1. certs \in SUBSET Cert /\ c \notin certs
    BY DEF StoreOK, Insert
  <2> QED
    BY <1>1, <2>1, FindIssuerLatest, FindIssuerVerifies DEF SignerOf
<1> DEFINE rev == s \notin {NoCert, c} /\ SerialOf(c) \in RevList(s)
<1>3. rev \in BOOLEAN /\ (s \notin {NoCert, c} => (rev <=> SerialOf(c) \in RevList(s)))
  OBVIOUS
<1>4. InsertPKI(c, s, rev) /\ c \notin certs
  BY <1>1 DEF Insert
<1> HIDE DEF rev
<1> QED
  BY <1>2, <1>3, <1>4, InsertAdvances

\* The copy has the signer of the certificate it was made from, which is the
\* one it should have, and that does not list it.
LEMMA RenewInsertAdvances ==
  ASSUME Conventional, StoreOK, StoreOK', Orderly, NEW old \in Cert, NEW new \in Cert,
         NEW revoke \in BOOLEAN, NEW replace \in BOOLEAN,
         RenewInsert(old, new, revoke, replace)
  PROVE  Advances
<1> DEFINE s == signer[old]
<1>0. /\ old \in certs /\ new \notin certs /\ s \in certs /\ s \in Cert /\ s # NoCert
      /\ IsCA(s) /\ IsRenewalOf(new, old, s)
      /\ InsertPKI(new, s, FALSE)
      /\ s = issuer[old]
  BY CertAssumption DEF RenewInsert, StoreOK, CanSign, Orderly, Placed, SignerKnown
<1>1. /\ CertData[new].subject = CertData[old].subject
      /\ CertData[new].key = CertData[old].key
      /\ CertData[new].issuer = CertData[old].issuer
      /\ CertData[new].keyId = CertData[old].keyId
      /\ CertData[new].caSerial = CertData[old].caSerial
  <2>1. CertData[old] \in CertRecord
    BY CertAssumption
  <2> QED
    BY <1>0, <2>1 DEF IsRenewalOf, CertRecord
<1>2. \A t \in Cert : VerifyOnly(new, t) <=> VerifyOnly(old, t)
  BY <1>1 DEF VerifyOnly, CheckIssued
<1>3. CompareNameAndKey(new, old)
  BY <1>1 DEF CompareNameAndKey
<1>4. VerifyOnly(new, new) <=> VerifyOnly(old, old)
  BY <1>2, <1>3, SameCA DEF Conventional, CAsInterchangeable
<1>5. SignerOf(new, s)
  <2>1. VerifyOnly(old, s)
    BY <1>0 DEF StoreOK, IssuerVerifies
  <2>2. VerifyOnly(new, new) => CompareNameAndKey(s, new)
    <3>1. VerifyOnly(new, new) /\ s # old => CompareNameAndKey(s, old)
      BY <1>0, <1>4 DEF Orderly, Placed, SelfSignedAnchored
    <3> QED
      BY <1>3, <3>1 DEF CompareNameAndKey
  <2>3. ~VerifyOnly(new, new) =>
          \A t \in certs :
            IsCA(t) /\ CompareNameAndKey(t, s) /\ VerifyOnly(new, t) => NotAfter(t) <= NotAfter(s)
    <3>1. certs \subseteq Cert
      BY DEF StoreOK
    <3> QED
      BY <1>0, <1>2, <1>4, <3>1 DEF Orderly, Placed, LatestAnchor
  <2> QED
    BY <1>0, <1>2, <2>1, <2>2, <2>3 DEF SignerOf
<1>6. SerialOf(new) \notin RevList(s)
  <2>1. \/ UniqueSerial(SerialOf(new), s)
        \/ SerialOf(new) = SerialOf(old)
    BY DEF RenewInsert
  <2>2. SerialOf(new) # SerialOf(old)
    BY <1>0, <1>1 DEF Conventional, SerialsUnique
  <2> QED
    BY <2>1, <2>2 DEF UniqueSerial
<1>7. FALSE \in BOOLEAN /\ (s \notin {NoCert, new} => (FALSE <=> SerialOf(new) \in RevList(s)))
  BY <1>6
<1> HIDE DEF s
<1> QED
  BY <1>0, <1>5, <1>7, InsertAdvances

\* loadContainer() marks by the lists in the database.
LEMMA ReloadAdvances == ASSUME Conventional, StoreOK, Orderly, Reload PROVE Advances
<1>0. /\ certs' = certs /\ issuer' = issuer /\ revocations' = revocations /\ signer' = issuer
      /\ certs \subseteq Cert
  BY DEF Reload, dbVars, StoreOK
<1>1. \A d \in certs : signer[d] = issuer[d]
  BY DEF Orderly, Placed, SignerKnown
<1>2. Placed'
  BY <1>0, <1>1 DEF Orderly, Placed, SignerKnown, SelfSignedAnchored, NoNeedlessOrphan, LatestAnchor
<1>3. \A d \in certs : revoked'[d] = (issuer[d] # NoCert /\ SerialOf(d) \in revocations[issuer[d]])
  <2>1. \A d \in certs : d \in Cert
    BY <1>0
  <2> QED
    BY <2>1, Zenon DEF Reload
<1>4. ASSUME NEW d \in certs, signer[d] \notin {NoCert, d}
      PROVE  /\ revoked'[d] <=> SerialOf(d) \in NextRevList(signer[d])
             /\ revoked'[d] <=> revoked[d]
  <2>1. IsCA(issuer[d])
    BY <1>1, <1>4, IssuerIsCA DEF Conventional, Orderly, Placed
  <2>2. NextRevList(signer[d]) = revocations[issuer[d]] /\ RevList(signer[d]) = revocations[issuer[d]]
    BY <1>0, <1>1, <2>1 DEF NextRevList, RevList
  <2>3. revoked'[d] <=> SerialOf(d) \in revocations[issuer[d]]
    <3>1. issuer[d] # NoCert
      BY <1>1, <1>4
    <3> QED
      BY <1>3, <3>1, Zenon
  <2> QED
    BY <1>4, <2>2, <2>3 DEF Orderly, RevokedIffListed
<1>5. RevokedIffListed'
  BY <1>0, <1>1, <1>4 DEF RevokedIffListed, RevList, NextRevList
<1>6. Kept
  BY <1>0, <1>1, <1>4 DEF Kept
<1> QED
  BY <1>2, <1>5, <1>6 DEF Advances, Orderly

\* Every step.
LEMMA NextAdvances ==
  ASSUME Conventional, Consistent, Consistent', Orderly, [Next]_vars
  PROVE  Advances
<1>0. /\ StoreOK /\ StoreOK' /\ RenewalOK /\ certs \subseteq Cert /\ NoCert \notin certs
      /\ CAsInterchangeable /\ SerialsUnique /\ Placed /\ RevokedIffListed
  BY ConsistentParts, CertAssumption DEF StoreOK, Conventional, Orderly
<1>1. ASSUME NEW c \in Cert, Insert(c) PROVE Advances
  BY <1>0, <1>1, ImportAdvances
<1>2. ASSUME NEW c \in Cert, Delete(c) PROVE Advances
  BY <1>0, <1>2, DeleteAdvances DEF Delete
<1>3. ASSUME NEW S \in SUBSET certs, Revoke(S) PROVE Advances
  <2>1. PICK s \in certs : SameSigner(S, s) /\ DoRevoke(S, s)
    BY <1>3 DEF Revoke
  <2>2. /\ Placed' /\ RevokedIffListed'
        /\ \A d \in certs : revoked[d] => revoked'[d]
    BY <1>0, <2>1, DoRevokeRevoked DEF SameSigner
  <2> QED
    BY <2>2, MarksKept
<1>4. ASSUME NEW S \in SUBSET certs, UnRevoke(S) PROVE Advances
  <2>1. PICK s \in certs : CanSign(s) /\ SetRevocations(s, RevList(s) \ {SerialOf(c) : c \in S})
    BY <1>4 DEF UnRevoke
  <2>2. Placed' /\ RevokedIffListed' /\ Kept
    BY <1>0, <2>1, SetRevocationsRevoked DEF CanSign
  <2> QED
    BY <2>2 DEF Advances, Orderly
<1>5. ASSUME NEW s \in certs, NEW n \in TypedSerial, ManageRevocations(s, n) PROVE Advances
  <2>1. PICK L : SetRevocations(s, L)
    BY <1>5 DEF ManageRevocations
  <2>2. Placed' /\ RevokedIffListed' /\ Kept
    BY <1>0, <1>5, <2>1, SetRevocationsRevoked DEF ManageRevocations, CanSign
  <2> QED
    BY <2>2 DEF Advances, Orderly
<1>6. ASSUME NEW old \in Cert, NEW new \in Cert, NEW revoke \in BOOLEAN, NEW replace \in BOOLEAN,
             RenewInsert(old, new, revoke, replace)
      PROVE  Advances
  BY <1>0, <1>6, RenewInsertAdvances
<1>7. CASE RenewRevoke
  <2>1. renewal.old \in certs
    BY <1>0, <1>7 DEF RenewRevoke, Idle, RenewalOK
  <2> DEFINE s == signer[renewal.old]
             S == {renewal.old}
  <2>2. s \in certs /\ S \in SUBSET certs /\ (\A c \in S : signer[c] = s) /\ DoRevoke(S, s)
    BY <1>0, <1>7, <2>1 DEF RenewRevoke, StoreOK
  <2>3. /\ Placed' /\ RevokedIffListed'
        /\ \A d \in certs : revoked[d] => revoked'[d]
    <3> HIDE DEF s, S
    <3> QED
      BY <1>0, <2>2, DoRevokeRevoked
  <2> QED
    BY <2>3, MarksKept
<1>8. CASE RenewReplace
  <2>1. renewal.old \in certs
    BY <1>0, <1>8 DEF RenewReplace, Idle, RenewalOK
  <2> QED
    BY <1>0, <1>8, <2>1, DeleteAdvances DEF RenewReplace
<1>9. CASE RenewDone
  BY <1>9, SameOrderly DEF RenewDone, dbVars, memVars
<1>10. ASSUME NEW k \in Crl, ImportCrl(k) PROVE Advances
  <2>1. /\ Placed' /\ RevokedIffListed'
        /\ \A d \in certs : revoked[d] => revoked'[d]
    BY <1>0, <1>10, ImportCrlRevoked
  <2> QED
    BY <2>1, MarksKept
<1>11. ASSUME NEW s \in certs, NEW k \in Crl, GenerateCrl(s, k) PROVE Advances
  BY <1>11, SameOrderly DEF GenerateCrl
<1>12. ASSUME NEW k \in Crl, DeleteCrl(k) PROVE Advances
  BY <1>12, SameOrderly DEF DeleteCrl
<1>13. CASE Reload
  BY <1>0, <1>13, ReloadAdvances
<1>14. CASE UNCHANGED vars
  BY <1>14, SameOrderly DEF vars, dbVars, memVars
<1> QED
  BY <1>1, <1>2, <1>3, <1>4, <1>5, <1>6, <1>7, <1>8, <1>9, <1>10, <1>11, <1>12, <1>13, <1>14
     DEF Next, Renewal

------------------------------------------------------------------------------
(* The theorems.                                                           *)

\* With documents as a PKI issues them all certificates are orderly.
THEOREM OrderlyHolds == ASSUME Conventional PROVE Spec => []Orderly
<1>1. Init => Orderly
  BY DEF Init, Orderly, Placed, SignerKnown, SelfSignedAnchored, NoNeedlessOrphan, LatestAnchor,
         RevokedIffListed
<1>2. Consistent /\ Consistent' /\ Orderly /\ [Next]_vars => Orderly'
  BY NextAdvances DEF Advances
<1> QED
  BY <1>1, <1>2, ConsistentHolds, PTL DEF Spec

\* No certificate forgets its signer: it can be revoked and renewed at any time.
THEOREM SignersKnown == ASSUME Conventional PROVE Spec => []SignerKnown
<1>1. Orderly => SignerKnown
  BY DEF Orderly, Placed
<1> QED
  BY <1>1, OrderlyHolds, PTL

\* The order in which certificates are imported, renewed and deleted leaves
\* none of them without issuer whose issuer is there.
THEOREM NoOrphans == ASSUME Conventional PROVE Spec => []NoNeedlessOrphan
<1>1. Orderly => NoNeedlessOrphan
  BY DEF Orderly, Placed
<1> QED
  BY <1>1, OrderlyHolds, PTL

\* The latest certificate of a CA is the one its certificates are filed under.
THEOREM AnchorsAreLatest == ASSUME Conventional PROVE Spec => []LatestAnchor
<1>1. Orderly => LatestAnchor
  BY DEF Orderly, Placed
<1> QED
  BY <1>1, OrderlyHolds, PTL

\* What the user sees as revoked is what the next revocation list will say.
THEOREM ListsAreShown == ASSUME Conventional PROVE Spec => []RevokedIffListed
<1>1. Orderly => RevokedIffListed
  BY DEF Orderly
<1> QED
  BY <1>1, OrderlyHolds, PTL

\* A revocation ends only by being taken off the list of the CA.
THEOREM RevocationsStick == ASSUME Conventional PROVE Spec => RevocationSticks
<1>1. Consistent /\ Consistent' /\ Orderly /\ [Next]_vars => Kept
  BY NextAdvances DEF Advances
<1>2. Kept => [\A c \in certs \cap certs' :
                 revoked[c] /\ ~revoked'[c] /\ signer[c] # c =>
                   /\ certs' = certs
                   /\ \/ signer[c] = NoCert /\ issuer[c] = NoCert
                      \/ SerialOf(c) \in RevList(signer[c]) \ RevList(signer[c])']_vars
  BY DEF Kept, RevList, NextRevList
<1> QED
  BY <1>1, <1>2, ConsistentHolds, OrderlyHolds, PTL DEF Spec, RevocationSticks

==============================================================================

-------------------------- MODULE KeyLinks_proofs --------------------------
(***************************************************************************)
(* Proofs about KeyLinks: whatever the number of processes and keys and    *)
(* whichever of their hashes collide, a certificate or request refers to   *)
(* the key it was made for, in the database and in memory, and no key is   *)
(* stored twice or lost.                                                   *)
(***************************************************************************)
EXTENDS KeyLinks, TLAPS

\* What db_key::insert() completes is a public key, by its private part.
Completable ==
  \A c \in Client : completing[c] # Idle =>
    /\ IsKey(completing[c].key)
    /\ item[completing[c].key].kind = "public"
    /\ Compare(completing[c].key, completing[c].pub)
    /\ completing[c].kind = "private"

\* A reference, stored or in memory, is one of a document to its own key.
Own(d, k) == d \in Present /\ ~IsKey(d) /\ IsKey(k) /\ Compare(k, item[d].pub)
OwnLinks ==
  hung \/
    /\ \A d \in Id : pkey[d] # None => Own(d, pkey[d])
    /\ \A c \in Client, d \in Id : link[c][d] # None => Own(d, link[c][d])

Types == TypeOK /\ Completable

\* The stored hash of a key is that of its public key.
KeyHashes == \A i \in Present : IsKey(i) => SameHash(i, item[i].pub)

NoKeyTwice == \A j, k \in Keys : item[j].pub = item[k].pub => j = k

\* The public key is the only key of its own the process knows and, once it is
\* deleted, there is none.
Completes ==
  \A c \in Client : completing[c].phase \in {"told", "deleted"} =>
    \A k \in Keys \cap store[c] :
      Compare(k, completing[c].pub) => completing[c].phase = "told" /\ k = completing[c].key

DocHashes == \A d \in Docs : SameHash(d, item[d].pub)

\* What an insertion that was not overtaken finds and keeps.
Sound == LinkedIfStored /\ NoKeyTwice /\ Completes /\ DocHashes
Linked == KeyHashes /\ (overtaken \/ Sound)

\* The inductive invariant.
Invariant == Types /\ OwnLinks /\ Linked /\ MemoryLinks /\ KeysKept

------------------------------------------------------------------------------
(* What is said of the items of one state holds in the next one: an item    *)
(* never changes and new ones get the next id.                              *)

ItemsStay ==
  /\ last' \in {last, last + 1}
  /\ last' \in 0..MaxId
  /\ \A i \in Present : item'[i] = item[i]
  /\ last' = last => item' = item /\ alive' \subseteq alive
  /\ last' # last =>
       /\ alive' = alive \cup {last + 1}
       /\ item'[last'].kind = "x509super" \/ item'[last'].hash = Hash[item'[last'].pub]

LEMMA ItemsStayInsert ==
  ASSUME Types, NEW c \in Client, NEW kind \in {"public", "private"}, NEW p \in Pub,
         InsertKeyPKI(c, kind, p)
  PROVE  ItemsStay
  BY BoundAssumption DEF Types, TypeOK, InsertKeyPKI, ItemsStay, Present, Id, db

LEMMA ItemsStayDoc ==
  ASSUME Types, NEW c \in Client, NEW p \in Pub, NEW copied,
         InsertDocPKI(c, p, copied)
  PROVE  ItemsStay
  BY BoundAssumption DEF Types, TypeOK, InsertDocPKI, ItemsStay, Present, Id

LEMMA ItemsStayDelete ==
  ASSUME Types, NEW c \in Client, NEW k, DeleteKeyPKI(c, k)
  PROVE  ItemsStay
  BY BoundAssumption DEF Types, TypeOK, DeleteKeyPKI, ItemsStay

\* The disjuncts of Next, with what the parameters are taken from.
LEMMA Steps ==
  ASSUME [Next]_vars
  PROVE  \/ UNCHANGED vars
         \/ \E c \in Client, p \in Pub, kind \in {"public", "private"} :
              InsertKey(c, kind, p) \/ Complete(c, kind, p)
         \/ \E c \in Client, p \in Pub : InsertDoc(c, p)
         \/ \E c \in Client : CompleteDelete(c) \/ CompleteInsert(c)
         \/ \E c \in Client, i \in Id : DeleteKey(c, i) \/ DeleteDoc(c, i) \/ Renew(c, i)
         \/ \E c \in Client : ReloadKeys(c) \/ ReloadDocs(c) \/ Restart(c)
  BY Zenon DEF Next

LEMMA CompletingTyped ==
  ASSUME Types, NEW c \in Client, completing[c] # Idle
  PROVE  /\ completing[c] \in [phase : {"told", "doomed", "deleted"}, key : Id, kind : Kind, pub : Pub]
         /\ IsKey(completing[c].key)
         /\ item[completing[c].key].kind = "public"
         /\ item[completing[c].key].pub = completing[c].pub
         /\ completing[c].kind = "private"
  BY DEF Types, TypeOK, Completable, Completing, Compare

LEMMA ItemsStayNext ==
  ASSUME Types, [Next]_vars
  PROVE  ItemsStay
<1> USE BoundAssumption
<1>1. CASE UNCHANGED vars
  BY <1>1 DEF vars, db, ItemsStay, Types, TypeOK
<1>2. ASSUME NEW c \in Client, NEW p \in Pub, NEW kind \in {"public", "private"},
             InsertKey(c, kind, p) \/ Complete(c, kind, p)
      PROVE  ItemsStay
  <2>1. CASE InsertKey(c, kind, p)
    BY <2>1, <1>2, ItemsStayInsert DEF InsertKey
  <2>2. CASE Complete(c, kind, p)
    BY <2>2 DEF Complete, db, ItemsStay, Types, TypeOK
  <2> QED BY <1>2, <2>1, <2>2
<1>3. ASSUME NEW c \in Client, NEW p \in Pub, InsertDoc(c, p)
      PROVE  ItemsStay
  BY <1>3, ItemsStayDoc DEF InsertDoc
<1>4. ASSUME NEW c \in Client, CompleteDelete(c) \/ CompleteInsert(c)
      PROVE  ItemsStay
  <2>1. completing[c] # Idle
    BY <1>4 DEF CompleteDelete, CompleteInsert, Idle
  <2>2. CASE CompleteDelete(c)
    BY <2>2, ItemsStayDelete DEF CompleteDelete
  <2>3. CASE CompleteInsert(c)
    BY <2>1, <2>3, CompletingTyped, ItemsStayInsert DEF CompleteInsert
  <2> QED BY <1>4, <2>2, <2>3
<1>5. ASSUME NEW c \in Client, NEW i \in Id, DeleteKey(c, i) \/ DeleteDoc(c, i) \/ Renew(c, i)
      PROVE  ItemsStay
  <2>1. CASE DeleteKey(c, i)
    BY <2>1, ItemsStayDelete DEF DeleteKey
  <2>2. CASE DeleteDoc(c, i)
    BY <2>2 DEF DeleteDoc, ItemsStay, Types, TypeOK
  <2>3. CASE Renew(c, i)
    <3>1. item[i].pub \in Pub
      BY <2>3 DEF Renew, Types, TypeOK, Item, NoItem, Present, Id
    <3> QED BY <3>1, <2>3, ItemsStayDoc DEF Renew
  <2> QED BY <1>5, <2>1, <2>2, <2>3
<1>6. ASSUME NEW c \in Client, ReloadKeys(c) \/ ReloadDocs(c) \/ Restart(c)
      PROVE  ItemsStay
  BY <1>6 DEF ReloadKeys, ReloadDocs, Restart, ItemsStay, db, Types, TypeOK
<1> QED BY <1>1, <1>2, <1>3, <1>4, <1>5, <1>6, Steps

LEMMA SameItems ==
  ASSUME Types, ItemsStay
  PROVE  /\ Present \subseteq Present'
         /\ \A i \in Present : item'[i] = item[i] /\ IsKey(i)' = IsKey(i)
         /\ \A i : IsKey(i) => IsKey(i)' /\ item'[i] = item[i]
         /\ \A i \in Present' : i \in Present \/ i = last + 1
         /\ last + 1 \notin Present
<1>1. last \in Nat /\ last' \in {last, last + 1} /\ \A i \in Present : item'[i] = item[i]
  BY DEF Types, TypeOK, ItemsStay
<1>2. /\ Present \subseteq Present' /\ last + 1 \notin Present
      /\ \A i \in Present' : i \in Present \/ i = last + 1
  BY <1>1 DEF Present
<1>3. \A i \in Present : IsKey(i)' = IsKey(i)
  BY <1>1, <1>2 DEF IsKey
<1> QED BY <1>1, <1>2, <1>3 DEF IsKey

LEMMA Ranges ==
  ASSUME Types
  PROVE  /\ Present \subseteq Id /\ alive \subseteq Present
         /\ Docs \subseteq alive /\ Keys \subseteq alive
         /\ last + 1 \notin Present /\ last \in Nat /\ last <= MaxId
         /\ None \notin Id
         /\ \A i \in Present : item[i] \in Item
         /\ completing \in [Client -> Completing]
<1>1. last \in 0..MaxId /\ alive \subseteq Present /\ completing \in [Client -> Completing]
  BY DEF Types, TypeOK
<1>2. Present \subseteq Id /\ last + 1 \notin Present /\ last \in Nat /\ last <= MaxId
  BY <1>1, BoundAssumption DEF Present, Id
<1>3. \A i \in Present : item[i] \in Item
  BY <1>2 DEF Types, TypeOK
<1> QED BY <1>1, <1>2, <1>3 DEF Docs, Keys, None, Id

LEMMA SameDocs ==
  ASSUME Types, last' = last, item' = item
  PROVE  /\ Present' = Present
         /\ \A i : IsKey(i)' = IsKey(i)
         /\ Keys' = {k \in alive' : IsKey(k)}
         /\ Docs' = {d \in alive' : ~IsKey(d)}
BY DEF Present, IsKey, Keys, Docs

------------------------------------------------------------------------------
(* Types.                                                                  *)

\* An operation leaves the completion of another process alone, ends its own or
\* goes on with it.
CompletingStep(c) ==
  \/ completing'[c] = completing[c]
  \/ completing'[c] = Idle
  \/ /\ completing[c] # Idle
     /\ \E ph \in {"told", "doomed", "deleted"} :
          completing'[c] = [completing[c] EXCEPT !.phase = ph]

LEMMA CompletableStays ==
  ASSUME Types, ItemsStay, completing' = [c \in Client |-> completing'[c]],
         \A c \in Client : CompletingStep(c)
  PROVE  Completable' /\ completing' \in [Client -> Completing]
<1>1. SUFFICES ASSUME NEW c \in Client
               PROVE  /\ completing'[c] \in Completing
                      /\ completing'[c] # Idle =>
                           /\ completing'[c].key \in Present'
                           /\ item'[completing'[c].key].kind = "public"
                           /\ item'[completing'[c].key].pub = completing'[c].pub
                           /\ completing'[c].kind = "private"
  BY DEF Completable, Compare, IsKey
<1>2. CASE completing'[c] = Idle
  BY <1>2 DEF Completing
<1>3. CASE completing'[c] # Idle
  <2>1. completing[c] # Idle
    BY <1>3 DEF CompletingStep
  <2>2. /\ completing[c] \in [phase : {"told", "doomed", "deleted"}, key : Id, kind : Kind, pub : Pub]
        /\ completing[c].key \in Present
        /\ item[completing[c].key].kind = "public"
        /\ item[completing[c].key].pub = completing[c].pub
        /\ completing[c].kind = "private"
    BY <2>1, CompletingTyped DEF IsKey
  <2>3. /\ completing'[c] \in [phase : {"told", "doomed", "deleted"}, key : Id, kind : Kind, pub : Pub]
        /\ completing'[c].key = completing[c].key
        /\ completing'[c].kind = completing[c].kind
        /\ completing'[c].pub = completing[c].pub
    BY <1>3, <2>2 DEF CompletingStep
  <2>4. completing[c].key \in Present' /\ item'[completing[c].key] = item[completing[c].key]
    BY <2>2, SameItems
  <2> QED BY <2>2, <2>3, <2>4 DEF Completing
<1> QED BY <1>2, <1>3

LEMMA KeptTyped ==
  ASSUME Types, ItemsStay, kept' \subseteq kept
  PROVE  \A k \in kept' : IsKey(k)'
<1>1. \A k \in kept : IsKey(k)
  BY DEF Types, TypeOK
<1> QED BY <1>1, SameItems

LEMMA TypesInsert ==
  ASSUME Types, NEW c \in Client, NEW kind \in {"public", "private"}, NEW p \in Pub,
         InsertKeyPKI(c, kind, p),
         completing' = completing \/ completing' = [completing EXCEPT ![c] = Idle]
  PROVE  Types'
<1> USE BoundAssumption
<1>1. ItemsStay
  BY ItemsStayInsert
<1>2. completing' \in [Client -> Completing] /\ \A b \in Client : CompletingStep(b)
  BY Ranges DEF CompletingStep, Completing
<1>3. Completable' /\ completing' \in [Client -> Completing]
  BY <1>1, <1>2, CompletableStays
<1>4. Unlinked(c, p) \subseteq Docs /\ Docs \subseteq Present /\ Present \subseteq Id
  BY Ranges DEF Unlinked
<1>5. CASE last' = last
  <2>1. /\ UNCHANGED <<last, item, alive, pkey, store, shown, overtaken>>
        /\ \/ link' = link
           \/ link' = [link EXCEPT ![c] = [d \in Id |-> IF d \in Unlinked(c, p) THEN last + 1 ELSE @[d]]]
        /\ behind' = [behind EXCEPT ![c] = @ \/ link' # link]
        /\ hung' = (hung \/ link' # link)
        /\ kept' \subseteq kept
        /\ last < MaxId
    BY <1>5, Ranges DEF InsertKeyPKI, db
  <2>2. link' \in [Client -> [Id -> Id \cup {None}]]
    <3>1. last + 1 \in Id /\ link \in [Client -> [Id -> Id \cup {None}]]
      BY <2>1, Ranges DEF Types, TypeOK, Id
    <3> QED BY <2>1, <3>1
  <2>3. behind' \in [Client -> BOOLEAN] /\ hung' \in BOOLEAN
    BY <2>1 DEF Types, TypeOK
  <2>4. Present' = Present /\ Docs' = Docs
    BY <2>1 DEF Present, Docs, IsKey
  <2>5. \A k \in kept' : IsKey(k)'
    BY <1>1, <2>1, KeptTyped
  <2> QED BY <1>3, <2>1, <2>2, <2>3, <2>4, <2>5 DEF Types, TypeOK
<1>6. CASE last' # last
  <2>1. /\ last' = last + 1
        /\ item' = [item EXCEPT ![last + 1] = [kind |-> kind, pub |-> p, hash |-> Hash[p]]]
        /\ alive' = alive \cup {last + 1}
        /\ pkey' = [d \in Id |-> IF d \in Unlinked(c, p) THEN last + 1 ELSE pkey[d]]
        /\ store' = [store EXCEPT ![c] = @ \cup {last + 1}]
        /\ shown' = [shown EXCEPT ![c] = @ \cup {last + 1}]
        /\ link' = [link EXCEPT ![c] = [d \in Id |-> IF d \in Unlinked(c, p) THEN last + 1 ELSE @[d]]]
        /\ overtaken' \in BOOLEAN /\ hung' = hung
        /\ behind' = Outdated(c)
        /\ kept' = kept \cup {last + 1}
        /\ last < MaxId
    BY <1>6 DEF InsertKeyPKI, Types, TypeOK, db
  <2>2. last + 1 \in Id /\ Present' = Present \cup {last + 1} /\ last + 1 \notin Present
    BY <2>1, Ranges DEF Present, Id
  <2>3. item' \in [Id -> Item \cup {NoItem}]
    BY <2>1, <2>2 DEF Types, TypeOK, Item, Kind
  <2>4. \A i \in Id : i \in Present' <=> item'[i] # NoItem
    BY <2>1, <2>2 DEF Types, TypeOK, NoItem
  <2>5. Docs \subseteq Docs'
    BY <1>1, <2>1, <2>2, SameItems DEF Docs, Types, TypeOK
  <2>6. \A d \in Id : pkey'[d] # None => d \in Docs'
    BY <2>1, <2>5, <1>4 DEF Types, TypeOK
  <2>7. shown' \in [Client -> SUBSET Present'] /\ \A b \in Client : shown'[b] \subseteq store'[b]
    BY <2>1, <2>2 DEF Types, TypeOK
  <2>8. /\ pkey' \in [Id -> Id \cup {None}] /\ link' \in [Client -> [Id -> Id \cup {None}]]
        /\ store' \in [Client -> SUBSET Present']
    BY <2>1, <2>2 DEF Types, TypeOK
  <2>9. \A k \in kept' : IsKey(k)'
    <3>1. SUFFICES ASSUME NEW k \in kept'
                   PROVE  IsKey(k)'
      OBVIOUS
    <3>2. CASE k \in kept
      BY <1>1, <3>2, SameItems DEF Types, TypeOK
    <3>3. CASE k = last + 1
      <4>1. k \in Present' /\ item'[k].kind = kind
        BY <2>1, <2>2, <3>3 DEF Types, TypeOK
      <4> QED BY <4>1 DEF IsKey
    <3> QED BY <2>1, <3>1, <3>2, <3>3
  <2> QED BY <1>3, <2>1, <2>2, <2>3, <2>4, <2>6, <2>7, <2>8, <2>9 DEF Types, TypeOK, Outdated
<1> QED BY <1>5, <1>6

LEMMA TypesDelete ==
  ASSUME Types, NEW c \in Client, NEW k, IsKey(k), DeleteKeyPKI(c, k),
         kept' \subseteq kept,
         \/ completing' = completing
         \/ completing[c] # Idle /\ completing' = [completing EXCEPT ![c].phase = "deleted"]
  PROVE  Types'
<1>1. ItemsStay
  BY ItemsStayDelete
<1>2. completing' = [b \in Client |-> completing'[b]] /\ \A b \in Client : CompletingStep(b)
  BY Ranges DEF CompletingStep
<1>3. Completable' /\ completing' \in [Client -> Completing]
  BY <1>1, <1>2, CompletableStays
<1>4. Docs' = Docs
  BY SameDocs DEF DeleteKeyPKI, Docs
<1>5. pkey' \in [Id -> Id \cup {None}] /\ \A d \in Id : pkey'[d] # None => d \in Docs'
  BY <1>4 DEF DeleteKeyPKI, PkeyAfter, Types, TypeOK
<1>6. link' \in [Client -> [Id -> Id \cup {None}]]
  BY DEF DeleteKeyPKI, LinkAfter, Types, TypeOK
<1>7. Present' = Present /\ alive' \subseteq alive /\ behind' \in [Client -> BOOLEAN]
  BY DEF DeleteKeyPKI, Types, TypeOK, Present, Outdated
<1>8. store' \in [Client -> SUBSET Present'] /\ shown' \in [Client -> SUBSET Present'] /\ \A b \in Client : shown'[b] \subseteq store'[b]
  <2>1. store' = [store EXCEPT ![c] = @ \ {k}] /\ shown' = [shown EXCEPT ![c] = @ \ {k}]
    BY DEF DeleteKeyPKI, RemFromCont
  <2>2. store \in [Client -> SUBSET Present] /\ shown \in [Client -> SUBSET Present] /\ \A b \in Client : shown[b] \subseteq store[b]
    BY DEF Types, TypeOK
  <2>3. store' \in [Client -> SUBSET Present'] /\ shown' \in [Client -> SUBSET Present']
    BY <1>7, <2>1, <2>2
  <2> QED BY <2>1, <2>2, <2>3
<1>9. \A j \in kept' : IsKey(j)'
  BY <1>1, KeptTyped
<1> QED BY <1>3, <1>5, <1>6, <1>7, <1>8, <1>9 DEF DeleteKeyPKI, Types, TypeOK, Present

LEMMA ReferenceTyped ==
  ASSUME Types, NEW c \in Client, NEW p \in Pub, NEW copied \in Id \cup {None},
         copied # None => IsKey(copied), NEW k \in LookupKey(c, p, copied)
  PROVE  k \in Id \cup {None} /\ (k # None => IsKey(k)) /\ PubHash(p, k) \in Pub
<1>1. Keys \subseteq Id
  BY Ranges
<1>2. k \in Id \cup {None} /\ (k # None => IsKey(k))
  BY <1>1, Zenon DEF LookupKey, Keys
<1>3. \A j \in Id : IsKey(j) => item[j].pub \in Pub
  BY DEF IsKey, Types, TypeOK, Item, NoItem
<1> QED BY <1>2, <1>3 DEF PubHash

LEMMA TypesDoc ==
  ASSUME Types, NEW c \in Client, NEW p \in Pub, NEW copied \in Id \cup {None},
         copied # None => IsKey(copied),
         InsertDocPKI(c, p, copied), overtaken' \in BOOLEAN
  PROVE  Types'
<1> USE BoundAssumption
<1> DEFINE id == last + 1
<1>1. ItemsStay
  BY ItemsStayDoc
<1>2. PICK k \in LookupKey(c, p, copied) :
        /\ pkey' = [pkey EXCEPT ![id] = k]
        /\ link' = [link EXCEPT ![c][id] = k]
        /\ item' = [item EXCEPT ![id] = [kind |-> "x509super", pub |-> p, hash |-> Hash[PubHash(p, k)]]]
  BY DEF InsertDocPKI
<1>3. k \in Id \cup {None} /\ PubHash(p, k) \in Pub
  BY ReferenceTyped
<1>4. /\ last' = id /\ id \in Id /\ Present' = Present \cup {id} /\ id \notin Present
      /\ alive' = alive \cup {id}
      /\ store' = [store EXCEPT ![c] = @ \cup {id}]
      /\ shown' = [shown EXCEPT ![c] = @ \cup {id}]
      /\ behind' = Outdated(c)
      /\ UNCHANGED <<completing, hung, kept>>
  BY DEF InsertDocPKI, Types, TypeOK, Present, Id
<1>5. Completable' /\ completing' \in [Client -> Completing]
  BY <1>1, <1>4, Ranges, CompletableStays DEF CompletingStep
<1> HIDE DEF id
<1>6. item' \in [Id -> Item \cup {NoItem}] /\ \A i \in Id : i \in Present' <=> item'[i] # NoItem
  BY <1>2, <1>3, <1>4 DEF Types, TypeOK, Item, Kind, NoItem
<1>7. Docs \subseteq Docs' /\ id \in Docs'
  <2>1. id \in Present' /\ item'[id].kind = "x509super"
    BY <1>2, <1>4 DEF Types, TypeOK
  <2>2. \A d \in Docs : d \in alive' /\ ~IsKey(d)'
    BY <1>1, <1>4, SameItems, Ranges DEF Docs
  <2>3. id \in alive' /\ (item'[id].kind \notin {"public", "private"})
    BY <1>4, <2>1
  <2> QED BY <2>2, <2>3 DEF Docs, IsKey
<1>8. pkey' \in [Id -> Id \cup {None}] /\ \A d \in Id : pkey'[d] # None => d \in Docs'
  BY <1>2, <1>3, <1>4, <1>7 DEF Types, TypeOK
<1>9. /\ link' \in [Client -> [Id -> Id \cup {None}]] /\ shown' \in [Client -> SUBSET Present']
      /\ store' \in [Client -> SUBSET Present'] /\ \A b \in Client : shown'[b] \subseteq store'[b]
  BY <1>2, <1>3, <1>4 DEF Types, TypeOK
<1>10. last' \in 0..MaxId /\ alive' \subseteq Present' /\ behind' \in [Client -> BOOLEAN]
  BY <1>4 DEF Types, TypeOK, Outdated, Id
<1>11. \A j \in kept' : IsKey(j)'
  BY <1>1, <1>4, KeptTyped
<1> QED BY <1>4, <1>5, <1>6, <1>8, <1>9, <1>10, <1>11 DEF Types, TypeOK

LEMMA RefKeyTyped ==
  ASSUME Types, NEW c \in Client, NEW S, S \subseteq Present, NEW i
  PROVE  LookupPki(S, i) \in Id \cup {None} /\ (LookupPki(S, i) # None => LookupPki(S, i) = i /\ i \in S /\ IsKey(i))
BY Ranges DEF LookupPki

LEMMA ResolvedTyped ==
  ASSUME Types, NEW c \in Client, NEW S, S \subseteq Present
  PROVE  Resolved(S, c) \in [Id -> Id \cup {None}]
BY RefKeyTyped DEF Resolved

LEMMA TypesNext ==
  ASSUME Types, [Next]_vars
  PROVE  Types'
<1> USE BoundAssumption
<1>0. ItemsStay /\ store \in [Client -> SUBSET Present] /\ shown \in [Client -> SUBSET Present]
      /\ link \in [Client -> [Id -> Id \cup {None}]] /\ overtaken \in BOOLEAN
  BY ItemsStayNext DEF Types, TypeOK
<1>1. CASE UNCHANGED vars
  BY <1>1 DEF vars, db, memory, history, Types, TypeOK, Completable, Present, Docs, IsKey, Compare
<1>2. ASSUME NEW c \in Client, NEW p \in Pub, NEW kind \in {"public", "private"},
             InsertKey(c, kind, p) \/ Complete(c, kind, p)
      PROVE  Types'
  <2>1. CASE InsertKey(c, kind, p)
    BY <2>1, TypesInsert DEF InsertKey
  <2>2. CASE Complete(c, kind, p)
    <3>1. PICK old \in GetByReference(c, p) :
            /\ item[old].kind = "public" /\ kind = "private"
            /\ completing' = [completing EXCEPT ![c] =
                 [phase |-> "told", key |-> old, kind |-> kind, pub |-> p]]
      BY <2>2 DEF Complete
    <3>2. old \in Id /\ IsKey(old) /\ item[old].pub = p
      BY Ranges DEF GetByReference, Keys, Compare
    <3>3. UNCHANGED <<last, item, alive, pkey, store, shown, link, overtaken, behind, hung, kept>>
      BY <2>2 DEF Complete, db, history
    <3>4. completing' \in [Client -> Completing]
      BY <3>1, <3>2, Ranges DEF Completing, Kind
    <3>5. Completable'
      BY <3>1, <3>2, <3>3, Ranges DEF Types, Completable, Compare, IsKey, Present, Idle
    <3> QED BY <3>3, <3>4, <3>5 DEF Types, TypeOK, Present, Docs, IsKey
  <2> QED BY <1>2, <2>1, <2>2
<1>3. ASSUME NEW c \in Client, NEW p \in Pub, InsertDoc(c, p)
      PROVE  Types'
  <2>1. overtaken' \in BOOLEAN
    BY <1>0, <1>3 DEF InsertDoc, Knows
  <2>2. InsertDocPKI(c, p, None)
    BY <1>3 DEF InsertDoc
  <2> QED BY <2>1, <2>2, TypesDoc
<1>4. ASSUME NEW c \in Client, CompleteDelete(c) \/ CompleteInsert(c)
      PROVE  Types'
  <2>1. completing[c] # Idle
    BY <1>4 DEF CompleteDelete, CompleteInsert, Idle
  <2>2. CASE CompleteDelete(c)
    <3>1. IsKey(completing[c].key) /\ DeleteKeyPKI(c, completing[c].key)
      BY <2>1, <2>2, CompletingTyped DEF CompleteDelete
    <3> QED BY <2>1, <2>2, <3>1, TypesDelete DEF CompleteDelete
  <2>3. CASE CompleteInsert(c)
    <3>1. completing[c].pub \in Pub /\ completing[c].kind \in {"public", "private"}
      BY <2>1, CompletingTyped
    <3> QED BY <2>3, <3>1, TypesInsert DEF CompleteInsert
  <2> QED BY <1>4, <2>2, <2>3
<1>5. ASSUME NEW c \in Client, NEW i \in Id, DeleteKey(c, i) \/ DeleteDoc(c, i) \/ Renew(c, i)
      PROVE  Types'
  <2>1. CASE DeleteKey(c, i)
    <3>1. IsKey(i) /\ DeleteKeyPKI(c, i) /\ completing' = completing /\ kept' \subseteq kept
      BY <2>1 DEF DeleteKey
    <3> QED BY <3>1, TypesDelete
  <2>2. CASE DeleteDoc(c, i)
    <3>1. /\ UNCHANGED <<last, item, completing, overtaken, hung, kept>>
          /\ store' = [store EXCEPT ![c] = @ \ {i}]
          /\ shown' = [shown EXCEPT ![c] = @ \ {i}]
          /\ link' = [link EXCEPT ![c][i] = None]
          /\ \/ alive' = alive \ {i} /\ pkey' = [pkey EXCEPT ![i] = None]
             \/ UNCHANGED <<alive, pkey>>
      BY <2>2 DEF DeleteDoc, RemFromCont
    <3>2. behind' \in [Client -> BOOLEAN]
      BY <2>2 DEF DeleteDoc, Outdated, Types, TypeOK
    <3>3. Present' = Present /\ \A j : IsKey(j)' = IsKey(j)
      BY <3>1 DEF Present, IsKey
    <3>4. pkey' \in [Id -> Id \cup {None}] /\ \A d \in Id : pkey'[d] # None => d \in Docs'
      BY <3>1, <3>3 DEF Types, TypeOK, Docs
    <3>5. /\ store' \in [Client -> SUBSET Present'] /\ shown' \in [Client -> SUBSET Present']
          /\ \A b \in Client : shown'[b] \subseteq store'[b]
      BY <3>1, <3>3 DEF Types, TypeOK
    <3>6. link' \in [Client -> [Id -> Id \cup {None}]]
      BY <1>0, <3>1
    <3>7. Completable'
      BY <3>1, <3>3 DEF Types, Completable, Compare
    <3> QED BY <3>1, <3>2, <3>3, <3>4, <3>5, <3>6, <3>7 DEF Types, TypeOK
  <2>3. CASE Renew(c, i)
    <3>1. item[i].pub \in Pub
      BY <2>3 DEF Renew, Types, TypeOK, Item, NoItem
    <3>2. GetRefKey(c, i) \in Id \cup {None} /\ (GetRefKey(c, i) # None => IsKey(GetRefKey(c, i)))
      BY <1>0, RefKeyTyped DEF GetRefKey
    <3>3. InsertDocPKI(c, item[i].pub, GetRefKey(c, i)) /\ overtaken' \in BOOLEAN
      BY <1>0, <2>3 DEF Renew, Knows
    <3> QED BY <3>1, <3>2, <3>3, TypesDoc
  <2> QED BY <1>5, <2>1, <2>2, <2>3
<1>6. ASSUME NEW c \in Client, ReloadKeys(c) \/ ReloadDocs(c) \/ Restart(c)
      PROVE  Types'
  <2>1. /\ UNCHANGED <<last, item, alive, pkey, overtaken, hung>>
        /\ kept' \subseteq kept
    BY <1>6 DEF ReloadKeys, ReloadDocs, Restart, db, history
  <2>2. Present' = Present /\ Docs' = Docs
    BY <2>1 DEF Present, Docs, IsKey
  <2>3. /\ store' \in [Client -> SUBSET Present] /\ shown' \in [Client -> SUBSET Present]
        /\ \A b \in Client : shown'[b] \subseteq store'[b]
    <3>1. CASE ReloadKeys(c)
      BY <3>1, <1>0, Ranges DEF ReloadKeys, Types, TypeOK
    <3>2. CASE ReloadDocs(c)
      <4>1. /\ store' = [store EXCEPT ![c] = @ \cup Docs]
            /\ shown' = [shown EXCEPT ![c] = {k \in @ : IsKey(k)} \cup Docs]
        BY <3>2 DEF ReloadDocs
      <4>2. Docs \subseteq Present /\ \A b \in Client : shown[b] \subseteq store[b]
        BY Ranges DEF Types, TypeOK
      <4> QED BY <1>0, <4>1, <4>2
    <3>3. CASE Restart(c)
      BY <3>3, <1>0, Ranges DEF Restart, Types, TypeOK
    <3> QED BY <1>6, <3>1, <3>2, <3>3
  <2>4. link' \in [Client -> [Id -> Id \cup {None}]]
    <3>1. CASE ReloadKeys(c) \/ ReloadDocs(c)
      <4>1. link' = [link EXCEPT ![c] = Resolved(store'[c], c)] /\ store'[c] \subseteq Present
        BY <2>3, <3>1 DEF ReloadKeys, ReloadDocs
      <4>2. Resolved(store'[c], c) \in [Id -> Id \cup {None}]
        BY <4>1, ResolvedTyped
      <4> QED BY <1>0, <4>1, <4>2
    <3>2. CASE Restart(c)
      <4>1. \A d \in Id : LookupPki(alive, pkey[d]) \in Id \cup {None}
        BY RefKeyTyped, Ranges
      <4>2. [d \in Id |-> IF d \in Docs THEN LookupPki(alive, pkey[d]) ELSE None] \in [Id -> Id \cup {None}]
        BY <4>1
      <4> QED BY <1>0, <3>2, <4>2 DEF Restart
    <3> QED BY <1>6, <3>1, <3>2
  <2>5. behind' \in [Client -> BOOLEAN]
    BY <1>6 DEF ReloadKeys, ReloadDocs, Restart, history, Types, TypeOK
  <2>6. completing' = [b \in Client |-> completing'[b]] /\ \A b \in Client : CompletingStep(b)
    <3>1. CASE ReloadKeys(c)
      <4>1. completing' = [completing EXCEPT ![c] =
              IF completing[c].phase = "told" THEN [completing[c] EXCEPT !.phase = "doomed"] ELSE completing[c]]
        BY <3>1 DEF ReloadKeys
      <4>2. completing[c].phase = "told" => completing[c] # Idle
        BY DEF Idle
      <4>3. CompletingStep(c)
        BY <4>1, <4>2, Ranges DEF CompletingStep
      <4>4. \A b \in Client \ {c} : CompletingStep(b)
        BY <4>1, Ranges DEF CompletingStep
      <4> QED BY <4>1, <4>3, <4>4, Ranges
    <3>2. CASE ReloadDocs(c) \/ Restart(c)
      BY <3>2, Ranges DEF ReloadDocs, Restart, CompletingStep
    <3> QED BY <1>6, <3>1, <3>2
  <2>7. Completable' /\ completing' \in [Client -> Completing]
    BY <1>0, <2>6, CompletableStays
  <2>8. \A k \in kept' : IsKey(k)'
    BY <1>0, <2>1, KeptTyped
  <2> QED BY <2>1, <2>2, <2>3, <2>4, <2>5, <2>7, <2>8 DEF Types, TypeOK
<1> QED BY <1>1, <1>2, <1>3, <1>4, <1>5, <1>6, Steps

------------------------------------------------------------------------------
(* References.                                                             *)

LEMMA OwnStays ==
  ASSUME Types, ItemsStay
  PROVE  \A d, k : Own(d, k) => Own(d, k)'
BY SameItems DEF Own, Compare

\* The item a successful insertion adds.
LEMMA InsertedKey ==
  ASSUME Types, NEW c \in Client, NEW kind \in {"public", "private"}, NEW p \in Pub,
         InsertKeyPKI(c, kind, p), last' # last, NEW id, id = last + 1
  PROVE  /\ last' = id /\ id \in Id /\ id \notin Present
         /\ item'[id] = [kind |-> kind, pub |-> p, hash |-> Hash[p]]
         /\ IsKey(id)'
         /\ alive' = alive \cup {id}
         /\ Keys' = Keys \cup {id} /\ Docs' = Docs
         /\ pkey' = [d \in Id |-> IF d \in Unlinked(c, p) THEN id ELSE pkey[d]]
         /\ store' = [store EXCEPT ![c] = @ \cup {id}]
         /\ shown' = [shown EXCEPT ![c] = @ \cup {id}]
         /\ link' = [link EXCEPT ![c] = [d \in Id |-> IF d \in Unlinked(c, p) THEN id ELSE @[d]]]
         /\ overtaken' = (overtaken \/ ~Knows(c, p))
         /\ behind' = Outdated(c)
         /\ kept' = kept \cup {id}
         /\ hung' = hung
<1>1. /\ last' = id /\ last < MaxId
      /\ item' = [item EXCEPT ![id] = [kind |-> kind, pub |-> p, hash |-> Hash[p]]]
      /\ alive' = alive \cup {id}
      /\ pkey' = [d \in Id |-> IF d \in Unlinked(c, p) THEN id ELSE pkey[d]]
      /\ store' = [store EXCEPT ![c] = @ \cup {id}]
      /\ shown' = [shown EXCEPT ![c] = @ \cup {id}]
      /\ link' = [link EXCEPT ![c] = [d \in Id |-> IF d \in Unlinked(c, p) THEN id ELSE @[d]]]
      /\ overtaken' = (overtaken \/ ~Knows(c, p))
      /\ behind' = Outdated(c)
      /\ kept' = kept \cup {id} /\ hung' = hung
  BY DEF InsertKeyPKI, db
<1>2. id \in Id /\ id \in 1..last'
  BY <1>1, Ranges, BoundAssumption DEF Id
<1>3. item'[id] = [kind |-> kind, pub |-> p, hash |-> Hash[p]]
  BY <1>1, <1>2 DEF Types, TypeOK
<1>4. id \in Present' /\ item'[id].kind = kind
  BY <1>2, <1>3 DEF Present
<1>5. IsKey(id)'
  BY <1>4 DEF IsKey
<1>6. \A i \in alive : IsKey(i)' = IsKey(i)
  BY ItemsStayInsert, SameItems, Ranges
<1>7. Keys' = Keys \cup {id} /\ Docs' = Docs
  BY <1>1, <1>5, <1>6 DEF Keys, Docs
<1> QED BY <1>1, <1>2, <1>3, <1>5, <1>7, Ranges

LEMMA NotInserted ==
  ASSUME Types, NEW c \in Client, NEW kind, NEW p \in Pub,
         InsertKeyPKI(c, kind, p), last' = last
  PROVE  /\ UNCHANGED <<last, item, alive, pkey, store, shown, overtaken>>
         /\ \/ link' = link
            \/ link' = [link EXCEPT ![c] = [d \in Id |-> IF d \in Unlinked(c, p) THEN last + 1 ELSE @[d]]]
         /\ behind' = [behind EXCEPT ![c] = @ \/ link' # link]
         /\ hung' = (hung \/ link' # link)
         /\ kept' = IF completing[c] = Idle THEN kept ELSE kept \ {completing[c].key}
BY Ranges DEF InsertKeyPKI, db

LEMMA OwnInsert ==
  ASSUME Types, OwnLinks, NEW c \in Client, NEW kind \in {"public", "private"}, NEW p \in Pub,
         InsertKeyPKI(c, kind, p)
  PROVE  OwnLinks'
<1> SUFFICES ASSUME ~hung'
             PROVE  OwnLinks'
  BY DEF OwnLinks
<1>1. ItemsStay /\ link \in [Client -> [Id -> Id \cup {None}]]
  BY ItemsStayInsert DEF Types, TypeOK
<1>2. CASE last' = last
  <2>1. ~hung /\ link' = link /\ pkey' = pkey
    BY <1>2, NotInserted
  <2> QED BY <1>1, <2>1, OwnStays DEF OwnLinks
<1>3. CASE last' # last
  <2>0. PICK id : id = last + 1
    OBVIOUS
  <2>1. /\ ~hung
        /\ item'[id] = [kind |-> kind, pub |-> p, hash |-> Hash[p]]
        /\ IsKey(id)' /\ Docs' = Docs
        /\ pkey' = [d \in Id |-> IF d \in Unlinked(c, p) THEN id ELSE pkey[d]]
        /\ link' = [link EXCEPT ![c] = [d \in Id |-> IF d \in Unlinked(c, p) THEN id ELSE @[d]]]
    BY <1>3, <2>0, InsertedKey
  <2>2. \A d \in Unlinked(c, p) : Own(d, id)'
    <3>1. SUFFICES ASSUME NEW d \in Unlinked(c, p)
                   PROVE  Own(d, id)'
      OBVIOUS
    <3>2. d \in Docs /\ item[d].pub = p
      BY DEF Unlinked, Compare
    <3>3. d \in Docs' /\ item'[d].pub = p /\ d \in Present'
      BY <1>1, <2>1, <3>2, SameItems, Ranges
    <3>4. IsKey(id)' /\ item'[id].pub = p
      BY <2>1
    <3>5. ~IsKey(d)'
      BY <3>3 DEF Docs
    <3> QED BY <3>3, <3>4, <3>5 DEF Own, Compare
  <2>3. \A d \in Id : (pkey[d] # None => Own(d, pkey[d]))'
    <3>1. SUFFICES ASSUME NEW d \in Id, NEW k, pkey'[d] = k, k # None
                   PROVE  Own(d, k)'
      OBVIOUS
    <3>2. (k = id /\ d \in Unlinked(c, p)) \/ k = pkey[d]
      BY <2>1, <3>1
    <3> QED BY <1>1, <2>1, <2>2, <3>1, <3>2, OwnStays DEF OwnLinks
  <2>4. \A b \in Client, d \in Id : (link[b][d] # None => Own(d, link[b][d]))'
    <3>1. SUFFICES ASSUME NEW b \in Client, NEW d \in Id, NEW k, link'[b][d] = k, k # None
                   PROVE  Own(d, k)'
      OBVIOUS
    <3>2. (k = id /\ d \in Unlinked(c, p)) \/ k = link[b][d]
      BY <1>1, <2>1, <3>1
    <3> QED BY <1>1, <2>1, <2>2, <3>1, <3>2, OwnStays DEF OwnLinks
  <2> QED BY <2>3, <2>4 DEF OwnLinks
<1> QED BY <1>2, <1>3

LEMMA OwnDelete ==
  ASSUME Types, OwnLinks, NEW c \in Client, NEW k, DeleteKeyPKI(c, k)
  PROVE  OwnLinks'
<1> SUFFICES ASSUME ~hung
             PROVE  OwnLinks'
  BY DEF OwnLinks, DeleteKeyPKI
<1>1. ItemsStay /\ link \in [Client -> [Id -> Id \cup {None}]]
  BY ItemsStayDelete DEF Types, TypeOK
<1>2. \A d \in Id : pkey'[d] = pkey[d] \/ pkey'[d] = None
  BY DEF DeleteKeyPKI, PkeyAfter
<1>3. \A b \in Client, d \in Id : link'[b][d] = link[b][d] \/ link'[b][d] = None
  BY <1>1 DEF DeleteKeyPKI, LinkAfter
<1>4. \A d \in Id : (pkey[d] # None => Own(d, pkey[d]))'
  BY <1>1, <1>2, OwnStays DEF OwnLinks
<1>5. \A b \in Client, d \in Id : (link[b][d] # None => Own(d, link[b][d]))'
  <2>1. SUFFICES ASSUME NEW b \in Client, NEW d \in Id, NEW j, link'[b][d] = j, j # None
                 PROVE  Own(d, j)'
    OBVIOUS
  <2> QED BY <1>1, <1>3, <2>1, OwnStays DEF OwnLinks
<1> QED BY <1>4, <1>5 DEF OwnLinks

LEMMA InsertedDoc ==
  ASSUME Types, NEW c \in Client, NEW p \in Pub, NEW copied, InsertDocPKI(c, p, copied),
         NEW id, id = last + 1
  PROVE  /\ last' = id /\ id \in Id /\ id \notin Present
         /\ \E k \in LookupKey(c, p, copied) :
              /\ pkey' = [pkey EXCEPT ![id] = k]
              /\ link' = [link EXCEPT ![c][id] = k]
              /\ item'[id] = [kind |-> "x509super", pub |-> p, hash |-> Hash[PubHash(p, k)]]
         /\ id \in Present' /\ ~IsKey(id)'
         /\ alive' = alive \cup {id}
         /\ Keys' = Keys /\ Docs' = Docs \cup {id}
         /\ store' = [store EXCEPT ![c] = @ \cup {id}]
         /\ shown' = [shown EXCEPT ![c] = @ \cup {id}]
         /\ behind' = Outdated(c)
         /\ UNCHANGED <<completing, hung, kept>>
<1>1. /\ last' = id /\ last < MaxId
      /\ alive' = alive \cup {id}
      /\ store' = [store EXCEPT ![c] = @ \cup {id}]
      /\ shown' = [shown EXCEPT ![c] = @ \cup {id}]
      /\ behind' = Outdated(c)
      /\ UNCHANGED <<completing, hung, kept>>
  BY DEF InsertDocPKI
<1>2. id \in Id /\ id \in 1..last'
  BY <1>1, Ranges, BoundAssumption DEF Id
<1>3. PICK k \in LookupKey(c, p, copied) :
        /\ pkey' = [pkey EXCEPT ![id] = k]
        /\ link' = [link EXCEPT ![c][id] = k]
        /\ item' = [item EXCEPT ![id] = [kind |-> "x509super", pub |-> p, hash |-> Hash[PubHash(p, k)]]]
  BY DEF InsertDocPKI
<1>4. item'[id] = [kind |-> "x509super", pub |-> p, hash |-> Hash[PubHash(p, k)]]
  BY <1>2, <1>3 DEF Types, TypeOK
<1>5. id \in Present' /\ ~IsKey(id)'
  BY <1>2, <1>4 DEF Present, IsKey
<1>6. \A i \in alive : IsKey(i)' = IsKey(i)
  BY ItemsStayDoc, SameItems, Ranges
<1>7. Keys' = Keys /\ Docs' = Docs \cup {id}
  BY <1>1, <1>5, <1>6 DEF Keys, Docs
<1>8. /\ last' = id /\ id \in Id /\ id \notin Present
      /\ id \in Present' /\ ~IsKey(id)'
  BY <1>1, <1>2, <1>5, Ranges
<1> QED BY <1>1, <1>3, <1>4, <1>7, <1>8

LEMMA OwnDoc ==
  ASSUME Types, OwnLinks, NEW c \in Client, NEW p \in Pub, NEW copied \in Id \cup {None},
         ~hung /\ copied # None => IsKey(copied) /\ Compare(copied, p),
         InsertDocPKI(c, p, copied)
  PROVE  OwnLinks'
<1>1. PICK id : id = last + 1
  OBVIOUS
<1>2. PICK k \in LookupKey(c, p, copied) :
        /\ pkey' = [pkey EXCEPT ![id] = k]
        /\ link' = [link EXCEPT ![c][id] = k]
        /\ item'[id] = [kind |-> "x509super", pub |-> p, hash |-> Hash[PubHash(p, k)]]
  BY <1>1, InsertedDoc
<1>3. /\ id \in Id /\ id \in Present' /\ ~IsKey(id)' /\ hung' = hung
  BY <1>1, InsertedDoc
<1>4. ItemsStay /\ link \in [Client -> [Id -> Id \cup {None}]] /\ pkey \in [Id -> Id \cup {None}]
  BY ItemsStayDoc DEF Types, TypeOK
<1> SUFFICES ASSUME ~hung
             PROVE  OwnLinks'
  BY <1>3 DEF OwnLinks
<1>5. k # None => IsKey(k) /\ Compare(k, p)
  BY DEF LookupKey, Keys
<1>6. k # None => IsKey(k)' /\ item'[k].pub = p
  BY <1>4, <1>5, SameItems DEF Compare
<1>7. k # None => Own(id, k)'
  BY <1>2, <1>3, <1>6 DEF Own, Compare
<1>8. \A d \in Id : (pkey[d] # None => Own(d, pkey[d]))'
  <2>1. SUFFICES ASSUME NEW d \in Id, NEW j, pkey'[d] = j, j # None
                 PROVE  Own(d, j)'
    OBVIOUS
  <2>2. (d = id /\ j = k) \/ j = pkey[d]
    BY <1>2, <1>4, <2>1
  <2> QED BY <1>4, <1>7, <2>1, <2>2, OwnStays DEF OwnLinks
<1>9. \A b \in Client, d \in Id : (link[b][d] # None => Own(d, link[b][d]))'
  <2>1. SUFFICES ASSUME NEW b \in Client, NEW d \in Id, NEW j, link'[b][d] = j, j # None
                 PROVE  Own(d, j)'
    OBVIOUS
  <2>2. (d = id /\ j = k) \/ j = link[b][d]
    BY <1>2, <1>4, <2>1
  <2> QED BY <1>4, <1>7, <2>1, <2>2, OwnStays DEF OwnLinks
<1> QED BY <1>8, <1>9 DEF OwnLinks

LEMMA OwnNext ==
  ASSUME Types, OwnLinks, [Next]_vars
  PROVE  OwnLinks'
<1>0. ItemsStay /\ store \in [Client -> SUBSET Present]
      /\ link \in [Client -> [Id -> Id \cup {None}]] /\ pkey \in [Id -> Id \cup {None}]
  BY ItemsStayNext DEF Types, TypeOK
\* A step that changes references only to what they or their rows were, or to NULL.
<1>a. ASSUME hung' = hung,
             \A d \in Id : pkey'[d] \in {pkey[d], None},
             \A b \in Client, d \in Id : link'[b][d] \in {link[b][d], pkey[d], None}
      PROVE  OwnLinks'
  <2> SUFFICES ASSUME ~hung
               PROVE  OwnLinks'
    BY <1>a DEF OwnLinks
  <2>1. \A d \in Id : (pkey[d] # None => Own(d, pkey[d]))'
    <3>1. SUFFICES ASSUME NEW d \in Id, NEW j, pkey'[d] = j, j # None
                   PROVE  Own(d, j)'
      OBVIOUS
    <3> QED BY <1>0, <1>a, <3>1, OwnStays DEF OwnLinks
  <2>2. \A b \in Client, d \in Id : (link[b][d] # None => Own(d, link[b][d]))'
    <3>1. SUFFICES ASSUME NEW b \in Client, NEW d \in Id, NEW j, link'[b][d] = j, j # None
                   PROVE  Own(d, j)'
      OBVIOUS
    <3> QED BY <1>0, <1>a, <3>1, OwnStays DEF OwnLinks
  <2> QED BY <2>1, <2>2 DEF OwnLinks
<1>1. CASE UNCHANGED vars
  BY <1>1, <1>a DEF vars, db, memory, history
<1>2. ASSUME NEW c \in Client, NEW p \in Pub, NEW kind \in {"public", "private"},
             InsertKey(c, kind, p) \/ Complete(c, kind, p)
      PROVE  OwnLinks'
  <2>1. CASE InsertKey(c, kind, p)
    BY <2>1, OwnInsert DEF InsertKey
  <2>2. CASE Complete(c, kind, p)
    BY <2>2, <1>a DEF Complete, db, history
  <2> QED BY <1>2, <2>1, <2>2
<1>3. ASSUME NEW c \in Client, NEW p \in Pub, InsertDoc(c, p)
      PROVE  OwnLinks'
  <2>1. InsertDocPKI(c, p, None)
    BY <1>3 DEF InsertDoc
  <2> QED BY <2>1, OwnDoc
<1>4. ASSUME NEW c \in Client, CompleteDelete(c) \/ CompleteInsert(c)
      PROVE  OwnLinks'
  <2>1. completing[c] # Idle
    BY <1>4 DEF CompleteDelete, CompleteInsert, Idle
  <2>2. CASE CompleteDelete(c)
    BY <2>2, OwnDelete DEF CompleteDelete
  <2>3. CASE CompleteInsert(c)
    <3>1. completing[c].pub \in Pub /\ completing[c].kind \in {"public", "private"}
      BY <2>1, CompletingTyped
    <3> QED BY <2>3, <3>1, OwnInsert DEF CompleteInsert
  <2> QED BY <1>4, <2>2, <2>3
<1>5. ASSUME NEW c \in Client, NEW i \in Id, DeleteKey(c, i) \/ DeleteDoc(c, i) \/ Renew(c, i)
      PROVE  OwnLinks'
  <2>1. CASE DeleteKey(c, i)
    BY <2>1, OwnDelete DEF DeleteKey
  <2>2. CASE DeleteDoc(c, i)
    BY <1>0, <2>2, <1>a DEF DeleteDoc
  <2>3. CASE Renew(c, i)
    <3>1. item[i].pub \in Pub
      BY <2>3 DEF Renew, Types, TypeOK, Item, NoItem
    <3>2. /\ GetRefKey(c, i) \in Id \cup {None}
          /\ GetRefKey(c, i) # None => GetRefKey(c, i) = link[c][i]
      BY <1>0, RefKeyTyped DEF GetRefKey
    <3>3. ~hung /\ GetRefKey(c, i) # None => IsKey(GetRefKey(c, i)) /\ Compare(GetRefKey(c, i), item[i].pub)
      BY <3>2 DEF OwnLinks, Own
    <3>4. InsertDocPKI(c, item[i].pub, GetRefKey(c, i))
      BY <2>3 DEF Renew
    <3> QED BY <3>1, <3>2, <3>3, <3>4, OwnDoc
  <2> QED BY <1>5, <2>1, <2>2, <2>3
<1>6. ASSUME NEW c \in Client, ReloadKeys(c) \/ ReloadDocs(c) \/ Restart(c)
      PROVE  OwnLinks'
  <2>1. hung' = hung /\ pkey' = pkey
    BY <1>6 DEF ReloadKeys, ReloadDocs, Restart, db, history
  <2>2. \A S : \A d \in Id : Resolved(S, c)[d] \in {link[c][d], pkey[d], None}
    BY DEF Resolved, LookupPki
  <2>3. \A b \in Client, d \in Id : link'[b][d] \in {link[b][d], pkey[d], None}
    <3>1. CASE ReloadKeys(c) \/ ReloadDocs(c)
      <4>1. link' = [link EXCEPT ![c] = Resolved(store'[c], c)]
        BY <3>1 DEF ReloadKeys, ReloadDocs
      <4> QED BY <1>0, <2>2, <4>1
    <3>2. CASE Restart(c)
      BY <1>0, <3>2 DEF Restart, LookupPki
    <3> QED BY <1>6, <3>1, <3>2
  <2> QED BY <1>a, <2>1, <2>3
<1> QED BY <1>1, <1>2, <1>3, <1>4, <1>5, <1>6, Steps

LEMMA OwnKeyOnlyFollows ==
  ASSUME Types, OwnLinks
  PROVE  OwnKeyOnly
<1>1. SUFFICES ASSUME ~hung, NEW c \in Client, NEW d \in shown[c], ~IsKey(d), GetRefKey(c, d) # None
               PROVE  item[GetRefKey(c, d)].pub = item[d].pub
  BY DEF OwnKeyOnly
<1>2. d \in Id /\ store[c] \subseteq Present
  BY Ranges DEF Types, TypeOK
<1>3. GetRefKey(c, d) = link[c][d]
  BY <1>1, <1>2, RefKeyTyped DEF GetRefKey
<1> QED BY <1>1, <1>2, <1>3 DEF OwnLinks, Own, Compare

------------------------------------------------------------------------------
(* Links as they are stored.                                               *)

LEMMA SoundSame ==
  ASSUME Types, Sound, UNCHANGED db,
         \A b \in Client : completing'[b].phase \in {"told", "deleted"} =>
           completing'[b] = completing[b] /\ store'[b] \cap Keys \subseteq store[b]
  PROVE  Sound'
<1>1. Keys' = Keys /\ Docs' = Docs /\ item' = item /\ pkey' = pkey
  BY DEF db, Keys, Docs, IsKey, Present
<1>2. LinkedIfStored' /\ NoKeyTwice' /\ DocHashes'
  BY <1>1 DEF Sound, LinkedIfStored, NoKeyTwice, DocHashes, KeyFor, Compare, SameHash
<1>3. Completes'
  BY <1>1 DEF Sound, Completes, Compare
<1> QED BY <1>2, <1>3 DEF Sound

LEMMA SoundInsert ==
  ASSUME Types, KeyHashes, Sound, NEW c \in Client, NEW kind \in {"public", "private"}, NEW p \in Pub,
         InsertKeyPKI(c, kind, p), last' # last, ~overtaken',
         \A k \in Keys \cap store[c] : ~Compare(k, p),
         completing'[c] = Idle, \A b \in Client \ {c} : completing'[b] = completing[b]
  PROVE  Sound'
<1>1. PICK id : id = last + 1
  OBVIOUS
<1>2. /\ id \in Id /\ id \notin Present
      /\ item'[id] = [kind |-> kind, pub |-> p, hash |-> Hash[p]]
      /\ Keys' = Keys \cup {id} /\ Docs' = Docs
      /\ pkey' = [d \in Id |-> IF d \in Unlinked(c, p) THEN id ELSE pkey[d]]
      /\ store' = [store EXCEPT ![c] = @ \cup {id}]
      /\ overtaken' = (overtaken \/ ~Knows(c, p))
  BY <1>1, InsertedKey
<1>3. Knows(c, p)
  BY <1>2
<1>4. /\ \A i \in Keys \cup Docs : i \in Id /\ i \in alive /\ item'[i] = item[i]
      /\ store \in [Client -> SUBSET Present]
  BY ItemsStayInsert, SameItems, Ranges DEF Types, TypeOK
<1>5. \A k \in Keys : item[k].pub # p
  BY <1>3, <1>4 DEF Knows, Compare
<1>6. \A d \in Docs : item[d].pub = p => d \in Unlinked(c, p)
  <2>1. SUFFICES ASSUME NEW d \in Docs, item[d].pub = p
                 PROVE  d \in Unlinked(c, p)
    OBVIOUS
  <2>2. KeyFor(d) = {}
    BY <1>5, <2>1 DEF KeyFor, Compare
  <2>3. pkey[d] = None /\ SameHash(d, p)
    BY <2>1, <2>2 DEF Sound, LinkedIfStored, DocHashes
  <2>4. d \in store[c]
    BY <1>3, <1>4, <2>1 DEF Knows, Compare
  <2> QED BY <2>1, <2>3, <2>4 DEF Unlinked, Compare
<1>7. \A d \in Unlinked(c, p) : d \in Docs /\ item[d].pub = p
  BY DEF Unlinked, Compare
<1>8. LinkedIfStored'
  <2>1. SUFFICES ASSUME NEW d \in Docs'
                 PROVE  IF KeyFor(d)' = {} THEN pkey'[d] = None ELSE pkey'[d] \in KeyFor(d)'
    BY DEF LinkedIfStored
  <2>2. d \in Docs /\ d \in Id /\ item'[d] = item[d]
    BY <1>2, <1>4, <2>1
  <2>3. KeyFor(d)' = {k \in Keys' : item'[k].pub = item'[d].pub}
    BY DEF KeyFor, Compare
  <2>4. CASE item[d].pub = p
    <3>1. pkey'[d] = id
      BY <1>2, <1>6, <2>2, <2>4
    <3>2. id \in KeyFor(d)'
      BY <1>2, <2>2, <2>3, <2>4
    <3> QED BY <3>1, <3>2
  <2>5. CASE item[d].pub # p
    <3>1. pkey'[d] = pkey[d]
      BY <1>2, <1>7, <2>2, <2>5
    <3>2. KeyFor(d)' = KeyFor(d)
      BY <1>2, <1>4, <2>2, <2>3, <2>5 DEF KeyFor, Compare
    <3> QED BY <2>2, <3>1, <3>2 DEF Sound, LinkedIfStored
  <2> QED BY <2>4, <2>5
<1>9. NoKeyTwice'
  BY <1>2, <1>4, <1>5 DEF Sound, NoKeyTwice
<1>10. Completes'
  <2>1. SUFFICES ASSUME NEW b \in Client, completing'[b].phase \in {"told", "deleted"},
                        NEW k \in Keys' \cap store'[b], item'[k].pub = completing'[b].pub
                 PROVE  completing'[b].phase = "told" /\ k = completing'[b].key
    BY DEF Completes, Compare
  <2>2. b # c
    BY <2>1 DEF Idle
  <2>3. completing'[b] = completing[b] /\ store'[b] = store[b]
    BY <1>2, <1>4, <2>2
  <2>4. k \in Keys \cap store[b] /\ item'[k] = item[k]
    BY <1>2, <1>4, <2>1, <2>3
  <2> QED BY <2>1, <2>3, <2>4 DEF Sound, Completes, Compare
<1>11. DocHashes'
  BY <1>2, <1>4 DEF Sound, DocHashes, SameHash
<1> QED BY <1>8, <1>9, <1>10, <1>11 DEF Sound

LEMMA SoundDelete ==
  ASSUME Types, Sound, NEW c \in Client, NEW k, IsKey(k), DeleteKeyPKI(c, k),
         \/ completing' = completing
         \/ /\ completing[c].phase = "told" /\ completing[c].key = k
            /\ completing' = [completing EXCEPT ![c].phase = "deleted"]
  PROVE  Sound'
<1>1. /\ item' = item /\ Docs' = Docs /\ Keys' = {j \in alive' : IsKey(j)}
      /\ store' = [store EXCEPT ![c] = @ \ {k}]
      /\ \/ alive' = alive \ {k} /\ pkey' = PkeyAfter(k)
         \/ alive' = alive /\ pkey' = pkey
  BY SameDocs DEF DeleteKeyPKI, Docs
<1>2. Keys' = Keys \ {k} \/ Keys' = Keys
  BY <1>1 DEF Keys
<1>3. Docs \subseteq Id /\ store \in [Client -> SUBSET Present]
  BY Ranges DEF Types, TypeOK
<1>4. LinkedIfStored'
  <2>1. CASE alive' = alive /\ pkey' = pkey
    <3>1. Keys' = Keys
      BY <1>1, <2>1 DEF Keys
    <3> QED BY <1>1, <2>1, <3>1 DEF Sound, LinkedIfStored, KeyFor, Compare
  <2>2. CASE alive' = alive \ {k} /\ pkey' = PkeyAfter(k)
    <3>1. SUFFICES ASSUME NEW d \in Docs
                   PROVE  IF KeyFor(d)' = {} THEN pkey'[d] = None ELSE pkey'[d] \in KeyFor(d)'
      BY <1>1 DEF LinkedIfStored
    <3>2. KeyFor(d)' = KeyFor(d) \ {k}
      BY <1>1, <2>2 DEF KeyFor, Compare, Keys
    <3>3. pkey'[d] = IF pkey[d] = k THEN None ELSE pkey[d]
      BY <1>3, <2>2 DEF PkeyAfter
    <3>4. \A j \in KeyFor(d), i \in KeyFor(d) : i = j
      BY DEF Sound, NoKeyTwice, KeyFor, Compare
    <3>5. IF KeyFor(d) = {} THEN pkey[d] = None ELSE pkey[d] \in KeyFor(d)
      BY DEF Sound, LinkedIfStored
    <3> QED BY <3>2, <3>3, <3>4, <3>5
  <2> QED BY <1>1, <2>1, <2>2
<1>5. NoKeyTwice' /\ DocHashes'
  BY <1>1, <1>2 DEF Sound, NoKeyTwice, DocHashes, SameHash
<1>6. Completes'
  <2>1. SUFFICES ASSUME NEW b \in Client, completing'[b].phase \in {"told", "deleted"},
                        NEW j \in Keys' \cap store'[b], item'[j].pub = completing'[b].pub
                 PROVE  completing'[b].phase = "told" /\ j = completing'[b].key
    BY DEF Completes, Compare
  <2>2. j \in Keys \cap store[b]
    BY <1>1, <1>2, <1>3, <2>1
  <2>3. CASE completing'[b] = completing[b]
    BY <1>1, <2>1, <2>2, <2>3 DEF Sound, Completes, Compare
  <2>4. CASE completing'[b] # completing[b]
    <3>1. b = c /\ completing[c].phase = "told" /\ completing[c].key = k
          /\ completing' = [completing EXCEPT ![c].phase = "deleted"]
      BY <2>4, Ranges
    <3>2. completing[c] # Idle
      BY <3>1 DEF Idle
    <3>3. completing'[c].pub = completing[c].pub
      BY <3>1, <3>2, CompletingTyped, Ranges
    <3>4. j = k
      BY <1>1, <2>1, <2>2, <3>1, <3>3 DEF Sound, Completes, Compare
    <3> QED BY <1>1, <1>3, <2>1, <3>1, <3>4
  <2> QED BY <2>3, <2>4
<1> QED BY <1>4, <1>5, <1>6 DEF Sound

LEMMA SoundDoc ==
  ASSUME Types, KeyHashes, Sound, NEW c \in Client, NEW p \in Pub, NEW copied,
         InsertDocPKI(c, p, copied), Knows(c, p),
         copied # None => copied \in Keys /\ Compare(copied, p)
  PROVE  Sound'
<1>1. PICK id : id = last + 1
  OBVIOUS
<1>2. PICK k \in LookupKey(c, p, copied) :
        /\ pkey' = [pkey EXCEPT ![id] = k]
        /\ link' = [link EXCEPT ![c][id] = k]
        /\ item'[id] = [kind |-> "x509super", pub |-> p, hash |-> Hash[PubHash(p, k)]]
  BY <1>1, InsertedDoc
<1>3. /\ id \in Id /\ id \notin Present /\ Keys' = Keys /\ Docs' = Docs \cup {id}
      /\ store' = [store EXCEPT ![c] = @ \cup {id}] /\ completing' = completing
  BY <1>1, InsertedDoc
<1>4. /\ \A i \in Keys \cup Docs : i \in Id /\ i \in Present /\ i \in alive /\ item'[i] = item[i]
      /\ store \in [Client -> SUBSET Present] /\ pkey \in [Id -> Id \cup {None}]
  BY ItemsStayDoc, SameItems, Ranges DEF Types, TypeOK
<1>5. PubHash(p, copied) = p
  BY DEF PubHash, Compare
<1>6. \A j \in Keys : Compare(j, p) => j \in store[c] /\ SameHash(j, p)
  BY <1>4 DEF Knows, KeyHashes, Keys, Compare
<1>7. IF \E j \in Keys : Compare(j, p) THEN k \in Keys /\ Compare(k, p) ELSE k = None
  BY <1>5, <1>6 DEF LookupKey
<1>8. PubHash(p, k) = p
  BY <1>7 DEF PubHash, Compare
<1>9. LinkedIfStored'
  <2>1. SUFFICES ASSUME NEW d \in Docs'
                 PROVE  IF KeyFor(d)' = {} THEN pkey'[d] = None ELSE pkey'[d] \in KeyFor(d)'
    BY DEF LinkedIfStored
  <2>2. KeyFor(d)' = {j \in Keys : item[j].pub = item'[d].pub}
    BY <1>3, <1>4 DEF KeyFor, Compare
  <2>3. CASE d = id
    <3>1. pkey'[d] = k /\ item'[d].pub = p
      BY <1>2, <1>3, <1>4, <2>3
    <3> QED BY <1>7, <2>2, <3>1 DEF Compare
  <2>4. CASE d # id
    <3>1. d \in Docs /\ item'[d] = item[d] /\ pkey'[d] = pkey[d]
      BY <1>2, <1>3, <1>4, <2>1, <2>4
    <3>2. KeyFor(d)' = KeyFor(d)
      BY <2>2, <3>1 DEF KeyFor, Compare
    <3> QED BY <3>1, <3>2 DEF Sound, LinkedIfStored
  <2> QED BY <2>3, <2>4
<1>10. NoKeyTwice'
  BY <1>3, <1>4 DEF Sound, NoKeyTwice
<1>11. Completes'
  <2>1. SUFFICES ASSUME NEW b \in Client, completing[b].phase \in {"told", "deleted"},
                        NEW j \in Keys \cap store'[b], item[j].pub = completing[b].pub
                 PROVE  completing[b].phase = "told" /\ j = completing[b].key
    BY <1>3, <1>4 DEF Completes, Compare
  <2>2. j \in store[b]
    BY <1>3, <1>4, <2>1
  <2> QED BY <2>1, <2>2 DEF Sound, Completes, Compare
<1>12. DocHashes'
  BY <1>2, <1>3, <1>4, <1>8 DEF Sound, DocHashes, SameHash
<1> QED BY <1>9, <1>10, <1>11, <1>12 DEF Sound

LEMMA SoundNext ==
  ASSUME Types, KeyHashes, Sound, [Next]_vars, ~overtaken'
  PROVE  Sound'
<1>0. /\ store \in [Client -> SUBSET Present] /\ shown \in [Client -> SUBSET Present]
      /\ completing \in [Client -> Completing] /\ last \in Nat
  BY Ranges DEF Types, TypeOK
<1>1. CASE UNCHANGED vars
  BY <1>1, SoundSame DEF vars, memory
<1>2. ASSUME NEW c \in Client, NEW p \in Pub, NEW kind \in {"public", "private"},
             InsertKey(c, kind, p) \/ Complete(c, kind, p)
      PROVE  Sound'
  <2>1. CASE InsertKey(c, kind, p)
    <3>1. InsertKeyPKI(c, kind, p) /\ completing' = completing /\ completing[c] = Idle
      BY <2>1 DEF InsertKey
    <3>2. CASE last' = last
      <4>1. UNCHANGED db /\ store' = store
        BY <3>1, <3>2, NotInserted DEF db
      <4> QED BY <3>1, <4>1, SoundSame
    <3>3. CASE last' # last
      <4>1. \A k \in Keys \cap store[c] : ~Compare(k, p)
        <5>1. SUFFICES ASSUME NEW k \in Keys \cap store[c], Compare(k, p)
                       PROVE  FALSE
          OBVIOUS
        <5>2. SameHash(k, p)
          BY <5>1, Ranges DEF KeyHashes, Keys, Compare
        <5> QED BY <2>1, <5>1, <5>2 DEF InsertKey, GetByReference
      <4> QED BY <3>1, <3>3, <4>1, SoundInsert
    <3> QED BY <3>2, <3>3
  <2>2. CASE Complete(c, kind, p)
    <3>1. PICK old \in GetByReference(c, p) :
            completing' = [completing EXCEPT ![c] =
              [phase |-> "told", key |-> old, kind |-> kind, pub |-> p]]
      BY <2>2 DEF Complete
    <3>2. UNCHANGED <<db, store>> /\ Keys' = Keys /\ Docs' = Docs
      BY <2>2 DEF Complete, Keys, Docs, IsKey, Present, db
    <3>3. old \in Keys /\ item[old].pub = p
      BY DEF GetByReference, Compare
    <3>4. Completes'
      <4>1. SUFFICES ASSUME NEW b \in Client, completing'[b].phase \in {"told", "deleted"},
                            NEW j \in Keys \cap store[b], item[j].pub = completing'[b].pub
                     PROVE  completing'[b].phase = "told" /\ j = completing'[b].key
        BY <3>2 DEF Completes, Compare, db
      <4>2. CASE b = c
        <5>1. completing'[c] = [phase |-> "told", key |-> old, kind |-> kind, pub |-> p]
          BY <1>0, <3>1
        <5> QED BY <3>3, <4>1, <4>2, <5>1 DEF Sound, NoKeyTwice
      <4>3. CASE b # c
        <5>1. completing'[b] = completing[b]
          BY <1>0, <3>1, <4>3
        <5> QED BY <4>1, <5>1 DEF Sound, Completes, Compare
      <4> QED BY <4>2, <4>3
    <3>5. LinkedIfStored' /\ NoKeyTwice' /\ DocHashes'
      BY <3>2 DEF db, Sound, LinkedIfStored, NoKeyTwice, DocHashes, KeyFor, Compare, SameHash
    <3> QED BY <3>4, <3>5 DEF Sound
  <2> QED BY <1>2, <2>1, <2>2
<1>3. ASSUME NEW c \in Client, NEW p \in Pub, InsertDoc(c, p)
      PROVE  Sound'
  BY <1>3, SoundDoc DEF InsertDoc
<1>4. ASSUME NEW c \in Client, CompleteDelete(c) \/ CompleteInsert(c)
      PROVE  Sound'
  <2>1. completing[c] # Idle
    BY <1>4 DEF CompleteDelete, CompleteInsert, Idle
  <2>2. CASE CompleteDelete(c)
    <3>1. IsKey(completing[c].key)
      BY <2>1, CompletingTyped
    <3> QED BY <2>2, <3>1, SoundDelete DEF CompleteDelete
  <2>3. CASE CompleteInsert(c)
    <3>1. completing[c].pub \in Pub /\ completing[c].kind \in {"public", "private"}
      BY <2>1, CompletingTyped
    <3>2. /\ InsertKeyPKI(c, completing[c].kind, completing[c].pub)
          /\ completing' = [completing EXCEPT ![c] = Idle] /\ completing[c].phase = "deleted"
      BY <2>3 DEF CompleteInsert
    <3>3. CASE last' = last
      <4>1. UNCHANGED db /\ store' = store
        BY <3>1, <3>2, <3>3, NotInserted DEF db
      <4>2. \A b \in Client : completing'[b] = completing[b] \/ completing'[b].phase = "none"
        BY <1>0, <3>2 DEF Idle
      <4> QED BY <4>1, <4>2, SoundSame
    <3>4. CASE last' # last
      <4>1. \A k \in Keys \cap store[c] : ~Compare(k, completing[c].pub)
        BY <3>2 DEF Sound, Completes
      <4>2. completing'[c] = Idle /\ \A b \in Client \ {c} : completing'[b] = completing[b]
        BY <1>0, <3>2
      <4> QED BY <3>1, <3>2, <3>4, <4>1, <4>2, SoundInsert
    <3> QED BY <3>3, <3>4
  <2> QED BY <1>4, <2>2, <2>3
<1>5. ASSUME NEW c \in Client, NEW i \in Id, DeleteKey(c, i) \/ DeleteDoc(c, i) \/ Renew(c, i)
      PROVE  Sound'
  <2>1. CASE DeleteKey(c, i)
    BY <2>1, SoundDelete DEF DeleteKey
  <2>2. CASE DeleteDoc(c, i)
    <3>1. /\ ~IsKey(i) /\ UNCHANGED <<last, item, completing>>
          /\ store' = [store EXCEPT ![c] = @ \ {i}]
          /\ \/ alive' = alive \ {i} /\ pkey' = [pkey EXCEPT ![i] = None]
             \/ UNCHANGED <<alive, pkey>>
      BY <2>2 DEF DeleteDoc
    <3>2. Keys' = Keys /\ Docs' \subseteq Docs /\ (Docs' = Docs \ {i} \/ pkey' = pkey)
      BY <3>1 DEF Keys, Docs, IsKey, Present
    <3>3. \A d \in Docs' : pkey'[d] = pkey[d]
      BY <3>1, <3>2, Ranges DEF Types, TypeOK
    <3>4. \A d : KeyFor(d)' = KeyFor(d)
      BY <3>1, <3>2 DEF KeyFor, Compare
    <3>5. LinkedIfStored'
      BY <3>2, <3>3, <3>4 DEF Sound, LinkedIfStored
    <3>6. NoKeyTwice' /\ DocHashes'
      BY <3>1, <3>2 DEF Sound, NoKeyTwice, DocHashes, SameHash
    <3>7. \A b \in Client : store'[b] \subseteq store[b]
      BY <1>0, <3>1
    <3>8. Completes'
      BY <3>1, <3>2, <3>7 DEF Sound, Completes, Compare
    <3> QED BY <3>5, <3>6, <3>8 DEF Sound
  <2>3. CASE Renew(c, i)
    <3>1. /\ item[i].pub \in Pub /\ i \in Present /\ ~IsKey(i)
          /\ InsertDocPKI(c, item[i].pub, GetRefKey(c, i))
          /\ Knows(c, item[i].pub) /\ i \in alive /\ link[c][i] = pkey[i]
      BY <2>3 DEF Renew, Types, TypeOK, Item, NoItem
    <3>2. GetRefKey(c, i) # None => GetRefKey(c, i) = pkey[i] /\ i \in Docs
      BY <1>0, <3>1, RefKeyTyped DEF GetRefKey, Docs
    <3>3. GetRefKey(c, i) # None => GetRefKey(c, i) \in Keys /\ Compare(GetRefKey(c, i), item[i].pub)
      BY <3>2 DEF Sound, LinkedIfStored, KeyFor, Compare
    <3> QED BY <3>1, <3>3, SoundDoc
  <2> QED BY <1>5, <2>1, <2>2, <2>3
<1>6. ASSUME NEW c \in Client, ReloadKeys(c) \/ ReloadDocs(c) \/ Restart(c)
      PROVE  Sound'
  <2>1. UNCHANGED db
    BY <1>6 DEF ReloadKeys, ReloadDocs, Restart
  <2>2. CASE ReloadKeys(c)
    <3>1. /\ store' = [store EXCEPT ![c] = @ \cup alive]
          /\ completing[c].phase # "deleted"
          /\ completing' = [completing EXCEPT ![c] =
               IF completing[c].phase = "told" THEN [completing[c] EXCEPT !.phase = "doomed"] ELSE completing[c]]
      BY <2>2 DEF ReloadKeys
    <3>2. completing'[c].phase \notin {"told", "deleted"}
      <4>1. CASE completing[c].phase = "told"
        <5>1. completing[c] # Idle
          BY <4>1 DEF Idle
        <5>2. completing[c] \in [phase : {"told", "doomed", "deleted"}, key : Id, kind : Kind, pub : Pub]
          BY <5>1, CompletingTyped
        <5> QED BY <1>0, <3>1, <4>1, <5>2
      <4>2. CASE completing[c].phase # "told"
        BY <1>0, <3>1, <4>2
      <4> QED BY <4>1, <4>2
    <3>3. \A b \in Client \ {c} : completing'[b] = completing[b] /\ store'[b] = store[b]
      BY <1>0, <3>1
    <3> QED BY <2>1, <3>2, <3>3, SoundSame
  <2>3. CASE ReloadDocs(c)
    <3>1. store' = [store EXCEPT ![c] = @ \cup Docs] /\ completing' = completing
      BY <2>3 DEF ReloadDocs
    <3>2. \A b \in Client : store'[b] \cap Keys \subseteq store[b]
      BY <1>0, <3>1 DEF Docs, Keys
    <3> QED BY <2>1, <3>1, <3>2, SoundSame
  <2>4. CASE Restart(c)
    <3>1. store' = [store EXCEPT ![c] = alive] /\ completing' = [completing EXCEPT ![c] = Idle]
      BY <2>4 DEF Restart
    <3>2. completing'[c].phase = "none" /\ \A b \in Client \ {c} : completing'[b] = completing[b] /\ store'[b] = store[b]
      BY <1>0, <3>1 DEF Idle
    <3> QED BY <2>1, <3>2, SoundSame
  <2> QED BY <1>6, <2>2, <2>3, <2>4
<1> QED BY <1>1, <1>2, <1>3, <1>4, <1>5, <1>6, Steps

LEMMA KeyHashesNext ==
  ASSUME Types, KeyHashes, ItemsStay
  PROVE  KeyHashes'
<1>1. SUFFICES ASSUME NEW i \in Present', IsKey(i)'
               PROVE  item'[i].hash = Hash[item'[i].pub]
  BY DEF KeyHashes, SameHash
<1>2. CASE i \in Present
  BY <1>1, <1>2, SameItems DEF KeyHashes, SameHash
<1>3. CASE i \notin Present
  <2>1. i = last' /\ last' # last
    BY <1>1, <1>3, Ranges DEF ItemsStay, Present
  <2>2. item'[i].kind # "x509super"
    BY <1>1 DEF IsKey
  <2> QED BY <2>1, <2>2 DEF ItemsStay
<1> QED BY <1>2, <1>3

------------------------------------------------------------------------------
(* Links in memory.                                                        *)

Remembers(c) == ~behind[c] => shown[c] = alive /\ \A d \in Docs : link[c][d] = pkey[d]

LEMMA MemoryInsert ==
  ASSUME Types, NEW c \in Client, NEW kind \in {"public", "private"}, NEW p \in Pub,
         InsertKeyPKI(c, kind, p), \A b \in Client : Remembers(b)
  PROVE  \A b \in Client : Remembers(b)'
<1>0. /\ link \in [Client -> [Id -> Id \cup {None}]] /\ shown \in [Client -> SUBSET Present]
      /\ behind \in [Client -> BOOLEAN] /\ Docs \subseteq Id
  BY Ranges DEF Types, TypeOK
<1>1. SUFFICES ASSUME NEW b \in Client, ~behind'[b]
               PROVE  shown'[b] = alive' /\ \A d \in Docs' : link'[b][d] = pkey'[d]
  BY DEF Remembers
<1>2. CASE last' = last
  <2>1. Docs' = Docs /\ UNCHANGED <<shown, alive, pkey>>
    BY <1>2, NotInserted DEF Docs, IsKey, Present
  <2>2. ~behind[b] /\ link'[b] = link[b]
    BY <1>0, <1>1, <1>2, NotInserted
  <2> QED BY <2>1, <2>2 DEF Remembers
<1>3. CASE last' # last
  <2>1. PICK id : id = last + 1
    OBVIOUS
  <2>2. /\ item'[id] = [kind |-> kind, pub |-> p, hash |-> Hash[p]] /\ Docs' = Docs
        /\ pkey' = [d \in Id |-> IF d \in Unlinked(c, p) THEN id ELSE pkey[d]]
        /\ link' = [link EXCEPT ![c] = [d \in Id |-> IF d \in Unlinked(c, p) THEN id ELSE @[d]]]
    BY <1>3, <2>1, InsertedKey
  <2>3. /\ item'[id] = [kind |-> kind, pub |-> p, hash |-> Hash[p]]
        /\ alive' = alive \cup {id}
        /\ shown' = [shown EXCEPT ![c] = @ \cup {id}]
        /\ behind' = Outdated(c)
    BY <1>3, <2>1, InsertedKey
  <2>4. b = c /\ ~behind[c]
    BY <1>1, <2>3 DEF Outdated
  <2>5. \A d \in Docs' : link'[c][d] = pkey'[d]
    BY <1>0, <2>2, <2>4 DEF Remembers
  <2> QED BY <1>0, <2>3, <2>4, <2>5 DEF Remembers
<1> QED BY <1>2, <1>3

LEMMA MemoryDelete ==
  ASSUME Types, NEW c \in Client, NEW k, IsKey(k), DeleteKeyPKI(c, k), \A b \in Client : Remembers(b)
  PROVE  \A b \in Client : Remembers(b)'
<1>0. /\ link \in [Client -> [Id -> Id \cup {None}]] /\ shown \in [Client -> SUBSET Present]
      /\ behind \in [Client -> BOOLEAN] /\ Docs \subseteq Id /\ Docs \subseteq alive
      /\ \A b \in Client : shown[b] \subseteq store[b]
  BY Ranges DEF Types, TypeOK
<1>1. SUFFICES ASSUME NEW b \in Client, ~behind'[b]
               PROVE  shown'[b] = alive' /\ \A d \in Docs' : link'[b][d] = pkey'[d]
  BY DEF Remembers
<1>2. /\ Docs' = Docs
      /\ shown' = [shown EXCEPT ![c] = @ \ {k}]
  BY SameDocs DEF DeleteKeyPKI, RemFromCont, Docs
<1>3. CASE alive' = alive \ {k} /\ pkey' = PkeyAfter(k) /\ link' = LinkAfter(c, k) /\ behind' = Outdated(c)
  <2>1. b = c /\ ~behind[c]
    BY <1>1, <1>3 DEF Outdated
  <2>2. shown[c] = alive /\ \A d \in Docs : link[c][d] = pkey[d]
    BY <2>1 DEF Remembers
  <2>3. \A d \in Docs : d \in store[c] /\ d \in Id
    BY <1>0, <2>2
  <2>4. \A d \in Docs : link'[c][d] = pkey'[d]
    BY <1>0, <1>3, <2>2, <2>3 DEF LinkAfter, PkeyAfter
  <2> QED BY <1>0, <1>2, <1>3, <2>1, <2>2, <2>4
<1>4. CASE behind' = [behind EXCEPT ![c] = TRUE] /\ UNCHANGED <<alive, pkey, link>>
  <2>1. b # c /\ ~behind[b]
    BY <1>0, <1>1, <1>4
  <2> QED BY <1>0, <1>2, <1>4, <2>1 DEF Remembers
<1> QED BY <1>3, <1>4 DEF DeleteKeyPKI

LEMMA MemoryDoc ==
  ASSUME Types, NEW c \in Client, NEW p \in Pub, NEW copied, InsertDocPKI(c, p, copied),
         \A b \in Client : Remembers(b)
  PROVE  \A b \in Client : Remembers(b)'
<1>0. /\ link \in [Client -> [Id -> Id \cup {None}]] /\ shown \in [Client -> SUBSET Present]
      /\ pkey \in [Id -> Id \cup {None}] /\ Docs \subseteq Present
  BY Ranges DEF Types, TypeOK
<1>1. PICK id : id = last + 1
  OBVIOUS
<1>2. PICK k \in LookupKey(c, p, copied) :
        /\ pkey' = [pkey EXCEPT ![id] = k]
        /\ link' = [link EXCEPT ![c][id] = k]
        /\ item'[id] = [kind |-> "x509super", pub |-> p, hash |-> Hash[PubHash(p, k)]]
  BY <1>1, InsertedDoc
<1>3. /\ alive' = alive \cup {id} /\ Docs' = Docs \cup {id} /\ id \in Id /\ id \notin Present
      /\ shown' = [shown EXCEPT ![c] = @ \cup {id}] /\ behind' = Outdated(c)
  BY <1>1, InsertedDoc
<1>4. SUFFICES ASSUME NEW b \in Client, ~behind'[b]
               PROVE  shown'[b] = alive' /\ \A d \in Docs' : link'[b][d] = pkey'[d]
  BY DEF Remembers
<1>5. b = c /\ ~behind[c]
  BY <1>3, <1>4 DEF Outdated
<1>6. \A d \in Docs' : link'[c][d] = pkey'[d]
  <2>1. SUFFICES ASSUME NEW d \in Docs'
                 PROVE  link'[c][d] = pkey'[d]
    OBVIOUS
  <2>2. CASE d = id
    BY <1>0, <1>2, <1>3, <2>2
  <2>3. CASE d # id
    <3>1. d \in Docs /\ d \in Id
      BY <1>3, <2>1, <2>3, Ranges
    <3>2. link[c][d] = pkey[d]
      BY <1>5, <3>1 DEF Remembers
    <3> QED BY <1>0, <1>2, <2>3, <3>1, <3>2
  <2> QED BY <2>2, <2>3
<1> QED BY <1>0, <1>3, <1>5, <1>6 DEF Remembers

LEMMA MemoryNext ==
  ASSUME Types, LinkedIfStored, [Next]_vars, \A b \in Client : Remembers(b)
  PROVE  \A b \in Client : Remembers(b)'
<1>0. /\ link \in [Client -> [Id -> Id \cup {None}]] /\ shown \in [Client -> SUBSET Present]
      /\ store \in [Client -> SUBSET Present]
      /\ behind \in [Client -> BOOLEAN] /\ Docs \subseteq Id /\ pkey \in [Id -> Id \cup {None}]
      /\ \A b \in Client : shown[b] \subseteq store[b]
  BY Ranges DEF Types, TypeOK
<1>1. CASE UNCHANGED <<db, shown, link, behind>>
  BY <1>1 DEF db, Remembers, Docs, IsKey, Present
<1>2. ASSUME NEW c \in Client, NEW p \in Pub, NEW kind \in {"public", "private"},
             InsertKey(c, kind, p) \/ Complete(c, kind, p)
      PROVE  \A b \in Client : Remembers(b)'
  <2>1. CASE InsertKey(c, kind, p)
    BY <2>1, MemoryInsert DEF InsertKey
  <2>2. CASE Complete(c, kind, p)
    BY <1>1, <2>2 DEF Complete, history
  <2> QED BY <1>2, <2>1, <2>2
<1>3. ASSUME NEW c \in Client, NEW p \in Pub, InsertDoc(c, p)
      PROVE  \A b \in Client : Remembers(b)'
  BY <1>3, MemoryDoc DEF InsertDoc
<1>4. ASSUME NEW c \in Client, CompleteDelete(c) \/ CompleteInsert(c)
      PROVE  \A b \in Client : Remembers(b)'
  <2>1. completing[c] # Idle
    BY <1>4 DEF CompleteDelete, CompleteInsert, Idle
  <2>2. CASE CompleteDelete(c)
    <3>1. IsKey(completing[c].key) /\ DeleteKeyPKI(c, completing[c].key)
      BY <2>1, <2>2, CompletingTyped DEF CompleteDelete
    <3> QED BY <3>1, MemoryDelete
  <2>3. CASE CompleteInsert(c)
    <3>1. completing[c].pub \in Pub /\ completing[c].kind \in {"public", "private"}
      BY <2>1, CompletingTyped
    <3> QED BY <2>3, <3>1, MemoryInsert DEF CompleteInsert
  <2> QED BY <1>4, <2>2, <2>3
<1>5. ASSUME NEW c \in Client, NEW i \in Id, DeleteKey(c, i) \/ DeleteDoc(c, i) \/ Renew(c, i)
      PROVE  \A b \in Client : Remembers(b)'
  <2>1. CASE DeleteKey(c, i)
    BY <2>1, MemoryDelete DEF DeleteKey
  <2>2. CASE DeleteDoc(c, i)
    <3>1. /\ last' = last /\ item' = item
          /\ shown' = [shown EXCEPT ![c] = @ \ {i}]
          /\ link' = [link EXCEPT ![c][i] = None]
      BY <2>2 DEF DeleteDoc, RemFromCont
    <3>2. SUFFICES ASSUME NEW b \in Client, ~behind'[b]
                   PROVE  shown'[b] = alive' /\ \A d \in Docs' : link'[b][d] = pkey'[d]
      BY DEF Remembers
    <3>3. CASE alive' = alive \ {i} /\ pkey' = [pkey EXCEPT ![i] = None] /\ behind' = Outdated(c)
      <4>1. b = c /\ ~behind[c]
        BY <3>2, <3>3 DEF Outdated
      <4>2. Docs' = Docs \ {i}
        BY <3>1, <3>3 DEF Docs, IsKey, Present
      <4>3. shown[c] = alive /\ \A d \in Docs : link[c][d] = pkey[d]
        BY <4>1 DEF Remembers
      <4> QED BY <1>0, <3>1, <3>3, <4>1, <4>2, <4>3
    <3>4. CASE behind' = [behind EXCEPT ![c] = TRUE] /\ UNCHANGED <<alive, pkey>>
      <4>1. b # c /\ ~behind[b] /\ Docs' = Docs
        BY <1>0, <3>1, <3>2, <3>4 DEF Docs, IsKey, Present
      <4> QED BY <1>0, <3>1, <3>4, <4>1 DEF Remembers
    <3> QED BY <2>2, <3>3, <3>4 DEF DeleteDoc
  <2>3. CASE Renew(c, i)
    <3>1. item[i].pub \in Pub
      BY <2>3 DEF Renew, Types, TypeOK, Item, NoItem
    <3> QED BY <2>3, <3>1, MemoryDoc DEF Renew
  <2> QED BY <1>5, <2>1, <2>2, <2>3
<1>6. ASSUME NEW c \in Client, ReloadKeys(c) \/ ReloadDocs(c) \/ Restart(c)
      PROVE  \A b \in Client : Remembers(b)'
  <2>1. UNCHANGED <<last, item, alive, pkey>> /\ Docs' = Docs /\ Docs = {d \in alive : ~IsKey(d)}
    BY <1>6 DEF ReloadKeys, ReloadDocs, Restart, db, Docs, IsKey, Present
  <2>2. \A d \in Docs : pkey[d] = None \/ (pkey[d] \in alive /\ IsKey(pkey[d]))
    BY DEF LinkedIfStored, KeyFor, Keys
  <2>3. \A S : alive \subseteq S => \A d \in Docs : LookupPki(S, pkey[d]) = pkey[d]
    BY <2>2 DEF LookupPki
  <2>4. \A S : alive \subseteq S => \A d \in Docs : Resolved(S, c)[d] = pkey[d]
    BY <1>0, <2>3 DEF Resolved
  <2>5. \A b \in Client \ {c} : Remembers(b)'
    <3>1. \A b \in Client \ {c} : shown'[b] = shown[b] /\ link'[b] = link[b] /\ behind'[b] = behind[b]
      BY <1>0, <1>6 DEF ReloadKeys, ReloadDocs, Restart, history
    <3> QED BY <2>1, <3>1 DEF Remembers
  <2>6. CASE ReloadKeys(c)
    <3>1. /\ store' = [store EXCEPT ![c] = @ \cup alive]
          /\ shown' = [shown EXCEPT ![c] = alive]
          /\ link' = [link EXCEPT ![c] = Resolved(store'[c], c)]
      BY <2>6 DEF ReloadKeys
    <3>2. alive \subseteq store'[c] /\ shown'[c] = alive /\ link'[c] = Resolved(store'[c], c)
      BY <1>0, <3>1
    <3>3. \A d \in Docs : link'[c][d] = pkey[d]
      BY <2>4, <3>2
    <3> QED BY <2>1, <2>5, <3>2, <3>3 DEF Remembers
  <2>7. CASE ReloadDocs(c)
    <3>1. /\ store' = [store EXCEPT ![c] = @ \cup Docs]
          /\ shown' = [shown EXCEPT ![c] = {k \in @ : IsKey(k)} \cup Docs]
          /\ link' = [link EXCEPT ![c] = Resolved(store'[c], c)]
          /\ behind' = behind
      BY <2>7 DEF ReloadDocs, history
    <3>2. SUFFICES ASSUME ~behind[c]
                   PROVE  shown'[c] = alive /\ \A d \in Docs : link'[c][d] = pkey[d]
      BY <2>1, <2>5, <3>1 DEF Remembers
    <3>3. shown[c] = alive
      BY <3>2 DEF Remembers
    <3>4. alive \subseteq store'[c] /\ link'[c] = Resolved(store'[c], c)
      BY <1>0, <3>1, <3>3
    <3>5. shown'[c] = alive
      BY <1>0, <2>1, <3>1, <3>3
    <3> QED BY <2>4, <3>4, <3>5
  <2>8. CASE Restart(c)
    <3>1. /\ shown' = [shown EXCEPT ![c] = alive]
          /\ link' = [link EXCEPT ![c] =
               [d \in Id |-> IF d \in Docs THEN LookupPki(alive, pkey[d]) ELSE None]]
      BY <2>8 DEF Restart
    <3>2. shown'[c] = alive /\ \A d \in Docs : link'[c][d] = pkey[d]
      BY <1>0, <2>3, <3>1
    <3> QED BY <2>1, <2>5, <3>2 DEF Remembers
  <2> QED BY <1>6, <2>6, <2>7, <2>8
<1> QED BY <1>1, <1>2, <1>3, <1>4, <1>5, <1>6, Steps DEF vars, memory, history

------------------------------------------------------------------------------
(* Keys that stay.                                                         *)

\* What keeps key k from being lost.
Safe(k) ==
  \/ k \in alive
  \/ \E c \in Client : completing[c].phase = "deleted" /\ completing[c].key = k
  \/ \E j \in Keys : item[j].kind = "private" /\ Compare(j, item[k].pub)

LEMMA KeptInsert ==
  ASSUME Types, KeysKept, NEW c \in Client, NEW kind \in {"public", "private"}, NEW p \in Pub,
         InsertKeyPKI(c, kind, p), completing' = [completing EXCEPT ![c] = Idle],
         completing[c] # Idle => completing[c].kind = kind /\ completing[c].pub = p
  PROVE  KeysKept'
<1>0. /\ completing \in [Client -> Completing] /\ kept \subseteq Present
      /\ \A i \in Present : item'[i] = item[i]
  BY ItemsStayInsert, SameItems, Ranges DEF Types, TypeOK, IsKey
<1>1. \A b \in Client \ {c} : completing'[b] = completing[b]
  BY <1>0
<1>2. CASE last' = last
  <2>1. /\ UNCHANGED <<item, alive>> /\ Keys' = Keys
        /\ kept' = IF completing[c] = Idle THEN kept ELSE kept \ {completing[c].key}
    BY <1>2, NotInserted DEF Keys, IsKey, Present
  <2>2. SUFFICES ASSUME NEW k \in kept' PROVE Safe(k)'
    BY DEF KeysKept, Safe
  <2>3. k \in kept /\ (completing[c].phase = "deleted" => completing[c].key # k)
    BY <2>1, <2>2 DEF Idle
  <2> QED BY <1>1, <2>1, <2>3 DEF KeysKept, Safe, Compare
<1>3. CASE last' # last
  <2>1. PICK id : id = last + 1
    OBVIOUS
  <2>2. /\ item'[id] = [kind |-> kind, pub |-> p, hash |-> Hash[p]]
        /\ alive' = alive \cup {id} /\ Keys' = Keys \cup {id}
        /\ kept' = kept \cup {id}
    BY <1>3, <2>1, InsertedKey, SMTT(60)
  <2>3. SUFFICES ASSUME NEW k \in kept, k \notin alive PROVE Safe(k)'
    BY <2>2 DEF KeysKept, Safe
  <2>4. \A j \in Keys : j \in Present
    BY Ranges
  <2>5. CASE \E j \in Keys : item[j].kind = "private" /\ Compare(j, item[k].pub)
    BY <1>0, <2>2, <2>3, <2>4, <2>5 DEF Safe, Compare
  <2>6. CASE \E b \in Client \ {c} : completing[b].phase = "deleted" /\ completing[b].key = k
    BY <1>1, <2>6 DEF Safe
  <2>7. CASE completing[c].phase = "deleted" /\ completing[c].key = k
    <3>1. completing[c] # Idle
      BY <2>7 DEF Idle
    <3>2. kind = "private" /\ item[k].pub = p
      BY <2>7, <3>1, CompletingTyped
    <3>3. id \in Keys' /\ item'[id].kind = "private" /\ item'[id].pub = item'[k].pub
      BY <1>0, <2>2, <2>3, <3>2
    <3> QED BY <3>3 DEF Safe, Compare
  <2> QED BY <2>3, <2>5, <2>6, <2>7 DEF KeysKept
<1> QED BY <1>2, <1>3

LEMMA KeptNext ==
  ASSUME Types, KeysKept, [Next]_vars
  PROVE  KeysKept'
<1>0. /\ completing \in [Client -> Completing] /\ \A k \in kept : IsKey(k) /\ k \in Present
      /\ \A i \in Present : i \in Present' /\ item'[i] = item[i] /\ IsKey(i)' = IsKey(i)
      /\ Keys \subseteq Present
  BY ItemsStayNext, SameItems, Ranges DEF Types, TypeOK, IsKey
\* A step that deletes no key and ends no completion.
<1>a. ASSUME kept' \subseteq kept, Keys \subseteq Keys',
             \A b \in Client : completing[b].phase = "deleted" => completing'[b] = completing[b],
             \A k \in kept : k \in alive => k \in alive'
      PROVE  KeysKept'
  <2>1. SUFFICES ASSUME NEW k \in kept' PROVE Safe(k)'
    BY DEF KeysKept, Safe
  <2> QED BY <1>0, <1>a, <2>1 DEF KeysKept, Safe, Compare
<1>1. CASE UNCHANGED <<db, completing, kept>>
  BY <1>1, <1>a DEF db, Keys, IsKey, Present
<1>2. ASSUME NEW c \in Client, NEW p \in Pub, NEW kind \in {"public", "private"},
             InsertKey(c, kind, p) \/ Complete(c, kind, p)
      PROVE  KeysKept'
  <2>1. CASE InsertKey(c, kind, p)
    <3>1. InsertKeyPKI(c, kind, p) /\ completing[c] = Idle /\ completing' = completing
      BY <2>1 DEF InsertKey
    <3>2. completing' = [completing EXCEPT ![c] = Idle]
      BY <1>0, <3>1
    <3> QED BY <3>1, <3>2, KeptInsert
  <2>2. CASE Complete(c, kind, p)
    <3>1. PICK old \in GetByReference(c, p) :
            completing' = [completing EXCEPT ![c] =
              [phase |-> "told", key |-> old, kind |-> kind, pub |-> p]]
      BY <2>2 DEF Complete
    <3>2. completing[c].phase = "none" /\ kept' = kept /\ alive' = alive /\ Keys' = Keys
      BY <2>2 DEF Complete, Idle, history, db, Keys, IsKey, Present
    <3>3. \A b \in Client : completing[b].phase = "deleted" => completing'[b] = completing[b]
      BY <1>0, <3>1, <3>2
    <3> QED BY <1>a, <3>2, <3>3
  <2> QED BY <1>2, <2>1, <2>2
<1>3. ASSUME NEW c \in Client, NEW p \in Pub, NEW copied, InsertDocPKI(c, p, copied)
      PROVE  KeysKept'
  <2>1. PICK id : id = last + 1
    OBVIOUS
  <2>2. kept' = kept /\ completing' = completing /\ Keys' = Keys /\ alive' = alive \cup {id}
    BY <1>3, <2>1, InsertedDoc
  <2> QED BY <1>a, <2>2
<1>4. ASSUME NEW c \in Client, CompleteDelete(c) \/ CompleteInsert(c)
      PROVE  KeysKept'
  <2>1. completing[c] # Idle
    BY <1>4 DEF CompleteDelete, CompleteInsert, Idle
  <2>2. CASE CompleteDelete(c)
    <3>1. /\ kept' = kept /\ completing' = [completing EXCEPT ![c].phase = "deleted"]
          /\ item' = item /\ last' = last
          /\ alive' = alive \/ alive' = alive \ {completing[c].key}
          /\ completing[c].phase = "told"
      BY <2>2 DEF CompleteDelete, DeleteKeyPKI
    <3>2. Keys \ {completing[c].key} \subseteq Keys'
      BY <3>1 DEF Keys, IsKey, Present
    <3>3. completing'[c].phase = "deleted" /\ completing'[c].key = completing[c].key
      BY <1>0, <2>1, <3>1, CompletingTyped
    <3>4. \A b \in Client \ {c} : completing'[b] = completing[b]
      BY <1>0, <3>1
    <3>5. item[completing[c].key].kind = "public"
      BY <2>1, CompletingTyped
    <3>6. SUFFICES ASSUME NEW k \in kept PROVE Safe(k)'
      BY <3>1 DEF KeysKept, Safe
    <3>7. CASE k \in alive
      BY <3>1, <3>3, <3>7 DEF Safe
    <3>8. CASE \E b \in Client : completing[b].phase = "deleted" /\ completing[b].key = k
      <4>1. PICK b \in Client : completing[b].phase = "deleted" /\ completing[b].key = k
        BY <3>8
      <4> QED BY <3>1, <3>4, <4>1 DEF Safe
    <3>9. CASE \E j \in Keys : item[j].kind = "private" /\ Compare(j, item[k].pub)
      BY <3>1, <3>2, <3>5, <3>9 DEF Safe, Compare
    <3> QED BY <3>6, <3>7, <3>8, <3>9 DEF KeysKept
  <2>3. CASE CompleteInsert(c)
    <3>1. completing[c].pub \in Pub /\ completing[c].kind \in {"public", "private"}
      BY <2>1, CompletingTyped
    <3> QED BY <2>3, <3>1, KeptInsert DEF CompleteInsert
  <2> QED BY <1>4, <2>2, <2>3
<1>5. ASSUME NEW c \in Client, NEW i \in Id, DeleteKey(c, i) \/ DeleteDoc(c, i) \/ Renew(c, i)
      PROVE  KeysKept'
  <2>1. CASE DeleteKey(c, i)
    <3>1. /\ kept' = {j \in kept : ~Compare(j, item[i].pub)} /\ completing' = completing
          /\ item' = item /\ last' = last
          /\ alive' = alive \/ alive' = alive \ {i}
      BY <2>1 DEF DeleteKey, DeleteKeyPKI
    <3>2. Keys \ {i} \subseteq Keys'
      BY <3>1 DEF Keys, IsKey, Present
    <3>3. SUFFICES ASSUME NEW k \in kept, ~Compare(k, item[i].pub) PROVE Safe(k)'
      BY <3>1 DEF KeysKept, Safe
    <3>4. k # i
      BY <3>3 DEF Compare
    <3>5. CASE k \in alive
      BY <3>1, <3>4, <3>5 DEF Safe
    <3>6. CASE \E b \in Client : completing[b].phase = "deleted" /\ completing[b].key = k
      BY <3>1, <3>6 DEF Safe
    <3>7. CASE \E j \in Keys : item[j].kind = "private" /\ Compare(j, item[k].pub)
      <4>1. PICK j \in Keys : item[j].kind = "private" /\ item[j].pub = item[k].pub
        BY <3>7 DEF Compare
      <4>2. j # i
        BY <3>3, <4>1 DEF Compare
      <4> QED BY <3>1, <3>2, <4>1, <4>2 DEF Safe, Compare
    <3> QED BY <3>3, <3>5, <3>6, <3>7 DEF KeysKept
  <2>2. CASE DeleteDoc(c, i)
    <3>1. /\ kept' = kept /\ completing' = completing /\ item' = item /\ last' = last
          /\ alive' = alive \/ alive' = alive \ {i}
          /\ ~IsKey(i) /\ i \in Present
      BY <2>2 DEF DeleteDoc
    <3>2. Keys \subseteq Keys'
      BY <3>1 DEF Keys, IsKey, Present
    <3>3. \A k \in kept : IsKey(k)
      BY <1>0
    <3> QED BY <1>a, <3>1, <3>2, <3>3
  <2>3. CASE Renew(c, i)
    <3>1. item[i].pub \in Pub
      BY <2>3 DEF Renew, Types, TypeOK, Item, NoItem
    <3> QED BY <1>3, <2>3, <3>1 DEF Renew
  <2> QED BY <1>5, <2>1, <2>2, <2>3
<1>6. ASSUME NEW c \in Client, ReloadKeys(c) \/ ReloadDocs(c) \/ Restart(c)
      PROVE  KeysKept'
  <2>1. UNCHANGED db /\ Keys' = Keys /\ alive' = alive
    BY <1>6 DEF ReloadKeys, ReloadDocs, Restart, db, Keys, IsKey, Present
  <2>2. CASE ReloadKeys(c) \/ ReloadDocs(c)
    <3>1. kept' = kept /\ \A b \in Client : completing[b].phase = "deleted" => completing'[b] = completing[b]
      BY <1>0, <2>2 DEF ReloadKeys, ReloadDocs, history
    <3> QED BY <1>a, <2>1, <3>1
  <2>3. CASE Restart(c)
    <3>1. /\ completing' = [completing EXCEPT ![c] = Idle]
          /\ kept' = IF completing[c].phase = "deleted" THEN kept \ {completing[c].key} ELSE kept
          /\ item' = item
      BY <2>3 DEF Restart, db
    <3>2. \A b \in Client \ {c} : completing'[b] = completing[b]
      BY <1>0, <3>1
    <3>3. SUFFICES ASSUME NEW k \in kept' PROVE Safe(k)'
      BY DEF KeysKept, Safe
    <3>4. k \in kept /\ ~(completing[c].phase = "deleted" /\ completing[c].key = k)
      BY <3>1, <3>3
    <3> QED BY <2>1, <3>1, <3>2, <3>4 DEF KeysKept, Safe, Compare
  <2> QED BY <1>6, <2>2, <2>3
<1> QED BY <1>1, <1>2, <1>3, <1>4, <1>5, <1>6, Steps DEF vars, memory, history, InsertDoc

------------------------------------------------------------------------------
(* The theorems.                                                           *)

LEMMA InitInvariant ==
  ASSUME Init
  PROVE  Invariant
<1> USE BoundAssumption DEF Init
<1>1. Present = {} /\ Keys = {} /\ Docs = {}
  BY DEF Present, Keys, Docs
<1>2. TypeOK
  <2>1. \A i \in Id : i \in Present <=> item[i] # NoItem
    BY <1>1
  <2>2. /\ last \in 0..MaxId /\ item \in [Id -> Item \cup {NoItem}] /\ alive \subseteq Present
        /\ pkey \in [Id -> Id \cup {None}] /\ \A d \in Id : pkey[d] # None => d \in Docs
    BY DEF None
  <2>3. /\ store \in [Client -> SUBSET Present] /\ shown \in [Client -> SUBSET Present]
        /\ \A c \in Client : shown[c] \subseteq store[c]
        /\ link \in [Client -> [Id -> Id \cup {None}]]
    BY DEF None
  <2>4. completing \in [Client -> Completing] /\ behind \in [Client -> BOOLEAN]
    BY DEF Completing
  <2> QED BY <2>1, <2>2, <2>3, <2>4 DEF TypeOK
<1>3. Completable /\ OwnLinks /\ KeyHashes
  BY <1>1 DEF Completable, OwnLinks, KeyHashes, None
<1>4. Sound
  BY <1>1 DEF Sound, LinkedIfStored, NoKeyTwice, Completes, DocHashes
<1>5. MemoryLinks /\ KeysKept
  BY <1>1 DEF MemoryLinks, KeysKept
<1> QED BY <1>2, <1>3, <1>4, <1>5 DEF Invariant, Types, Linked

LEMMA NextInvariant ==
  ASSUME Invariant, [Next]_vars
  PROVE  Invariant'
<1>1. Types /\ OwnLinks /\ KeyHashes /\ (overtaken \/ Sound) /\ MemoryLinks /\ KeysKept
  BY DEF Invariant, Linked
<1>2. ItemsStay /\ Types' /\ OwnLinks' /\ KeysKept' /\ KeyHashes'
  BY <1>1, ItemsStayNext, TypesNext, OwnNext, KeptNext, KeyHashesNext
<1>3. CASE overtaken'
  BY <1>2, <1>3 DEF Invariant, Linked, MemoryLinks
<1>4. CASE ~overtaken'
  <2>1. ~overtaken
    <3>1. SUFFICES ASSUME overtaken PROVE overtaken'
      BY <1>4
    <3>2. \A c \in Client : \A p, kind : InsertKeyPKI(c, kind, p) => overtaken'
      BY <3>1 DEF InsertKeyPKI
    <3>3. \A c \in Client, p \in Pub, kind \in {"public", "private"} :
            InsertKey(c, kind, p) \/ Complete(c, kind, p) => overtaken'
      BY <3>1, <3>2 DEF InsertKey, Complete, history
    <3>4. \A c \in Client, p \in Pub : InsertDoc(c, p) => overtaken'
      BY <3>1 DEF InsertDoc
    <3>5. \A c \in Client : CompleteDelete(c) \/ CompleteInsert(c) => overtaken'
      BY <3>1, <3>2 DEF CompleteDelete, CompleteInsert, DeleteKeyPKI
    <3>6. \A c \in Client, i \in Id : DeleteKey(c, i) \/ DeleteDoc(c, i) \/ Renew(c, i) => overtaken'
      BY <3>1 DEF DeleteKey, DeleteDoc, Renew, DeleteKeyPKI
    <3>7. \A c \in Client : ReloadKeys(c) \/ ReloadDocs(c) \/ Restart(c) => overtaken'
      BY <3>1 DEF ReloadKeys, ReloadDocs, Restart, history
    <3>8. UNCHANGED vars => overtaken'
      BY <3>1 DEF vars, history
    <3> QED BY <3>3, <3>4, <3>5, <3>6, <3>7, <3>8, Steps
  <2>2. Sound /\ LinkedIfStored
    BY <1>1, <2>1 DEF Sound
  <2>3. Sound'
    BY <1>1, <1>4, <2>2, SoundNext
  <2>4. \A b \in Client : Remembers(b)
    BY <1>1, <2>1 DEF MemoryLinks, Remembers
  <2>5. MemoryLinks'
    BY <1>1, <2>2, <2>4, MemoryNext DEF MemoryLinks, Remembers
  <2> QED BY <1>2, <2>3, <2>5 DEF Invariant, Linked
<1> QED BY <1>3, <1>4

\* The inductive invariant: items keep what they are, references are to the own
\* key, and what an insertion looks up is what the database has unless it was
\* overtaken (lib/pki_key.cpp, lib/pki_x509super.cpp).
THEOREM InvariantHolds == Spec => []Invariant
<1>1. Init => Invariant
  BY InitInvariant
<1>2. Invariant /\ [Next]_vars => Invariant'
  BY NextInvariant
<1> QED BY <1>1, <1>2, PTL DEF Spec

\* Type correctness of the rows and objects of db_key and db_x509super.
THEOREM TypeCorrect == Spec => []TypeOK
<1>1. Invariant => TypeOK
  BY DEF Invariant, Types
<1> QED BY <1>1, InvariantHolds, PTL

\* Certificates and requests are linked to the key that is stored for them,
\* whichever comes first (lookupKey(), insertSqlData(), deleteSqlData()).
THEOREM LinksAreStored == Spec => []LinkedUnlessOvertaken
<1>1. Invariant => LinkedUnlessOvertaken
  BY DEF Invariant, Linked, Sound, LinkedUnlessOvertaken
<1> QED BY <1>1, InvariantHolds, PTL

\* The objects refer to what their rows refer to (setRefKey(), loadContainer()).
THEOREM LinksAreLoaded == Spec => []MemoryLinks
<1>1. Invariant => MemoryLinks
  BY DEF Invariant
<1> QED BY <1>1, InvariantHolds, PTL

\* db_key::insert() stores no key twice.
THEOREM KeysAreUnique == Spec => []OneKeyEach
<1>1. Invariant => OneKeyEach
  BY DEF Invariant, Linked, Sound, NoKeyTwice, OneKeyEach
<1> QED BY <1>1, InvariantHolds, PTL

\* db_key::insert() replaces a public key by its private part only.
THEOREM KeysStay == Spec => []KeysKept
<1>1. Invariant => KeysKept
  BY DEF Invariant
<1> QED BY <1>1, InvariantHolds, PTL

\* pki_x509super::getRefKey() never returns the key of something else.
THEOREM KeysAreOwn == Spec => []OwnKeyOnly
<1>1. Invariant => OwnKeyOnly
  BY OwnKeyOnlyFollows DEF Invariant
<1> QED BY <1>1, InvariantHolds, PTL
============================================================================

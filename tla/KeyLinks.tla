------------------------------ MODULE KeyLinks ------------------------------
(***************************************************************************)
(* Keys and the certificates and requests made for them: lib/db_key.cpp,   *)
(* lib/pki_key.cpp, lib/pki_x509super.cpp, lib/db_x509super.cpp,           *)
(* lib/pki_lookup.h and the insertion, deletion and loading of items in    *)
(* lib/db_base.cpp.                                                        *)
(*                                                                         *)
(* A certificate refers to its key by an id, in column x509super.pkey and  *)
(* in its object.  Whoever comes second, key or certificate, makes the     *)
(* link, looking for the other one in the database and then for its object *)
(* in the Store of this process.  A reload adds objects to the Store and   *)
(* never removes those whose items others have deleted.                    *)
(***************************************************************************)
EXTENDS Naturals, FiniteSets

CONSTANTS
  Client,      \* the XCA processes that have the database open
  Pub,         \* public keys
  Hash,        \* the 32 bit hash of a public key
  MaxId,       \* bound on the ids of items
  MayFail      \* the database may refuse a statement

ASSUME BoundAssumption == MaxId \in Nat
ASSUME FailAssumption == MayFail \in BOOLEAN

Id == 1..MaxId
None == 0    \* NULL, no valid QVariant

VARIABLES
  last,        \* DB: MAX(id) of table items
  item,        \* DB: the items, also those with del=1
  alive,       \* DB: the items with rows in table public_keys or x509super
  pkey,        \* DB: x509super.pkey
  store,       \* Store of the process: the ids with an object
  shown,       \* the items in the trees
  link,        \* pki_x509super::keySqlId of the objects
  completing,  \* the public key db_key::insert() is about to complete
  overtaken,   \* history: an insertion missed a row its process had not loaded
  behind,      \* history: the links in memory need not be those stored
  hung,        \* history: an insertion that failed left links in memory
  kept         \* history: the keys inserted and neither deleted by a user nor
               \* lost because a completion was interrupted

db == <<last, item, alive, pkey>>
memory == <<store, shown, link, completing>>
history == <<overtaken, behind, hung, kept>>
vars == <<db, memory, history>>

Kind == {"x509super", "public", "private"}
NoItem == [kind |-> "none"]
Idle == [phase |-> "none"]

Present == 1..last
IsKey(i) == i \in Present /\ item[i].kind \in {"public", "private"}
Keys == {i \in alive : IsKey(i)}
Docs == {i \in alive : ~IsKey(i)}

\* pki_x509super::compareRefKey(), pki_key::compare()
Compare(i, p) == item[i].pub = p
\* column public_keys.hash or x509super.key_hash
SameHash(i, p) == item[i].hash = Hash[p]

\* pki_lookup::lookupPki<pki_key>()
LookupPki(S, i) == IF i \in S /\ IsKey(i) THEN i ELSE None
GetRefKey(c, d) == LookupPki(store[c], link[c][d])

------------------------------------------------------------------------------
\* Mutant: without compareRefKey().
Unlinked_ByHash(c, p) == {d \in Docs \cap store[c] : pkey[d] = None /\ SameHash(d, p)}

\* The documents of public key p that pki_key::insertSqlData() links.
Unlinked(c, p) ==
  {d \in Docs \cap store[c] : pkey[d] = None /\ SameHash(d, p) /\ Compare(d, p)}

\* pki_x509super::pubHash(): that of the key referred to, if there is one
PubHash(p, ref) == IF ref = None THEN p ELSE item[ref].pub

\* pki_x509super::lookupKey(): the objects found for the rows of public_keys;
\* without one the reference stays what it was in the copied object.
LookupKey(c, p, copied) ==
  LET found == {k \in Keys \cap store[c] : SameHash(k, PubHash(p, copied)) /\ Compare(k, p)}
  IN  IF found = {} THEN {copied} ELSE found

\* The keys db_base::getByReference() may return.
GetByReference(c, p) == {k \in Keys \cap store[c] : SameHash(k, p) /\ Compare(k, p)}

\* Client c has objects for all rows of public key p.
Knows(c, p) == \A i \in alive : Compare(i, p) => i \in store[c]

Outdated(c) == [d \in Client |-> d # c \/ behind[d]]

\* insertPKI() of a key: insertSqlData() links the documents, in memory first.
\* When a statement fails the key is gone, but not the links made by then.
InsertKeyPKI(c, kind, p) ==
  LET id == last + 1
      new == Unlinked(c, p)
      linked == [link EXCEPT ![c] = [d \in Id |-> IF d \in new THEN id ELSE @[d]]]
  IN  /\ last < MaxId
      /\ \/ /\ last' = id
            /\ item' = [item EXCEPT ![id] = [kind |-> kind, pub |-> p, hash |-> Hash[p]]]
            /\ alive' = alive \cup {id}
            /\ pkey' = [d \in Id |-> IF d \in new THEN id ELSE pkey[d]]
            /\ store' = [store EXCEPT ![c] = @ \cup {id}]
            /\ shown' = [shown EXCEPT ![c] = @ \cup {id}]
            /\ link' = linked
            /\ overtaken' = (overtaken \/ ~Knows(c, p))
            /\ behind' = Outdated(c)
            /\ kept' = kept \cup {id}
            /\ UNCHANGED hung
         \/ /\ MayFail
            /\ link' \in {link, linked}
            /\ behind' = [behind EXCEPT ![c] = @ \/ link' # link]
            /\ hung' = (hung \/ link' # link)
            /\ kept' = IF completing[c] = Idle THEN kept ELSE kept \ {completing[c].key}
            /\ UNCHANGED <<db, store, shown, overtaken>>

\* pki_key::deleteSqlData(): UPDATE x509super SET pkey=NULL WHERE pkey=?
PkeyAfter_Kept(k) == pkey
PkeyAfter(k) == [d \in Id |-> IF pkey[d] = k THEN None ELSE pkey[d]]

\* db_key::remFromCont(): the objects of all rows without a key forget theirs.
LinkAfter_Kept(c, k) == link
LinkAfter(c, k) ==
  [link EXCEPT ![c] =
    [d \in Id |-> IF d \in Docs \cap store[c] /\ PkeyAfter(k)[d] = None THEN None ELSE @[d]]]

\* db_base::remFromCont().  A deletion that fails does without: what the trees
\* then have is a pointer to a freed object, which counts as no item.
RemFromCont_Never(c, i) == shown
RemFromCont(c, i) == [shown EXCEPT ![c] = @ \ {i}]

\* db_base::deletePKI() of a key, whose row may be gone already.  When the
\* statement fails the object is given up all the same.
DeleteKeyPKI(c, k) ==
  /\ store' = [store EXCEPT ![c] = @ \ {k}]
  /\ shown' = RemFromCont(c, k)
  /\ \/ /\ alive' = alive \ {k}
        /\ pkey' = PkeyAfter(k)
        /\ link' = LinkAfter(c, k)
        /\ behind' = Outdated(c)
     \/ /\ MayFail
        /\ behind' = [behind EXCEPT ![c] = TRUE]
        /\ UNCHANGED <<alive, pkey, link>>
  /\ UNCHANGED <<last, item, overtaken, hung>>

------------------------------------------------------------------------------
Init ==
  /\ last = 0
  /\ item = [i \in Id |-> NoItem]
  /\ alive = {}
  /\ pkey = [i \in Id |-> None]
  /\ store = [c \in Client |-> {}]
  /\ shown = [c \in Client |-> {}]
  /\ link = [c \in Client |-> [i \in Id |-> None]]
  /\ completing = [c \in Client |-> Idle]
  /\ overtaken = FALSE
  /\ behind = [c \in Client |-> FALSE]
  /\ hung = FALSE
  /\ kept = {}

\* db_key::insert() of an imported, new or extracted key that is not there.
InsertKey(c, kind, p) ==
  /\ completing[c] = Idle
  /\ GetByReference(c, p) = {}
  /\ InsertKeyPKI(c, kind, p)
  /\ UNCHANGED completing

\* Mutant of db_key::insert(): any key is completed by any other one.
Complete_Any(c, kind, p) ==
  /\ completing[c] = Idle /\ last < MaxId
  /\ \E old \in GetByReference(c, p) :
       completing' = [completing EXCEPT ![c] =
         [phase |-> "told", key |-> old, kind |-> kind, pub |-> p]]
  /\ UNCHANGED <<db, store, shown, link, history>>

\* db_key::insert() finds the public part of the private key and tells so.
Complete(c, kind, p) ==
  /\ completing[c] = Idle /\ last < MaxId
  /\ \E old \in GetByReference(c, p) :
       /\ item[old].kind = "public" /\ kind = "private"
       /\ completing' = [completing EXCEPT ![c] =
            [phase |-> "told", key |-> old, kind |-> kind, pub |-> p]]
  /\ UNCHANGED <<db, store, shown, link, history>>

\* Mutant of db_key::insert(): the public key stays.
CompleteDelete_Never(c) ==
  /\ completing[c].phase = "told"
  /\ completing' = [completing EXCEPT ![c].phase = "deleted"]
  /\ UNCHANGED <<db, store, shown, link, history>>

\* Its deletePKI(): after a reload the object is in no tree, the index is
\* invalid and the process dies (Restart).
CompleteDelete(c) ==
  /\ completing[c].phase = "told"
  /\ DeleteKeyPKI(c, completing[c].key)
  /\ completing' = [completing EXCEPT ![c].phase = "deleted"]
  /\ UNCHANGED kept

CompleteInsert(c) ==
  /\ completing[c].phase = "deleted"
  /\ InsertKeyPKI(c, completing[c].kind, completing[c].pub)
  /\ completing' = [completing EXCEPT ![c] = Idle]

\* The user deletes a key.
DeleteKey(c, k) ==
  /\ completing[c] = Idle /\ k \in shown[c] /\ IsKey(k)
  /\ DeleteKeyPKI(c, k)
  /\ kept' = {j \in kept : ~Compare(j, item[k].pub)}
  /\ UNCHANGED completing

\* A certificate or request of public key p gets the next id; ref is the
\* reference of the object before lookupKey().
InsertDocPKI(c, p, copied) ==
  LET id == last + 1
  IN  /\ completing[c] = Idle /\ last < MaxId
      /\ \E k \in LookupKey(c, p, copied) :
           /\ pkey' = [pkey EXCEPT ![id] = k]
           /\ link' = [link EXCEPT ![c][id] = k]
           /\ item' = [item EXCEPT ![id] =
                [kind |-> "x509super", pub |-> p, hash |-> Hash[PubHash(p, k)]]]
      /\ last' = id
      /\ alive' = alive \cup {id}
      /\ store' = [store EXCEPT ![c] = @ \cup {id}]
      /\ shown' = [shown EXCEPT ![c] = @ \cup {id}]
      /\ behind' = Outdated(c)
      /\ UNCHANGED <<completing, hung, kept>>

\* An imported or new certificate or request.
InsertDoc(c, p) ==
  /\ InsertDocPKI(c, p, None)
  /\ overtaken' = (overtaken \/ ~Knows(c, p))

\* The copy of a certificate for its renewal: pki_x509::pki_x509(crt).
Renew(c, d) ==
  /\ d \in shown[c] /\ d \in Present /\ ~IsKey(d)
  /\ InsertDocPKI(c, item[d].pub, GetRefKey(c, d))
  /\ overtaken' = (overtaken \/ ~Knows(c, item[d].pub) \/ d \notin alive \/ link[c][d] # pkey[d])

\* deletePKI() of a certificate or request; a failure only gives up its object.
DeleteDoc(c, d) ==
  /\ completing[c] = Idle /\ d \in shown[c] /\ d \in Present /\ ~IsKey(d)
  /\ store' = [store EXCEPT ![c] = @ \ {d}]
  /\ shown' = RemFromCont(c, d)
  /\ link' = [link EXCEPT ![c][d] = None]
  /\ \/ /\ alive' = alive \ {d}
        /\ pkey' = [pkey EXCEPT ![d] = None]
        /\ behind' = Outdated(c)
     \/ /\ MayFail
        /\ behind' = [behind EXCEPT ![c] = TRUE]
        /\ UNCHANGED <<alive, pkey>>
  /\ UNCHANGED <<last, item, completing, overtaken, hung, kept>>

------------------------------------------------------------------------------
\* db_x509super::loadContainer(): new objects for the rows, then the reference
\* of every object of the Store is resolved.
Resolved(S, c) ==
  [d \in Id |-> LookupPki(S, IF d \in Docs THEN pkey[d] ELSE link[c][d])]

\* The poll reloads everything if the newest change was one of a key, or only
\* what depends on a certificate.
ReloadKeys(c) ==
  /\ completing[c].phase # "deleted"
  /\ store' = [store EXCEPT ![c] = @ \cup alive]
  /\ shown' = [shown EXCEPT ![c] = alive]
  /\ link' = [link EXCEPT ![c] = Resolved(store'[c], c)]
  /\ completing' = [completing EXCEPT ![c] =
       IF @.phase = "told" THEN [@ EXCEPT !.phase = "doomed"] ELSE @]
  /\ behind' = [behind EXCEPT ![c] = FALSE]
  /\ UNCHANGED <<db, overtaken, hung, kept>>

ReloadDocs(c) ==
  /\ completing[c].phase # "deleted"
  /\ store' = [store EXCEPT ![c] = @ \cup Docs]
  /\ shown' = [shown EXCEPT ![c] = {k \in @ : IsKey(k)} \cup Docs]
  /\ link' = [link EXCEPT ![c] = Resolved(store'[c], c)]
  /\ UNCHANGED <<db, completing, history>>

\* The process ends or dies and starts again.
Restart(c) ==
  /\ store' = [store EXCEPT ![c] = alive]
  /\ shown' = [shown EXCEPT ![c] = alive]
  /\ link' = [link EXCEPT ![c] =
       [d \in Id |-> IF d \in Docs THEN LookupPki(alive, pkey[d]) ELSE None]]
  /\ completing' = [completing EXCEPT ![c] = Idle]
  /\ behind' = [behind EXCEPT ![c] = FALSE]
  /\ kept' = IF completing[c].phase = "deleted" THEN kept \ {completing[c].key} ELSE kept
  /\ UNCHANGED <<db, overtaken, hung>>

Next ==
  \E c \in Client :
    \/ \E p \in Pub :
         \/ \E kind \in {"public", "private"} : InsertKey(c, kind, p) \/ Complete(c, kind, p)
         \/ InsertDoc(c, p)
    \/ CompleteDelete(c) \/ CompleteInsert(c)
    \/ \E i \in Id : DeleteKey(c, i) \/ DeleteDoc(c, i) \/ Renew(c, i)
    \/ ReloadKeys(c) \/ ReloadDocs(c) \/ Restart(c)

Spec == Init /\ [][Next]_vars

------------------------------------------------------------------------------
Item == [kind : Kind, pub : Pub, hash : {Hash[p] : p \in Pub}]
Completing ==
  [phase : {"told", "doomed", "deleted"}, key : Id, kind : Kind, pub : Pub] \cup {Idle}

\* The variables have their types; ids are given in order, and only rows of
\* x509super refer to keys.
TypeOK ==
  /\ last \in 0..MaxId
  /\ item \in [Id -> Item \cup {NoItem}]
  /\ \A i \in Id : i \in Present <=> item[i] # NoItem
  /\ alive \subseteq Present
  /\ pkey \in [Id -> Id \cup {None}]
  /\ \A d \in Id : pkey[d] # None => d \in Docs
  /\ store \in [Client -> SUBSET Present]
  /\ shown \in [Client -> SUBSET Present] /\ \A c \in Client : shown[c] \subseteq store[c]
  /\ link \in [Client -> [Id -> Id \cup {None}]]
  /\ completing \in [Client -> Completing]
  /\ overtaken \in BOOLEAN /\ hung \in BOOLEAN
  /\ behind \in [Client -> BOOLEAN]
  /\ \A k \in kept : IsKey(k)

KeyFor(d) == {k \in Keys : Compare(k, item[d].pub)}

\* Every certificate and request refers to the key in the database that has
\* its public key, if there is one (lib/db_base.cpp:332): keys and
\* certificates are inserted, completed, renewed and deleted in any order.
LinkedIfStored ==
  \A d \in Docs : IF KeyFor(d) = {} THEN pkey[d] = None ELSE pkey[d] \in KeyFor(d)
LinkedUnlessOvertaken == overtaken \/ LinkedIfStored

\* The reference of an object is that of its row, unless another process or a
\* failure has changed one of them since the last reload.
MemoryLinks ==
  overtaken \/ \A c \in Client : ~behind[c] =>
    /\ shown[c] = alive
    /\ \A d \in Docs : link[c][d] = pkey[d]

\* No key is stored twice: a private key replaces its public part.
OneKeyEach == overtaken \/ \A j, k \in Keys : item[j].pub = item[k].pub => j = k

\* A key is lost neither by completing it nor to its public part: it is stored
\* until a user deletes it or the completion is interrupted.
KeysKept ==
  \A k \in kept :
    \/ k \in alive
    \/ \E c \in Client : completing[c].phase = "deleted" /\ completing[c].key = k
    \/ \E j \in Keys : item[j].kind = "private" /\ Compare(j, item[k].pub)

\* An object never gives a key with another public key for its own, with
\* which the user would sign: ids are given again after a rollback, but by
\* then nothing refers to them unless it is a link left by a failed insertion.
OwnKeyOnly ==
  hung \/ \A c \in Client : \A d \in shown[c] :
    ~IsKey(d) /\ GetRefKey(c, d) # None => item[GetRefKey(c, d)].pub = item[d].pub
==============================================================================

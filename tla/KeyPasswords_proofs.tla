-------------------------- MODULE KeyPasswords_proofs --------------------------
(***************************************************************************)
(* Proofs about KeyPasswords for any number of clients, databases, keys    *)
(* and passwords.                                                          *)
(***************************************************************************)
EXTENDS KeyPasswords, TLAPS

\* Hashes of passwords are hashes, and none of them is the missing one.
LEMMA HashFacts ==
  /\ NoHash \in Hash
  /\ \A h \in Hash : h.of \in Password
  /\ \A p \in Password : T(p) \in Hash /\ T(p) # NoHash /\ T(p).of = p
  BY EmptyAssumption DEF Hash, NoHash, T

\* Rows of a database have a password type.
LEMMA RowsType ==
  ASSUME TypeOK, NEW d \in Db
  PROVE  /\ Rows(d) \in [Key -> OwnPass]
         /\ \A k \in Key : Rows(d)[k] # "absent" => DbOf[k] = d
         /\ NoRows \in [Key -> OwnPass]
         /\ \A k \in Key : NoRows[k] = "absent"
  BY DEF TypeOK, Rows, NoRows, OwnPass

LEMMA InitAgreed == Init => Agreed
<1> SUFFICES ASSUME Init PROVE Agreed
  OBVIOUS
<1> USE DEF Init
<1>1. TypeOK
  BY HashFacts, EmptyAssumption DEF TypeOK, Mode, OwnPass, NoRows
<1>2. PasswordOpensKeys
  BY DEF PasswordOpensKeys
<1>3. SessionsAgree
  BY DEF SessionsAgree
<1> QED
  BY <1>1, <1>2, <1>3 DEF Agreed

------------------------------------------------------------------------------
(* Type correctness, action by action.                                     *)

LEMMA OpenType ==
  ASSUME TypeOK, NEW c \in Client, NEW d \in Db, Open(c, d)
  PROVE  TypeOK'
<1>1. setting' \in [Client -> Hash] /\ passHash' \in [Client -> Hash] /\ flagged' \subseteq Client
  <2>1. CASE c \in loaded
    BY <2>1 DEF TypeOK, Open, Set
  <2>2. CASE c \notin loaded
    <3>1. setting' = [setting EXCEPT ![c] = hash[d]] /\ flagged' \in {flagged, flagged \cup {c}}
      BY <2>2 DEF Open, Set
    <3>2. hash[d] \in Hash
      BY DEF TypeOK
    <3>3. setting' \in [Client -> Hash] /\ flagged' \subseteq Client
      BY <3>1, <3>2 DEF TypeOK
    <3> QED
      BY <3>3 DEF TypeOK, Open, Set
  <2> QED
    BY <2>1, <2>2
<1>2. \A k \in Key : known[c][k] = "absent"
  BY DEF TypeOK, Open
<1>3. \A e \in Client, k \in Key :
        known'[e][k] # "absent" => mode'[e] = "open" /\ DbOf[k] = db'[e]
  BY <1>2 DEF TypeOK, Open, Set
<1> QED
  BY <1>1, <1>3 DEF TypeOK, Open, Set, dbVars, Mode

LEMMA OpenedType ==
  ASSUME TypeOK, NEW c \in Client, NEW p \in Password, Opened(c, p),
         hash' \in [Db -> Hash], setting' \in [Client -> Hash], misled' \in BOOLEAN
  PROVE  TypeOK'
<1>1. passHash' \in [Client -> Hash]
  BY HashFacts DEF TypeOK, Opened, Set
<1>2. /\ known' \in [Client -> [Key -> OwnPass]]
      /\ \A e \in Client, k \in Key :
           known'[e][k] # "absent" => mode'[e] = "open" /\ DbOf[k] = db'[e]
  BY RowsType DEF TypeOK, Opened, Set
<1>3. legacy' \subseteq legacy /\ converted' \subseteq Db /\ flagged' \subseteq Client
  BY DEF TypeOK, Opened
<1> QED
  BY <1>1, <1>2, <1>3 DEF TypeOK, Opened, Set, Mode

LEMMA NewPassType ==
  ASSUME TypeOK, NEW c \in Client, NEW p \in Password, NewPass(c, p)
  PROVE  TypeOK'
<1>1. hash' \in [Db -> Hash] /\ setting' \in [Client -> Hash] /\ misled' \in BOOLEAN
  BY HashFacts DEF TypeOK, NewPass, Set
<1> QED
  BY <1>1, OpenedType DEF NewPass

LEMMA GivePassType ==
  ASSUME TypeOK, NEW c \in Client, NEW p \in Password, GivePass(c, p)
  PROVE  TypeOK'
  BY OpenedType DEF TypeOK, GivePass

LEMMA EndType ==
  ASSUME TypeOK, NEW c \in Client, Cancel(c) \/ Abort(c) \/ Close(c) \/ Restart(c)
  PROVE  TypeOK'
<1>1. CASE Cancel(c)
  BY <1>1, RowsType DEF TypeOK, Cancel, Set, dbVars, Mode
<1>2. CASE Abort(c)
  <2>1. \A k \in Key : known[c][k] = "absent"
    BY <1>2 DEF TypeOK, Abort, Dismissed
  <2> QED
    BY <1>2, <2>1 DEF TypeOK, Abort, Set, dbVars, Mode
<1>3. CASE Close(c)
  BY <1>3, RowsType, HashFacts, EmptyAssumption DEF TypeOK, Close, ClearSettings, Set, dbVars, Mode
<1>4. CASE Restart(c)
  BY <1>4, RowsType, HashFacts, EmptyAssumption DEF TypeOK, Restart, ClearSettings, Set, dbVars, Mode
<1> QED
  BY <1>1, <1>2, <1>3, <1>4

LEMMA KeyStepType ==
  ASSUME TypeOK, NEW c \in Client, KeyStep(c)
  PROVE  TypeOK'
<1> USE DEF TypeOK, OwnPass, Set, session, dbVars
<1>1. ASSUME NEW k \in Key, InsertKey(c, k) PROVE TypeOK'
  BY <1>1, HashFacts DEF InsertKey
<1>2. ASSUME NEW k \in Key, DeleteKey(c, k) PROVE TypeOK'
  BY <1>2, EmptyAssumption DEF DeleteKey
<1>3. ASSUME NEW k \in Key, NEW p \in Password, SetOwnPass(c, k, p) PROVE TypeOK'
  BY <1>3 DEF SetOwnPass, OtherType
<1>4. ASSUME NEW k \in Key, NEW p \in Password, SetOwnPassFails(c, k, p) PROVE TypeOK'
  BY <1>4 DEF SetOwnPassFails, OtherType
<1>5. CASE Poll(c)
  BY <1>5, RowsType DEF Poll
<1> QED
  BY <1>1, <1>2, <1>3, <1>4, <1>5 DEF KeyStep

\* changeDbPass() leaves rows of the right type.
LEMMA ReencryptType ==
  ASSUME TypeOK, NEW c \in Client, NEW p \in Password, NEW q \in Password, Reencrypt(c, p, q)
  PROVE  /\ own' \in [Key -> OwnPass]
         /\ lock' \in [Key -> Password]
         /\ legacy' \subseteq {k \in Key : own'[k] # "absent"}
  BY DEF TypeOK, Reencrypt, KeyList, OwnPass

LEMMA ChangeDbPassType ==
  ASSUME TypeOK, NEW c \in Client, NEW p \in Password, NEW q \in Password, ChangeDbPass(c, p, q)
  PROVE  TypeOK'
<1>1. setting' \in [Client -> Hash] /\ passHash' \in [Client -> Hash] /\ passwd' \in [Client -> Password]
  BY HashFacts DEF TypeOK, ChangeDbPass, Remember, Set
<1>2. hash' \in [Db -> Hash] /\ misled' \in BOOLEAN
  BY HashFacts DEF TypeOK, ChangeDbPass, UpdateHash, Set
<1>3. Reencrypt(c, p, q) \/ UNCHANGED <<own, lock, legacy>>
  BY DEF ChangeDbPass
<1>4. /\ own' \in [Key -> OwnPass]
      /\ lock' \in [Key -> Password]
      /\ legacy' \subseteq {k \in Key : own'[k] # "absent"}
  BY <1>3, ReencryptType DEF TypeOK
<1> QED
  BY <1>1, <1>2, <1>4 DEF TypeOK, ChangeDbPass

LEMMA NextType == TypeOK /\ [Next]_vars => TypeOK'
<1> SUFFICES ASSUME TypeOK, [Next]_vars PROVE TypeOK'
  OBVIOUS
<1>1. CASE UNCHANGED vars
  BY <1>1 DEF TypeOK, vars, dbVars, session
<1>2. ASSUME NEW c \in Client, OpenStep(c) PROVE TypeOK'
  BY <1>2, OpenType, NewPassType, GivePassType, EndType DEF OpenStep
<1> QED
  BY <1>1, <1>2, KeyStepType, ChangeDbPassType DEF Next

------------------------------------------------------------------------------
(* While nobody was misled every client goes by the password of its        *)
(* database.                                                               *)

AllAgree == PasswordOpensKeys /\ SessionsAgree

LEMMA OpenAgrees ==
  ASSUME TypeOK, AllAgree, NEW c \in Client, NEW d \in Db, Open(c, d), ~misled'
  PROVE  AllAgree'
<1>1. setting'[c] = hash[d] /\ setting' \in [Client -> Hash]
  <2>1. CASE mode[c] = "closed"
    <3>1. setting' = [setting EXCEPT ![c] = hash[d]]
      BY <2>1 DEF AllAgree, SessionsAgree, Open, Set
    <3> QED
      BY <3>1 DEF TypeOK
  <2>2. CASE mode[c] = "aborted"
    <3>1. setting[c] = hash[d]
      BY <2>2 DEF Open
    <3>2. setting' = setting \/ setting' = [setting EXCEPT ![c] = hash[d]]
      BY DEF Open, Set
    <3> QED
      BY <3>1, <3>2 DEF TypeOK
  <2> QED
    BY <2>1, <2>2 DEF Open
<1>2. PasswordOpensKeys'
  BY DEF AllAgree, PasswordOpensKeys, Open, dbVars
<1>3. ASSUME NEW e \in Client, e # c
      PROVE  UNCHANGED <<mode[e], db[e], setting[e], passHash[e], e \in loaded>>
  BY <1>3 DEF TypeOK, Open, Set
<1>4. SessionsAgree'
  BY <1>1, <1>3 DEF TypeOK, AllAgree, SessionsAgree, Open, Set, dbVars
<1> QED
  BY <1>2, <1>4 DEF AllAgree

\* Somebody who is asked for a new password is the only one to set it.
LEMMA NewPassAgrees ==
  ASSUME TypeOK, AllAgree, NEW c \in Client, NEW p \in Password, NewPass(c, p), ~misled'
  PROVE  AllAgree'
<1>1. /\ hash[db[c]] = NoHash
      /\ hash' = [hash EXCEPT ![db[c]] = T(p)]
      /\ Others(c) = {}
  BY DEF TypeOK, AllAgree, SessionsAgree, NewPass, Set
<1>2. PasswordOpensKeys'
  BY <1>1, HashFacts, DbOfAssumption DEF TypeOK, AllAgree, PasswordOpensKeys, NewPass, Opened
<1>3. \A e \in Client : e # c /\ mode[e] \in {"asking", "open"} => db[e] # db[c]
  BY <1>1 DEF Others
<1>4. SessionsAgree'
  BY <1>1, <1>3, HashFacts DEF TypeOK, AllAgree, SessionsAgree, NewPass, Opened, Set
<1> QED
  BY <1>2, <1>4 DEF AllAgree

LEMMA GivePassAgrees ==
  ASSUME TypeOK, AllAgree, NEW c \in Client, NEW p \in Password, GivePass(c, p)
  PROVE  AllAgree'
<1>1. PasswordOpensKeys'
  BY DEF AllAgree, PasswordOpensKeys, GivePass, Opened
<1>2. SessionsAgree'
  BY HashFacts DEF TypeOK, AllAgree, SessionsAgree, GivePass, Opened, Set
<1> QED
  BY <1>1, <1>2 DEF AllAgree

LEMMA EndAgrees ==
  ASSUME TypeOK, AllAgree, NEW c \in Client, Cancel(c) \/ Abort(c) \/ Close(c) \/ Restart(c)
  PROVE  AllAgree'
<1>1. PasswordOpensKeys'
  BY DEF AllAgree, PasswordOpensKeys, Cancel, Abort, Close, Restart, dbVars
<1>2. ASSUME Cancel(c) PROVE SessionsAgree'
  BY <1>2 DEF TypeOK, AllAgree, SessionsAgree, Cancel, Dismissed, Set, dbVars
<1>3. ASSUME Abort(c) PROVE SessionsAgree'
  BY <1>3 DEF TypeOK, AllAgree, SessionsAgree, Abort, Set, dbVars
<1>4. ASSUME Close(c) PROVE SessionsAgree'
  BY <1>4 DEF TypeOK, AllAgree, SessionsAgree, Close, ClearSettings, Set, dbVars
<1>5. ASSUME Restart(c) PROVE SessionsAgree'
  BY <1>5 DEF TypeOK, AllAgree, SessionsAgree, Restart, ClearSettings, Set, dbVars
<1> QED
  BY <1>1, <1>2, <1>3, <1>4, <1>5 DEF AllAgree

LEMMA KeyStepAgrees ==
  ASSUME TypeOK, AllAgree, NEW c \in Client, KeyStep(c)
  PROVE  AllAgree'
<1>1. SessionsAgree'
  BY DEF AllAgree, SessionsAgree, KeyStep, InsertKey, DeleteKey, SetOwnPass, SetOwnPassFails, Poll,
         session, dbVars
<1> USE DEF TypeOK, AllAgree, PasswordOpensKeys, SessionsAgree, Set
<1>2. ASSUME NEW k \in Key, InsertKey(c, k) PROVE PasswordOpensKeys'
  BY <1>2 DEF InsertKey
<1>3. ASSUME NEW k \in Key, DeleteKey(c, k) PROVE PasswordOpensKeys'
  BY <1>3 DEF DeleteKey
<1>4. ASSUME NEW k \in Key, NEW p \in Password, SetOwnPass(c, k, p) PROVE PasswordOpensKeys'
  BY <1>4 DEF SetOwnPass, OtherType, EncryptsTo
<1>5. ASSUME NEW k \in Key, NEW p \in Password, SetOwnPassFails(c, k, p) PROVE PasswordOpensKeys'
  BY <1>5 DEF SetOwnPassFails, dbVars
<1>6. ASSUME Poll(c) PROVE PasswordOpensKeys'
  BY <1>6 DEF Poll, dbVars
<1> QED
  BY <1>1, <1>2, <1>3, <1>4, <1>5, <1>6 DEF KeyStep

\* A password changed by the only client that has the database open, which
\* has seen all of its keys.
LEMMA ChangeDbPassAgrees ==
  ASSUME TypeOK, AllAgree, NEW c \in Client, NEW p \in Password, NEW q \in Password,
         ChangeDbPass(c, p, q), ~misled'
  PROVE  AllAgree'
<1>1. /\ hash' = [hash EXCEPT ![db[c]] = T(p)]
      /\ Reencrypt(c, p, q)
      /\ Others(c) = {}
      /\ Unseen(c) = {}
  BY DEF ChangeDbPass, UpdateHash, Set
<1>2. ASSUME NEW k \in Key, own'[k] = "common"
      PROVE  hash'[DbOf[k]] # NoHash /\ lock'[k] = hash'[DbOf[k]].of
  <2>1. DbOf[k] \in Db /\ db[c] \in Db
    BY DbOfAssumption DEF TypeOK
  <2>2. CASE DbOf[k] = db[c]
    <3>1. hash'[DbOf[k]] = T(p)
      BY <1>1, <2>1, <2>2 DEF TypeOK
    <3>2. k \in KeyList(c)
      BY <1>1, <1>2, <2>2 DEF Unseen, KeyList, KeysOf, Reencrypt
    <3>3. lock'[k] = p
      BY <1>1, <1>2, <3>2 DEF Reencrypt
    <3> QED
      BY <3>1, <3>3, HashFacts
  <2>3. CASE DbOf[k] # db[c]
    <3>1. own'[k] = own[k] /\ lock'[k] = lock[k] /\ hash'[DbOf[k]] = hash[DbOf[k]]
      BY <1>1, <2>1, <2>3 DEF TypeOK, KeyList, KeysOf, Reencrypt
    <3> QED
      BY <1>2, <3>1 DEF AllAgree, PasswordOpensKeys
  <2> QED
    BY <2>2, <2>3
<1>3. \A e \in Client : e # c /\ mode[e] \in {"asking", "open"} => db[e] # db[c]
  BY <1>1 DEF Others
<1>4. SessionsAgree'
  BY <1>1, <1>3, HashFacts DEF TypeOK, AllAgree, SessionsAgree, ChangeDbPass, Remember, Set
<1> QED
  BY <1>2, <1>4 DEF AllAgree, PasswordOpensKeys

LEMMA NextAgreed == Agreed /\ [Next]_vars => Agreed'
<1> SUFFICES ASSUME Agreed, [Next]_vars, ~misled' PROVE AllAgree'
  BY NextType DEF Agreed, AllAgree
<1>1. misled = FALSE
  <2>1. CASE UNCHANGED vars
    BY <2>1 DEF vars
  <2>2. CASE Next
    BY <2>2 DEF Agreed, TypeOK, Next, OpenStep, KeyStep, Open, NewPass, GivePass, Cancel, Abort, Close,
                Restart, InsertKey, DeleteKey, SetOwnPass, SetOwnPassFails, Poll, ChangeDbPass
  <2> QED
    BY <2>1, <2>2
<1>2. TypeOK /\ AllAgree
  BY <1>1 DEF Agreed, AllAgree
<1>3. CASE UNCHANGED vars
  BY <1>2, <1>3 DEF vars, dbVars, session, AllAgree, PasswordOpensKeys, SessionsAgree
<1>4. ASSUME NEW c \in Client, OpenStep(c) PROVE AllAgree'
  BY <1>2, <1>4, OpenAgrees, NewPassAgrees, GivePassAgrees, EndAgrees DEF OpenStep
<1> QED
  BY <1>2, <1>3, <1>4, KeyStepAgrees, ChangeDbPassAgrees DEF Next

------------------------------------------------------------------------------
\* The inductive invariant: as long as no client was misled, every client goes
\* by the password of its database and this password opens its keys.
THEOREM AgreedHolds == Spec => []Agreed
<1> QED
  BY InitAgreed, NextAgreed, PTL DEF Spec

\* Type correctness.
THEOREM TypeCorrect == Spec => []TypeOK
<1>1. Agreed => TypeOK
  BY DEF Agreed
<1> QED
  BY <1>1, AgreedHolds, PTL

\* The password of a database opens its common keys unless a client was misled
\* (changeDbPass(), encryptKey(), initPass(), settings::clear()).
THEOREM KeysStayOpen == Spec => []KeysOpen
<1>1. Agreed => KeysOpen
  BY DEF Agreed, KeysOpen
<1> QED
  BY <1>1, AgreedHolds, PTL

\* No key in the old format is in a database with legacy-keys-updated
\* (db_key::updateKeyEncryptionScheme()).
THEOREM LegacyStaysGone == Spec => []LegacyGone
<1>1. Init => LegacyGone
  BY DEF Init, LegacyGone
<1>2. TypeOK /\ LegacyGone /\ [Next]_vars => LegacyGone'
  <2> SUFFICES ASSUME TypeOK, LegacyGone, [Next]_vars PROVE LegacyGone'
    OBVIOUS
  <2>1. ASSUME NEW c \in Client, NEW p \in Password, Opened(c, p) PROVE LegacyGone'
    BY <2>1 DEF TypeOK, LegacyGone, Opened, AllConverted, KeysOf
  <2>2. ASSUME legacy' \subseteq legacy, converted' = converted PROVE LegacyGone'
    BY <2>2 DEF LegacyGone
  <2>3. CASE UNCHANGED vars
    BY <2>2, <2>3 DEF vars, dbVars
  <2>4. ASSUME NEW c \in Client, OpenStep(c) PROVE LegacyGone'
    BY <2>1, <2>2, <2>4 DEF OpenStep, Open, NewPass, GivePass, Cancel, Abort, Close, Restart, dbVars
  <2>5. ASSUME NEW c \in Client, KeyStep(c) PROVE LegacyGone'
    BY <2>2, <2>5 DEF KeyStep, InsertKey, DeleteKey, SetOwnPass, SetOwnPassFails, Poll, dbVars
  <2>6. ASSUME NEW c \in Client, NEW p \in Password, NEW q \in Password, ChangeDbPass(c, p, q)
        PROVE  LegacyGone'
    BY <2>2, <2>6 DEF ChangeDbPass, Reencrypt
  <2> QED
    BY <2>3, <2>4, <2>5, <2>6 DEF Next
<1> QED
  BY <1>1, <1>2, TypeCorrect, PTL DEF Spec

\* Setting the password of a database leaves the keys with a password of their
\* own as they are (the SELECT of changeDbPass()).
THEOREM PrivateStaysPrivate == Spec => ChangeSparesPrivate
<1> DEFINE Spared(k) ==
      hash'[DbOf[k]] # hash[DbOf[k]] /\ own[k] = "private" =>
        own'[k] = "private" /\ lock'[k] = lock[k] /\ (k \in legacy => k \in legacy')
<1>1. TypeOK /\ [Next]_vars => [\A k \in Key : Spared(k)]_vars
  <2> SUFFICES ASSUME TypeOK, Next, NEW k \in Key PROVE Spared(k)
    OBVIOUS
  <2>1. CASE hash' = hash
    BY <2>1
  <2>2. ASSUME NEW c \in Client, NEW p \in Password, NewPass(c, p) PROVE Spared(k)
    BY <2>2 DEF NewPass, Opened, Convertible
  <2>3. ASSUME NEW c \in Client, NEW p \in Password, NEW q \in Password, ChangeDbPass(c, p, q)
        PROVE  Spared(k)
    BY <2>3 DEF TypeOK, ChangeDbPass, Reencrypt, KeyList
  <2>4. ASSUME NEW c \in Client, OpenStep(c) PROVE Spared(k)
    BY <2>1, <2>2, <2>4 DEF OpenStep, Open, GivePass, Cancel, Abort, Close, Restart, dbVars
  <2>5. ASSUME NEW c \in Client, KeyStep(c) PROVE Spared(k)
    BY <2>1, <2>5 DEF KeyStep, InsertKey, DeleteKey, SetOwnPass, SetOwnPassFails, Poll, dbVars
  <2> QED
    BY <2>3, <2>4, <2>5 DEF Next
<1> QED
  BY <1>1, TypeCorrect, PTL DEF Spec, ChangeSparesPrivate
==============================================================================

------------------------- MODULE DbTransaction_proofs -------------------------
(***************************************************************************)
(* Proofs about DbTransaction: nested transactions implement the flat one  *)
(* of AtomicTransaction, and with one writer at a time every change gets a *)
(* stamp no other client has seen.                                         *)
(***************************************************************************)
EXTENDS DbTransaction, WellFoundedInduction, TLAPS

\* The inductive invariant.
IInv == TypeOK /\ Balanced /\ Stampable

------------------------------------------------------------------------------
(* Stamps.                                                                 *)

\* Every set of natural numbers with an element has a least one.
LEMMA LeastNatural ==
  ASSUME NEW S \in SUBSET Nat, S # {}
  PROVE  \E m \in S : \A n \in S : m <= n
<1>1. PICK m \in S : \A n \in S : <<n, m>> \notin OpToRel(<, Nat)
  BY NatLessThanWellFounded, WFMin
<1>2. \A n \in S : ~(n < m)
  BY <1>1, Zenon DEF OpToRel
<1> QED BY <1>2

\* SELECT MAX(stamp) is the stamp of a row and bounds that of all rows.
LEMMA TopStampProperty ==
  ASSUME TypeOK
  PROVE  /\ TopStamp \in 0..MaxStamp
         /\ \E i \in Id : TopStamp = rows[i].stamp
         /\ \A i \in Id : rows[i].stamp <= TopStamp
<1> DEFINE Bounds == {n \in 0..MaxStamp : \A i \in Id : rows[i].stamp <= n}
<1>1. rows \in [Id -> [content : Content, stamp : 0..MaxStamp]]
  BY DEF TypeOK
<1>2. MaxStamp \in Bounds
  BY <1>1, BoundsAssumption
<1> Bounds \subseteq Nat
  BY BoundsAssumption
<1>3. PICK m \in Bounds : \A n \in Bounds : m <= n
  <2> HIDE DEF Bounds
  <2> QED BY <1>2, LeastNatural
<1>4. \E i \in Id : m = rows[i].stamp
  <2>1. SUFFICES ASSUME \A i \in Id : m # rows[i].stamp PROVE FALSE
    OBVIOUS
  <2>2. 1 \in Id
    BY BoundsAssumption DEF Id
  <2>3. \A i \in Id : rows[i].stamp <= m - 1
    BY <1>1, <2>1, BoundsAssumption
  <2>4. m - 1 \in Bounds
    BY <1>1, <2>2, <2>3, BoundsAssumption
  <2> QED BY <1>3, <2>4, BoundsAssumption
<1> QED BY <1>3, <1>4, Zenon DEF TopStamp

\* The rows a client sees have contents.
LEMMA VisibleType ==
  ASSUME TypeOK, NEW c \in Client
  PROVE  VisibleContent(c) \in [Id -> Content]
BY DEF TypeOK, VisibleContent, Unwritten, Content

------------------------------------------------------------------------------
(* Type correctness.                                                       *)

\* Levels of nesting.
LEMMA MutexType ==
  ASSUME TypeOK, NEW c \in Client, NEW n \in Nat, n <= MaxLevel[c],
         mutex' = [mutex EXCEPT ![c] = n]
  PROVE  mutex' \in [Client -> Nat] /\ \A d \in Client : mutex'[d] <= MaxLevel[d]
<1>1. mutex \in [Client -> Nat] /\ \A d \in Client : mutex[d] <= MaxLevel[d]
  BY DEF TypeOK
<1> QED BY <1>1

\* Levels of nesting are natural numbers within their bound.
LEMMA LevelsAreNat ==
  ASSUME TypeOK, NEW c \in Client
  PROVE  mutex[c] \in Nat /\ MaxLevel[c] \in Nat /\ mutex[c] <= MaxLevel[c]
<1>1. MaxLevel[c] \in Nat
  BY BoundsAssumption
<1>2. mutex[c] \in Nat /\ mutex[c] <= MaxLevel[c]
  BY DEF TypeOK
<1> QED BY <1>1, <1>2

\* The types at the start.
LEMMA InitType == Init => TypeOK
BY BoundsAssumption DEF Init, TypeOK, NoWrites, Content, Unwritten

\* The statements of an operation keep the types.
LEMMA OperationType ==
  ASSUME TypeOK, NEW c \in Client, NEW i \in Id,
         Insert(c, i) \/ Change(c, i) \/ Delete(c, i) \/ DeleteFails(c, i)
  PROVE  TypeOK'
<1>1. CASE Insert(c, i)
  BY <1>1 DEF TypeOK, Insert, WriteRow, Show, Content
<1>2. CASE Change(c, i)
  BY <1>2 DEF TypeOK, Change, Update, WriteRow, Show, Content
<1>a. CASE InDeletePKI(c, i)
  <2>1. /\ items' \in [Client -> SUBSET Id]
        /\ late' \in [Client -> SUBSET Id]
        /\ store' \in [Client -> [Id -> Content]]
    <3>1. items \in [Client -> SUBSET Id] /\ late \in [Client -> SUBSET Id]
      BY DEF TypeOK
    <3>2. CASE mutex[c] = 1
      <4>1. late' = [late EXCEPT ![c] = {i}] /\ items' = items
        BY <1>a, <3>2 DEF InDeletePKI, AffectedByDelete
      <4>2. items' \in [Client -> SUBSET Id] /\ late' \in [Client -> SUBSET Id]
        BY <3>1, <4>1
      <4> QED BY <1>a, <4>2 DEF TypeOK, InDeletePKI, Show, Content
    <3>3. CASE mutex[c] # 1
      <4>1. items' = [items EXCEPT ![c] = items[c] \cup {i}] /\ late' = late
        BY <1>a, <3>3 DEF InDeletePKI, AffectedByDelete
      <4>2. items' \in [Client -> SUBSET Id] /\ late' \in [Client -> SUBSET Id]
        BY <3>1, <4>1
      <4> QED BY <1>a, <4>2 DEF TypeOK, InDeletePKI, Show, Content
    <3> QED BY <3>2, <3>3
  <2>2. CASE Delete(c, i)
    <3>1. writes' \in [Client -> [Id -> Content \cup {Unwritten}]]
      BY <2>2 DEF TypeOK, Delete, WriteRow, Content
    <3>2. UNCHANGED <<rows, mutex, error, stamping, known, polled, prompt, broken, loyal>>
      BY <2>2 DEF Delete
    <3> QED BY <2>1, <3>1, <3>2 DEF TypeOK
  <2>3. CASE DeleteFails(c, i)
    BY <2>1, <2>3 DEF TypeOK, DeleteFails
  <2>4. CASE Insert(c, i) \/ Change(c, i)
    BY <2>4, <1>1, <1>2
  <2> QED BY <2>2, <2>3, <2>4
<1> QED BY <1>1, <1>2, <1>a DEF Delete, DeleteFails

\* finish() keeps the types.
LEMMA FinishType ==
  ASSUME TypeOK, NEW c \in Client, Finish(c)
  PROVE  TypeOK'
<1> DEFINE MutexOK == /\ mutex' \in [Client -> Nat]
                      /\ \A d \in Client : mutex'[d] <= MaxLevel[d]
<1>0. NoWrites \in [Id -> Content \cup {Unwritten}]
  BY DEF NoWrites
<1>1. ASSUME NEW ok \in BOOLEAN, FinishNested(c, ok) PROVE TypeOK'
  <2>1. MutexOK
    <3>1. mutex[c] - 1 \in Nat /\ mutex[c] - 1 <= MaxLevel[c]
      BY <1>1, LevelsAreNat DEF FinishNested
    <3> QED BY <1>1, <3>1, MutexType DEF FinishNested, Leave
  <2>2. broken' \in [Client -> BOOLEAN] /\ error' \in [Client -> BOOLEAN]
    BY <1>1, Zenon DEF TypeOK, FinishNested, Leave
  <2> QED BY <1>1, <2>1, <2>2 DEF TypeOK, FinishNested, Leave
<1>2. ASSUME NEW ok \in BOOLEAN, RollBack(c, ok) PROVE TypeOK'
  <2>1. MutexOK
    <3>1. 0 \in Nat /\ 0 <= MaxLevel[c]
      BY LevelsAreNat
    <3>2. mutex' = [mutex EXCEPT ![c] = 0]
      BY <1>2 DEF RollBack, Close
    <3> QED BY <3>1, <3>2, MutexType
  <2>2. loyal' \in [Client -> BOOLEAN]
    BY <1>2, Zenon DEF TypeOK, RollBack
  <2> QED BY <1>0, <1>2, <2>1, <2>2 DEF TypeOK, RollBack, Close
<1>3. CASE Stamp(c)
  <2>1. NextStamp(c) \in 0..MaxStamp
    BY <1>3, TopStampProperty, BoundsAssumption DEF Stamp, NextStamp
  <2> QED BY <1>3, <2>1 DEF TypeOK, Stamp
<1>4. CASE Commit(c)
  <2>1. MutexOK
    <3>1. 0 \in Nat /\ 0 <= MaxLevel[c]
      BY LevelsAreNat
    <3>2. mutex' = [mutex EXCEPT ![c] = 0]
      BY <1>4 DEF Commit, Close
    <3> QED BY <3>1, <3>2, MutexType
  <2>2. rows' \in [Id -> [content : Content, stamp : 0..MaxStamp]]
    BY <1>4, VisibleType DEF TypeOK, Commit
  <2>3. prompt' \in [Client -> BOOLEAN]
    BY <1>4, Zenon DEF TypeOK, Commit
  <2> QED BY <1>0, <1>4, <2>1, <2>2, <2>3 DEF TypeOK, Commit, Close
<1> QED BY <1>1, <1>2, <1>3, <1>4 DEF Finish

\* Every step keeps the types.
LEMMA NextType ==
  ASSUME TypeOK, [Next]_vars
  PROVE  TypeOK'
<1> DEFINE MutexOK == /\ mutex' \in [Client -> Nat]
                      /\ \A d \in Client : mutex'[d] <= MaxLevel[d]
<1>1. ASSUME NEW c \in Client, Begin(c) PROVE TypeOK'
  <2>1. MutexOK
    <3>1. mutex[c] + 1 \in Nat /\ mutex[c] + 1 <= MaxLevel[c]
      BY <1>1, LevelsAreNat DEF Begin
    <3> QED BY <1>1, <3>1, MutexType DEF Begin
  <2> QED BY <1>1, <2>1 DEF TypeOK, Begin
<1>2. ASSUME NEW c \in Client, Poll(c) PROVE TypeOK'
  <2>1. Reloaded(c) \in [Id -> Content]
    BY VisibleType DEF TypeOK, Reloaded, ReloadContainers
  <2>2. polled' \in [Client -> BOOLEAN]
    BY <1>2, Zenon DEF TypeOK, Poll
  <2> QED BY <1>2, <2>1, <2>2, TopStampProperty DEF TypeOK, Poll, clientVars
<1>3. ASSUME NEW c \in Client, Restart(c) PROVE TypeOK'
  <2>1. MutexOK
    <3>1. 0 \in Nat /\ 0 <= MaxLevel[c]
      BY LevelsAreNat
    <3>2. mutex' = [mutex EXCEPT ![c] = 0]
      BY <1>3 DEF Restart
    <3> QED BY <3>1, <3>2, MutexType
  <2>2. /\ writes' \in [Client -> [Id -> Content \cup {Unwritten}]]
        /\ known' \in [Client -> 0..MaxStamp]
        /\ store' \in [Client -> [Id -> Content]]
    BY <1>3, BoundsAssumption DEF TypeOK, Restart, NoWrites
  <2> QED BY <1>3, <2>1, <2>2 DEF TypeOK, Restart
<1>4. CASE UNCHANGED vars
  BY <1>4 DEF TypeOK, vars, clientVars
<1> QED BY <1>1, <1>2, <1>3, <1>4, OperationType, FinishType DEF Next


------------------------------------------------------------------------------
(* The static members of DbTransaction.                                    *)

\* Balanced for one client.
BalancedAt(c) ==
  /\ error[c] = broken[c]
  /\ stamping[c] => mutex[c] = 1 /\ ~error[c]
  /\ Idle(c) => ~Writing(c) /\ ~error[c]

\* At the start nobody is in a transaction.
LEMMA InitBalanced == Init => Balanced
BY DEF Init, Balanced, Idle, Writing

\* What no step of another client touches.
SameClient(c) ==
  /\ error'[c] = error[c] /\ broken'[c] = broken[c] /\ stamping'[c] = stamping[c]
  /\ mutex'[c] = mutex[c] /\ writes'[c] = writes[c]

\* Balanced is about the data of one client.
LEMMA SameClientBalanced ==
  ASSUME NEW c \in Client, BalancedAt(c), SameClient(c)
  PROVE  BalancedAt(c)'
BY DEF BalancedAt, SameClient, Idle, Writing

Step(c) ==
  \/ Begin(c)
  \/ \E i \in Id : Insert(c, i) \/ Change(c, i) \/ Delete(c, i) \/ DeleteFails(c, i)
  \/ Finish(c)
  \/ Poll(c)
  \/ Restart(c)

\* A step of one client leaves the transaction of another alone.
LEMMA OthersUntouched ==
  ASSUME TypeOK, NEW c \in Client, NEW d \in Client \ {c}, Step(c)
  PROVE  SameClient(d)
<1> USE DEF SameClient, TypeOK
<1>1. CASE Begin(c)
  BY <1>1 DEF Begin
<1>2. ASSUME NEW i \in Id, Insert(c, i) \/ Change(c, i) \/ Delete(c, i)
      PROVE SameClient(d)
  BY <1>2 DEF Insert, Change, Update, Delete, WriteRow
<1>3. ASSUME NEW i \in Id, DeleteFails(c, i) PROVE SameClient(d)
  BY <1>3 DEF DeleteFails
<1>4. ASSUME NEW ok \in BOOLEAN, FinishNested(c, ok) PROVE SameClient(d)
  BY <1>4 DEF FinishNested, Leave
<1>5. ASSUME NEW ok \in BOOLEAN, RollBack(c, ok) PROVE SameClient(d)
  BY <1>5 DEF RollBack, Close
<1>6. CASE Stamp(c)
  BY <1>6 DEF Stamp
<1>7. CASE Commit(c)
  BY <1>7 DEF Commit, Close
<1>8. CASE Poll(c)
  BY <1>8 DEF Poll, clientVars
<1>9. CASE Restart(c)
  BY <1>9 DEF Restart
<1> QED BY <1>1, <1>2, <1>3, <1>4, <1>5, <1>6, <1>7, <1>8, <1>9 DEF Step, Finish

\* A step keeps the static members of its client balanced.
LEMMA StepBalanced ==
  ASSUME TypeOK, NEW c \in Client, BalancedAt(c), Step(c)
  PROVE  BalancedAt(c)'
<1>0. mutex[c] \in Nat /\ stamping[c] \in BOOLEAN /\ error[c] \in BOOLEAN
  BY DEF TypeOK
<1>1. CASE Begin(c)
  <2>1. mutex'[c] = mutex[c] + 1 /\ UNCHANGED <<writes, error, stamping, broken>>
    BY <1>1 DEF Begin, TypeOK
  <2> QED BY <1>0, <1>1, <2>1 DEF Begin, BalancedAt, Idle
<1>2. ASSUME NEW i \in Id, Insert(c, i) \/ Change(c, i) \/ Delete(c, i)
      PROVE BalancedAt(c)'
  <2>1. mutex[c] # 0 /\ ~stamping[c]
    BY <1>0, <1>2 DEF Insert, Change, Update, Delete, InDeletePKI, InOperation
  <2>2. UNCHANGED <<mutex, error, stamping, broken>>
    BY <1>2 DEF Insert, Change, Update, Delete
  <2> QED BY <2>1, <2>2 DEF BalancedAt, Idle
<1>3. ASSUME NEW i \in Id, DeleteFails(c, i) PROVE BalancedAt(c)'
  <2>1. mutex[c] # 0 /\ ~stamping[c]
    BY <1>0, <1>3 DEF DeleteFails, InDeletePKI, InOperation
  <2>2. UNCHANGED <<mutex, stamping>> /\ error'[c] = TRUE /\ broken'[c] = TRUE
    BY <1>3 DEF DeleteFails, TypeOK
  <2> QED BY <2>1, <2>2 DEF BalancedAt, Idle
<1>4. ASSUME NEW ok \in BOOLEAN, FinishNested(c, ok) PROVE BalancedAt(c)'
  <2>1. mutex'[c] # 0 /\ ~stamping'[c]
    BY <1>0, <1>4 DEF FinishNested, Leave, TypeOK
  <2>2. error'[c] = (error[c] \/ ~ok) /\ broken'[c] = (broken[c] \/ ~ok)
    BY <1>4, Zenon DEF FinishNested, Leave, TypeOK
  <2>3. error'[c] = broken'[c]
    BY <2>2, Zenon DEF BalancedAt
  <2> QED BY <2>1, <2>3, Zenon DEF BalancedAt, Idle
<1>5. ASSUME NEW ok \in BOOLEAN, RollBack(c, ok) PROVE BalancedAt(c)'
  BY <1>5 DEF RollBack, Close, TypeOK, BalancedAt, Idle, Writing
<1>6. CASE Stamp(c)
  BY <1>0, <1>6 DEF Stamp, TypeOK, BalancedAt, Idle
<1>7. CASE Commit(c)
  BY <1>7 DEF Commit, Close, TypeOK, BalancedAt, Idle, Writing
<1>8. CASE Poll(c)
  <2>1. SameClient(c)
    BY <1>8 DEF Poll, clientVars, SameClient
  <2> QED BY <2>1, SameClientBalanced
<1>9. CASE Restart(c)
  BY <1>9 DEF Restart, TypeOK, BalancedAt, Idle, Writing
<1> QED BY <1>1, <1>2, <1>3, <1>4, <1>5, <1>6, <1>7, <1>8, <1>9 DEF Step, Finish

\* Every step keeps Balanced.
LEMMA NextBalanced ==
  ASSUME TypeOK, Balanced, [Next]_vars
  PROVE  Balanced'
<1>1. SUFFICES ASSUME NEW d \in Client PROVE BalancedAt(d)'
  BY DEF Balanced, BalancedAt, Idle, Writing
<1>2. BalancedAt(d)
  BY DEF Balanced, BalancedAt
<1>3. CASE UNCHANGED vars
  <2>1. SameClient(d)
    BY <1>3 DEF vars, clientVars, SameClient
  <2> QED BY <1>2, <2>1, SameClientBalanced
<1>4. ASSUME NEW c \in Client, Step(c) PROVE BalancedAt(d)'
  BY <1>2, <1>4, SameClientBalanced, OthersUntouched, StepBalanced
<1> QED BY <1>3, <1>4 DEF Next, Step


------------------------------------------------------------------------------
(* Stamps.                                                                 *)

\* At the start there are no rows.
LEMMA InitStampable == Init => Stampable
<1> SUFFICES ASSUME Init PROVE Stampable
  OBVIOUS
<1>1. /\ \A i \in Id : rows[i].stamp = 0
      /\ \A c \in Client : writes[c] = NoWrites /\ ~stamping[c]
      /\ \A c \in Client, i \in Id : writes[c][i] = Unwritten
  BY DEF Init, NoWrites
<1> QED
  BY <1>1 DEF Stampable, AbsentUnstamped, Reported, WritersApart, FreshStamp, Writing, Unwritten

\* What a step of one client leaves of the data of another.
LEMMA OthersKept ==
  ASSUME TypeOK, NEW c \in Client, NEW d \in Client \ {c}, Step(c)
  PROVE  items'[d] = items[d] /\ known'[d] = known[d]
<1> USE DEF TypeOK
<1>1. CASE Begin(c)
  BY <1>1 DEF Begin
<1>2. ASSUME NEW i \in Id, Insert(c, i) PROVE items'[d] = items[d] /\ known'[d] = known[d]
  BY <1>2 DEF Insert
<1>3. ASSUME NEW i \in Id, Change(c, i) PROVE items'[d] = items[d] /\ known'[d] = known[d]
  BY <1>3 DEF Change, Update
<1>4. ASSUME NEW i \in Id, Delete(c, i) \/ DeleteFails(c, i)
      PROVE items'[d] = items[d] /\ known'[d] = known[d]
  <2>1. known' = known /\ AffectedByDelete(c, i)
    BY <1>4 DEF Delete, DeleteFails, InDeletePKI
  <2>2. items' = items \/ items' = [items EXCEPT ![c] = items[c] \cup {i}]
    BY <2>1 DEF AffectedByDelete
  <2> QED BY <2>1, <2>2
<1>5. ASSUME NEW ok \in BOOLEAN, FinishNested(c, ok) PROVE items'[d] = items[d] /\ known'[d] = known[d]
  BY <1>5 DEF FinishNested, Leave
<1>6. ASSUME NEW ok \in BOOLEAN, RollBack(c, ok) PROVE items'[d] = items[d] /\ known'[d] = known[d]
  BY <1>6 DEF RollBack, Close
<1>7. CASE Stamp(c)
  BY <1>7 DEF Stamp
<1>8. CASE Commit(c)
  BY <1>8 DEF Commit, Close
<1>9. CASE Poll(c)
  BY <1>9 DEF Poll, clientVars
<1>10. CASE Restart(c)
  BY <1>10 DEF Restart
<1> QED BY <1>1, <1>2, <1>3, <1>4, <1>5, <1>6, <1>7, <1>8, <1>9, <1>10 DEF Step, Finish

\* A client only stamps with the stamp it has just computed.
LEMMA OwnStamping ==
  ASSUME TypeOK, NEW c \in Client, Step(c), stamping'[c]
  PROVE  Stamp(c)
<1> USE DEF TypeOK
<1>1. CASE Begin(c)
  BY <1>1 DEF Begin
<1>2. ASSUME NEW i \in Id, Insert(c, i) \/ Change(c, i) \/ Delete(c, i) \/ DeleteFails(c, i)
      PROVE ~stamping'[c]
  BY <1>2 DEF Insert, Change, Update, Delete, DeleteFails, InDeletePKI, InOperation
<1>3. ASSUME NEW ok \in BOOLEAN, FinishNested(c, ok) PROVE ~stamping'[c]
  BY <1>3 DEF FinishNested, Leave
<1>4. ASSUME NEW ok \in BOOLEAN, RollBack(c, ok) PROVE ~stamping'[c]
  BY <1>4 DEF RollBack, Close
<1>5. CASE Commit(c)
  BY <1>5 DEF Commit, Close
<1>6. CASE Poll(c)
  BY <1>6 DEF Poll, clientVars
<1>7. CASE Restart(c)
  BY <1>7 DEF Restart
<1> QED BY <1>1, <1>2, <1>3, <1>4, <1>5, <1>6, <1>7 DEF Step, Finish, Begin

\* What a statement of client c does to the row i.
WritesRow(c, i, v) ==
  /\ CanWrite(c, i)
  /\ writes'[c] = [writes[c] EXCEPT ![i] = v]
  /\ v = "new" => VisibleContent(c)[i] = "none"
  /\ v = "changed" => i \in items'[c]

\* The written rows of the client that takes a step.
OwnWrites(c) ==
  \/ writes'[c] = NoWrites
  \/ /\ items[c] \subseteq items'[c]
     /\ \/ writes'[c] = writes[c]
        \/ \E i \in Id, v \in {"new", "changed", "deleted"} : WritesRow(c, i, v)

\* Insert, update and delete write one row or none.
LEMMA StatementWrites ==
  ASSUME TypeOK, NEW c \in Client, NEW i \in Id,
         Insert(c, i) \/ Change(c, i) \/ Delete(c, i)
  PROVE  OwnWrites(c)
<1>0. writes \in [Client -> [Id -> Content \cup {Unwritten}]] /\ items \in [Client -> SUBSET Id]
  BY DEF TypeOK
<1>1. CASE Insert(c, i)
  <2>1. VisibleContent(c)[i] = "none"
    BY <1>1 DEF Insert, IsNextId, Id
  <2>2. WritesRow(c, i, "new")
    BY <1>0, <1>1, <2>1 DEF Insert, WriteRow, WritesRow
  <2> QED BY <1>1, <2>2 DEF Insert, OwnWrites
<1>2. CASE Change(c, i)
  <2>1. items'[c] = items[c] \cup {i}
    BY <1>0, <1>2 DEF Change
  <2>2. CASE VisibleContent(c)[i] = "none"
    BY <1>0, <1>2, <2>1, <2>2 DEF Change, Update, WriteRow, OwnWrites
  <2>3. CASE VisibleContent(c)[i] = "deleted"
    <3>1. WritesRow(c, i, "deleted")
      BY <1>0, <1>2, <2>1, <2>3 DEF Change, Update, WriteRow, WritesRow
    <3> QED BY <2>1, <3>1 DEF OwnWrites
  <2>4. CASE VisibleContent(c)[i] \notin {"none", "deleted"}
    <3>1. WritesRow(c, i, "changed")
      BY <1>0, <1>2, <2>1, <2>4 DEF Change, Update, WriteRow, WritesRow
    <3> QED BY <2>1, <3>1 DEF OwnWrites
  <2> QED BY <2>2, <2>3, <2>4
<1>3. CASE Delete(c, i)
  <2>1. items[c] \subseteq items'[c]
    <3>1. AffectedByDelete(c, i)
      BY <1>3 DEF Delete, InDeletePKI
    <3>2. items' = items \/ items' = [items EXCEPT ![c] = items[c] \cup {i}]
      BY <3>1 DEF AffectedByDelete
    <3> QED BY <1>0, <3>2
  <2>2. CASE VisibleContent(c)[i] = "none"
    BY <1>0, <1>3, <2>1, <2>2 DEF Delete, WriteRow, OwnWrites
  <2>3. CASE VisibleContent(c)[i] # "none"
    <3>1. WritesRow(c, i, "deleted")
      BY <1>0, <1>3, <2>3 DEF Delete, WriteRow, WritesRow
    <3> QED BY <2>1, <3>1 DEF OwnWrites
  <2> QED BY <2>2, <2>3
<1> QED BY <1>1, <1>2, <1>3

\* So does every step, unless it ends the transaction.
LEMMA StepWrites ==
  ASSUME TypeOK, NEW c \in Client, Step(c)
  PROVE  OwnWrites(c)
<1> USE DEF TypeOK
<1>1. CASE Begin(c) \/ Stamp(c) \/ Poll(c)
  BY <1>1 DEF Begin, Stamp, Poll, clientVars, OwnWrites
<1>2. ASSUME NEW i \in Id, DeleteFails(c, i) PROVE OwnWrites(c)
  <2>1. writes' = writes /\ AffectedByDelete(c, i)
    BY <1>2 DEF DeleteFails, InDeletePKI
  <2>2. items' = items \/ items' = [items EXCEPT ![c] = items[c] \cup {i}]
    BY <2>1 DEF AffectedByDelete
  <2> QED BY <2>1, <2>2 DEF OwnWrites
<1>3. ASSUME NEW ok \in BOOLEAN, FinishNested(c, ok) PROVE OwnWrites(c)
  BY <1>3 DEF FinishNested, Leave, OwnWrites
<1>4. ASSUME NEW ok \in BOOLEAN, RollBack(c, ok) PROVE OwnWrites(c)
  BY <1>4 DEF RollBack, Close, OwnWrites
<1>5. CASE Commit(c) \/ Restart(c)
  BY <1>5 DEF Commit, Close, Restart, OwnWrites
<1> QED BY <1>1, <1>2, <1>3, <1>4, <1>5, StatementWrites DEF Step, Finish

\* Only a commit changes the rows others see.
LEMMA RowsKept ==
  ASSUME NEW c \in Client, Step(c), ~Commit(c)
  PROVE  rows' = rows
BY DEF Step, Finish, Begin, Insert, Change, Update, Delete, DeleteFails, FinishNested, Leave,
       RollBack, Stamp, Poll, Restart


\* A row that is not there is not stamped.
LEMMA StepAbsent ==
  ASSUME TypeOK, AbsentUnstamped, Reported, NEW c \in Client, Step(c)
  PROVE  AbsentUnstamped'
<1>1. CASE Commit(c)
  <2> SUFFICES ASSUME NEW i \in Id, rows'[i].content = "none"
               PROVE  rows'[i].stamp = 0
    BY DEF AbsentUnstamped
  <2>1. /\ rows'[i].content = VisibleContent(c)[i]
        /\ rows'[i].stamp = IF Stamped(c, i) THEN known[c] ELSE rows[i].stamp
    BY <1>1 DEF Commit
  <2>2. ~Stamped(c, i)
    BY <2>1 DEF Stamped
  <2>3. rows[i].content = "none"
    BY <2>1 DEF VisibleContent, Reported
  <2> QED BY <2>1, <2>2, <2>3 DEF AbsentUnstamped
<1>2. CASE ~Commit(c)
  BY <1>2, RowsKept DEF AbsentUnstamped
<1> QED BY <1>1, <1>2

\* An absent row that a client has written stays absent until it commits.
LEMMA AbsentStays ==
  ASSUME TypeOK, WritersApart, NEW c \in Client, NEW d \in Client \ {c}, Step(c),
         NEW i \in Id, writes[d][i] # Unwritten, rows[i].content = "none"
  PROVE  rows'[i].content = "none"
<1>1. CASE Commit(c)
  <2>1. writes[c][i] = Unwritten
    BY DEF WritersApart
  <2>2. rows'[i].content = VisibleContent(c)[i]
    BY <1>1 DEF Commit
  <2> QED BY <2>1, <2>2 DEF VisibleContent
<1>2. CASE ~Commit(c)
  BY <1>2, RowsKept
<1> QED BY <1>1, <1>2

\* Written rows are new or reported, whoever takes the step.
LEMMA StepReported ==
  ASSUME TypeOK, Reported, WritersApart, NEW c \in Client, Step(c)
  PROVE  Reported'
<1>1. SUFFICES ASSUME NEW d \in Client, NEW i \in Id
      PROVE  /\ writes'[d][i] # "none"
             /\ writes'[d][i] = "new" => rows'[i].content = "none"
             /\ writes'[d][i] = "changed" => i \in items'[d]
  BY DEF Reported
<1>2. CASE d # c
  <2>1. writes'[d] = writes[d] /\ items'[d] = items[d]
    BY <1>2, OthersUntouched, OthersKept DEF SameClient
  <2> QED BY <1>2, <2>1, AbsentStays DEF Reported, Unwritten
<1>3. CASE d = c
  <2>1. CASE writes'[c] = NoWrites
    BY <1>3, <2>1 DEF NoWrites, Unwritten
  <2>2. CASE writes'[c] = writes[c] /\ items[c] \subseteq items'[c] /\ writes'[c] # NoWrites
    <3>1. rows' = rows
      BY <2>2, RowsKept DEF Commit, Close, TypeOK
    <3> QED BY <1>3, <2>2, <3>1 DEF Reported
  <2>3. ASSUME NEW j \in Id, NEW v \in {"new", "changed", "deleted"}, WritesRow(c, j, v),
               items[c] \subseteq items'[c], writes'[c] # NoWrites
        PROVE  /\ writes'[c][i] # "none"
               /\ writes'[c][i] = "new" => rows'[i].content = "none"
               /\ writes'[c][i] = "changed" => i \in items'[c]
    <3>1. rows' = rows
      BY <2>3, RowsKept DEF Commit, Close, TypeOK
    <3>2. writes[c] \in [Id -> Content \cup {Unwritten}]
      BY DEF TypeOK
    <3>3. CASE i = j
      <4>1. writes'[c][i] = v
        BY <2>3, <3>2, <3>3 DEF WritesRow
      <4>2. v = "new" => rows[i].content = "none"
        BY <2>3, <3>3 DEF WritesRow, VisibleContent, Reported
      <4> QED BY <2>3, <3>1, <3>3, <4>1, <4>2 DEF WritesRow
    <3>4. CASE i # j
      <4>1. writes'[c][i] = writes[c][i]
        BY <2>3, <3>2, <3>4 DEF WritesRow
      <4> QED BY <2>3, <3>1, <4>1 DEF Reported
    <3> QED BY <3>3, <3>4
  <2> QED BY <1>3, <2>1, <2>2, <2>3, StepWrites DEF OwnWrites
<1> QED BY <1>2, <1>3

\* A statement waits for the locks of the other clients.
LEMMA StepWritersApart ==
  ASSUME TypeOK, WritersApart, NEW c \in Client, Step(c)
  PROVE  WritersApart'
<1> DEFINE Apart(a, b) == \A i \in Id : writes[a][i] = Unwritten \/ writes[b][i] = Unwritten
           OneWrites(a, b) == OneWriter => ~(Writing(a) /\ Writing(b))
           OneStamps(a, b) == OneWriter => ~(stamping[a] /\ stamping[b])
<1>1. \A a \in Client, b \in Client : a # b => Apart(a, b) /\ OneWrites(a, b) /\ OneStamps(a, b)
  BY DEF WritersApart
<1>2. SUFFICES \A a \in Client, b \in Client :
                 a # b => Apart(a, b)' /\ OneWrites(a, b)' /\ OneStamps(a, b)'
  BY DEF WritersApart
<1>3. \A d \in Client \ {c} : writes'[d] = writes[d] /\ stamping'[d] = stamping[d]
  BY OthersUntouched DEF SameClient
<1>4. ASSUME NEW d \in Client \ {c} PROVE Apart(c, d)' /\ OneWrites(c, d)' /\ OneStamps(c, d)'
  <2>1. OneStamps(c, d)'
    <3>1. stamping'[c] => Stamp(c)
      BY OwnStamping
    <3> QED BY <1>3, <3>1 DEF Stamp
  <2>2. CASE writes'[c] = NoWrites
    BY <2>1, <2>2 DEF NoWrites, Writing
  <2>3. CASE writes'[c] = writes[c]
    BY <1>1, <1>3, <2>1, <2>3 DEF Writing
  <2>4. ASSUME NEW i \in Id, NEW v \in {"new", "changed", "deleted"}, WritesRow(c, i, v)
        PROVE  Apart(c, d)' /\ OneWrites(c, d)'
    <3>1. writes[d][i] = Unwritten /\ (OneWriter => ~Writing(d))
      BY <2>4 DEF WritesRow, CanWrite
    <3>2. writes[c] \in [Id -> Content \cup {Unwritten}]
      BY DEF TypeOK
    <3>3. \A j \in Id : j # i => writes'[c][j] = writes[c][j]
      BY <2>4, <3>2 DEF WritesRow
    <3>4. Apart(c, d)
      BY <1>1
    <3> QED BY <1>3, <3>1, <3>3, <3>4 DEF Writing
  <2> QED BY <2>1, <2>2, <2>3, <2>4, StepWrites DEF OwnWrites
<1>5. ASSUME NEW a \in Client, NEW b \in Client, a # b
      PROVE  Apart(a, b)' /\ OneWrites(a, b)' /\ OneStamps(a, b)'
  <2>1. CASE a = c
    BY <1>4, <1>5, <2>1
  <2>2. CASE b = c
    BY <1>4, <1>5, <2>2
  <2>3. CASE a # c /\ b # c
    BY <1>1, <1>3, <1>5, <2>3 DEF Writing
  <2> QED BY <2>1, <2>2, <2>3
<1> QED BY <1>5


\* No other client commits between the computation of a stamp and its use.
LEMMA StepFreshStamp ==
  ASSUME TypeOK, WritersApart, FreshStamp, NEW c \in Client, Step(c)
  PROVE  FreshStamp'
<1> SUFFICES ASSUME OneWriter, NEW d \in Client, stamping'[d],
                    \E i \in Id : VisibleContent(d)'[i] # "none", NEW j \in Id
             PROVE  rows'[j].stamp < known'[d]
  BY DEF FreshStamp
<1>1. CASE d = c
  <2>1. Stamp(c)
    BY <1>1, OwnStamping
  <2>2. \E i \in Id : VisibleContent(c)[i] # "none"
    BY <1>1, <2>1 DEF Stamp, VisibleContent
  <2>3. known'[c] = TopStamp + 1 /\ rows' = rows
    BY <2>1, <2>2 DEF Stamp, NextStamp, TypeOK
  <2>4. rows[j].stamp <= TopStamp /\ TopStamp \in Nat /\ rows[j].stamp \in Nat
    BY TopStampProperty, BoundsAssumption DEF TypeOK
  <2> QED BY <1>1, <2>3, <2>4
<1>2. CASE d # c
  <2>1. stamping[d] /\ known'[d] = known[d] /\ writes'[d] = writes[d]
    BY <1>2, OthersUntouched, OthersKept DEF SameClient
  <2>2. ~Commit(c)
    BY <1>2, <2>1 DEF WritersApart, Commit
  <2>3. rows' = rows
    BY <2>2, RowsKept
  <2>4. \E i \in Id : VisibleContent(d)[i] # "none"
    BY <2>1, <2>3 DEF VisibleContent
  <2> QED BY <2>1, <2>3, <2>4 DEF FreshStamp
<1> QED BY <1>1, <1>2

\* Every step keeps Stampable.
LEMMA NextStampable ==
  ASSUME TypeOK, Stampable, [Next]_vars
  PROVE  Stampable'
<1>1. ASSUME NEW c \in Client, Step(c) PROVE Stampable'
  BY <1>1, StepAbsent, StepReported, StepWritersApart, StepFreshStamp DEF Stampable
<1>2. CASE UNCHANGED vars
  BY <1>2 DEF vars, clientVars, Stampable, AbsentUnstamped, Reported, WritersApart, FreshStamp,
              Writing, VisibleContent
<1> QED BY <1>1, <1>2 DEF Next, Step

\* The inductive invariant holds.
THEOREM Invariant == Spec => []IInv
<1>1. Init => IInv
  BY InitType, InitBalanced, InitStampable DEF IInv
<1>2. IInv /\ [Next]_vars => IInv'
  BY NextType, NextBalanced, NextStampable DEF IInv
<1> QED BY <1>1, <1>2, PTL DEF Spec

\* The state of sql.cpp, of the database and of every client is of its type.
THEOREM TypeCorrect == Spec => []TypeOK
<1>1. IInv => TypeOK
  BY DEF IInv
<1> QED BY <1>1, Invariant, PTL

\* With one writer, the rows a commit changes get the stamp known to the
\* committing client, which is above all others.
LEMMA CommitStamps ==
  ASSUME OneWriter, TypeOK, Stampable, NEW c \in Client, Commit(c), NEW i \in Id,
         rows'[i].content # rows[i].content, rows'[i].content # "deleted"
  PROVE  /\ rows'[i].stamp = known[c]
         /\ \A j \in Id : rows[j].stamp < known[c]
<1> USE DEF Stampable
<1>1. /\ rows'[i].content = VisibleContent(c)[i]
      /\ rows'[i].stamp = IF Stamped(c, i) THEN known[c] ELSE rows[i].stamp
  BY DEF Commit
<1>2. writes[c][i] \in {"new", "changed"}
  <2>1. writes[c][i] \in Content \cup {Unwritten}
    BY DEF TypeOK
  <2> QED BY <1>1, <2>1 DEF VisibleContent, Reported, Content
<1>3. VisibleContent(c)[i] # "none"
  BY <1>2 DEF VisibleContent, Unwritten
<1>4. CanWrite(c, i)
  <2>1. Writing(c)
    BY <1>2 DEF Writing, NoWrites, Unwritten
  <2>2. writes[c][i] # Unwritten
    BY <1>2 DEF Unwritten
  <2> QED BY <2>1, <2>2 DEF WritersApart, CanWrite
<1>5. Stamped(c, i)
  BY <1>2, <1>3, <1>4 DEF Stamped, Reported, AbsentUnstamped, Unwritten
<1>6. stamping[c]
  BY DEF Commit
<1> QED BY <1>1, <1>3, <1>5, <1>6 DEF FreshStamp

------------------------------------------------------------------------------
(* The theorems.                                                           *)

\* With one writer at a time, every committed change other than a deletion
\* gets a stamp above all stamps that were there.
THEOREM StampsGrow ==
  ASSUME OneWriter
  PROVE  Spec => ChangesAreStamped
<1> DEFINE StampsUp == \A i \in Id :
                         rows'[i].content # rows[i].content /\ rows'[i].content # "deleted" =>
                           \A j \in Id : rows[j].stamp < rows'[i].stamp
<1>1. IInv /\ [Next]_vars => [StampsUp]_vars
  <2> SUFFICES ASSUME IInv, NEW c \in Client, Step(c) PROVE StampsUp
    BY DEF Next, Step
  <2>1. CASE ~Commit(c)
    BY <2>1, RowsKept
  <2>2. CASE Commit(c)
    <3> SUFFICES ASSUME NEW i \in Id, rows'[i].content # rows[i].content,
                        rows'[i].content # "deleted", NEW j \in Id
                 PROVE  rows[j].stamp < rows'[i].stamp
      OBVIOUS
    <3> QED BY <2>2, CommitStamps DEF IInv
  <2> QED BY <2>1, <2>2
<1> QED BY <1>1, Invariant, PTL DEF Spec, ChangesAreStamped

\* The abstract variables that are not variables of DbTransaction.
Table == [i \in Id |-> rows[i].content]
Open == {c \in Client : mutex[c] > 0}

\* The open clients after a change of the level of nesting.
LEMMA OpenUpdate ==
  ASSUME TypeOK, NEW c \in Client, NEW n \in Nat, mutex' = [mutex EXCEPT ![c] = n]
  PROVE  Open' = IF n > 0 THEN Open \cup {c} ELSE Open \ {c}
<1>1. \A d \in Client : mutex'[d] = IF d = c THEN n ELSE mutex[d]
  BY DEF TypeOK
<1> QED BY <1>1 DEF Open

\* The abstract step of each step of a client; all others change nothing.
AbstractStep(c) ==
  \/ Atomic!Begin(c)
  \/ \E i \in Id, v \in Content : Atomic!Write(c, i, v)
  \/ Atomic!Fail(c)
  \/ Atomic!Commit(c)
  \/ Atomic!Abort(c)
  \/ UNCHANGED <<Table, writes, broken, Open>>

\* The initial states map to initial states.
LEMMA InitFlat == Init => Atomic!Init
<1> SUFFICES ASSUME Init PROVE Atomic!Init
  OBVIOUS
<1>1. Table \in [Id -> Content]
  BY DEF Init, Table, Content
<1>2. writes = [c \in Client |-> Atomic!NothingPending] /\ broken = [c \in Client |-> FALSE]
  BY DEF Init, NoWrites, Atomic!NothingPending
<1>3. Open = {}
  BY DEF Init, Open
<1> QED BY <1>1, <1>2, <1>3 DEF Atomic!Init, Table, Open

\* The outermost begin() opens the operation, a nested one changes nothing.
LEMMA BeginFlat ==
  ASSUME TypeOK, NEW c \in Client, Begin(c)
  PROVE  AbstractStep(c)
<1>1. mutex[c] \in Nat /\ mutex' = [mutex EXCEPT ![c] = mutex[c] + 1]
  BY DEF TypeOK, Begin
<1>2. UNCHANGED <<Table, writes, broken>>
  BY DEF Begin, Table
<1>3. Open' = Open \cup {c}
  <2>1. mutex[c] + 1 \in Nat /\ mutex[c] + 1 > 0
    BY <1>1
  <2> QED BY <1>1, <2>1, OpenUpdate
<1>4. CASE c \in Open
  BY <1>2, <1>3, <1>4 DEF AbstractStep
<1>5. CASE c \notin Open
  BY <1>2, <1>3, <1>5 DEF AbstractStep, Atomic!Begin, Table, Open
<1> QED BY <1>4, <1>5

\* A statement is a write of the open operation.
LEMMA StatementFlat ==
  ASSUME TypeOK, NEW c \in Client, NEW i \in Id,
         Insert(c, i) \/ Change(c, i) \/ Delete(c, i)
  PROVE  AbstractStep(c)
<1>1. writes \in [Client -> [Id -> Content \cup {Unwritten}]] /\ mutex[c] \in Nat
  BY DEF TypeOK
<1>2. UNCHANGED <<Table, broken, Open>>
  BY DEF Insert, Change, Update, Delete, Table, Open
<1>3. c \in Open
  <2>1. mutex[c] > 0
    BY DEF Insert, Change, Update, Delete, InDeletePKI, InOperation
  <2> QED BY <2>1 DEF Open
<1>4. PICK v \in Content : WriteRow(c, i, v)
  BY DEF Insert, Change, Update, Delete, Content
<1>5. writes' = [writes EXCEPT ![c][i] = v] \/ writes' = writes
  BY <1>1, <1>4 DEF WriteRow
<1> QED BY <1>2, <1>3, <1>5 DEF AbstractStep, Atomic!Write, Table, Open

\* The end of the outermost transaction closes the operation.
LEMMA ClosedFlat ==
  ASSUME TypeOK, NEW c \in Client, mutex[c] > 0,
         writes' = [writes EXCEPT ![c] = NoWrites],
         broken' = [broken EXCEPT ![c] = FALSE],
         mutex' = [mutex EXCEPT ![c] = 0]
  PROVE  c \in Open /\ Atomic!Close(c)
<1>1. c \in Open
  BY DEF Open
<1>2. Open' = Open \ {c}
  <2>1. 0 \in Nat /\ ~(0 > 0)
    OBVIOUS
  <2> QED BY <2>1, OpenUpdate
<1> QED BY <1>1, <1>2 DEF Atomic!Close, Atomic!NothingPending, NoWrites, Open

\* finish() is a failure, an abort, a commit or no change.
LEMMA FinishFlat ==
  ASSUME TypeOK, Balanced, NEW c \in Client, Finish(c)
  PROVE  AbstractStep(c)
<1>0. mutex[c] \in Nat
  BY DEF TypeOK
<1>1. ASSUME NEW ok \in BOOLEAN, FinishNested(c, ok) PROVE AbstractStep(c)
  <2>1. UNCHANGED <<Table, writes>>
    BY <1>1 DEF FinishNested, Leave, Table
  <2>3. c \in Open /\ mutex[c] - 1 \in Nat /\ mutex[c] - 1 > 0
    BY <1>0, <1>1 DEF FinishNested, Open
  <2>4. mutex' = [mutex EXCEPT ![c] = mutex[c] - 1]
    BY <1>1 DEF FinishNested, Leave
  <2>5. Open' = Open
    BY <2>3, <2>4, OpenUpdate
  <2>6. CASE ok = TRUE
    <3>1. broken' = broken
      BY <1>1, <2>6, Zenon DEF FinishNested, Leave, TypeOK
    <3> QED BY <2>1, <2>5, <3>1 DEF AbstractStep
  <2>7. CASE ok = FALSE
    <3>1. broken' = [broken EXCEPT ![c] = TRUE]
      BY <1>1, <2>7, Zenon DEF FinishNested, Leave, TypeOK
    <3> QED BY <2>1, <2>3, <2>5, <3>1 DEF AbstractStep, Atomic!Fail, Table, Open
  <2> QED BY <2>6, <2>7
<1>2. ASSUME NEW ok \in BOOLEAN, RollBack(c, ok) PROVE AbstractStep(c)
  <2>1. c \in Open /\ Atomic!Close(c)
    <3>1. mutex[c] > 0
      BY <1>2 DEF RollBack
    <3>2. /\ writes' = [writes EXCEPT ![c] = NoWrites]
          /\ broken' = [broken EXCEPT ![c] = FALSE]
          /\ mutex' = [mutex EXCEPT ![c] = 0]
      BY <1>2 DEF RollBack, Close
    <3> QED BY <3>1, <3>2, ClosedFlat
  <2>2. Table' = Table
    BY <1>2 DEF RollBack, Table
  <2> QED BY <2>1, <2>2 DEF AbstractStep, Atomic!Abort, Table, Open
<1>3. CASE Stamp(c)
  BY <1>3 DEF Stamp, AbstractStep, Table, Open
<1>4. CASE Commit(c)
  <2>1. mutex[c] = 1 /\ ~broken[c]
    BY <1>4 DEF Commit, Balanced
  <2>2. c \in Open /\ Atomic!Close(c)
    <3>1. mutex[c] > 0
      BY <2>1
    <3>2. /\ writes' = [writes EXCEPT ![c] = NoWrites]
          /\ broken' = [broken EXCEPT ![c] = FALSE]
          /\ mutex' = [mutex EXCEPT ![c] = 0]
      BY <1>4 DEF Commit, Close
    <3> QED BY <3>1, <3>2, ClosedFlat
  <2>3. Table' = VisibleContent(c)
    BY <1>4 DEF Commit, Table, VisibleContent
  <2>4. Atomic!Committed(c) = VisibleContent(c)
    BY DEF Atomic!Committed, VisibleContent
  <2> QED BY <2>1, <2>2, <2>3, <2>4 DEF AbstractStep, Atomic!Commit, Table, Open
<1> QED BY <1>1, <1>2, <1>3, <1>4 DEF Finish

\* Every step of a client is an abstract step or none.
LEMMA StepFlat ==
  ASSUME TypeOK, Balanced, NEW c \in Client, Step(c)
  PROVE  AbstractStep(c)
<1>1. ASSUME NEW i \in Id, DeleteFails(c, i) PROVE AbstractStep(c)
  <2>1. UNCHANGED <<Table, writes, Open>> /\ broken' = [broken EXCEPT ![c] = TRUE]
    BY <1>1 DEF DeleteFails, Table, Open
  <2>2. c \in Open
    BY <1>1 DEF DeleteFails, InDeletePKI, InOperation, Open
  <2> QED BY <2>1, <2>2 DEF AbstractStep, Atomic!Fail, Table, Open
<1>2. CASE Poll(c)
  BY <1>2 DEF Poll, clientVars, AbstractStep, Table, Open
<1>3. CASE Restart(c)
  <2>1. Table' = Table
    BY <1>3 DEF Restart, Table
  <2>2. CASE mutex[c] > 0
    <3>1. c \in Open /\ Atomic!Close(c)
      BY <1>3, <2>2, ClosedFlat DEF Restart
    <3> QED BY <2>1, <3>1 DEF AbstractStep, Atomic!Abort, Table, Open
  <2>3. CASE mutex[c] = 0
    <3>1. writes[c] = NoWrites /\ broken[c] = FALSE
      BY <2>3 DEF Balanced, Idle, Writing, TypeOK
    <3>2. UNCHANGED <<writes, broken, mutex>>
      BY <1>3, <2>3, <3>1 DEF Restart, TypeOK
    <3> QED BY <2>1, <3>2 DEF AbstractStep, Open
  <2>4. mutex[c] > 0 \/ mutex[c] = 0
    BY DEF TypeOK
  <2> QED BY <2>2, <2>3, <2>4
<1> QED BY <1>1, <1>2, <1>3, BeginFlat, StatementFlat, FinishFlat DEF Step

\* Whatever the nesting of its transactions, a user operation reaches the
\* database as a whole, and not at all if one of its parts was rolled back.
THEOREM NestedIsFlat == Spec => AtomicSpec
<1>1. IInv /\ [Next]_vars => [Atomic!Next]_(Atomic!avars)
  <2> SUFFICES ASSUME IInv, [Next]_vars PROVE [Atomic!Next]_(Atomic!avars)
    OBVIOUS
  <2>1. CASE UNCHANGED vars
    BY <2>1 DEF vars, clientVars, Atomic!avars
  <2>2. ASSUME NEW c \in Client, Step(c) PROVE [Atomic!Next]_(Atomic!avars)
    BY <2>2, StepFlat DEF IInv, AbstractStep, Atomic!Next, Atomic!avars, Table, Open
  <2> QED BY <2>1, <2>2 DEF Next, Step
<1> QED BY <1>1, InitFlat, Invariant, PTL DEF Spec, AtomicSpec, Atomic!Spec

------------------------------------------------------------------------------
(* What a client that polls promptly shows.                                *)

\* What c shows of row i is what its statements see, unless it has yet to read it.
InformedOf(c, i) ==
  VisibleContent(c)[i] \in {"new", "changed"} =>
    store[c][i] = VisibleContent(c)[i] \/ Pending(c, i)

\* The clients the invariant speaks of.
Prompt(c) == prompt[c] /\ loyal[c] /\ (stamping[c] => polled[c])

\* What no step of another client but a commit touches.
SameView(c) ==
  /\ rows' = rows /\ writes'[c] = writes[c] /\ stamping'[c] = stamping[c]
  /\ known'[c] = known[c] /\ store'[c] = store[c]
  /\ polled'[c] = polled[c] /\ prompt'[c] = prompt[c] /\ loyal'[c] = loyal[c]

\* Informed is about the data of one client and the rows.
LEMMA SameViewInformed ==
  ASSUME NEW c \in Client, Informed(c), SameView(c)
  PROVE  Informed(c)'
<1>1. VisibleContent(c)' = VisibleContent(c) /\ TopStamp' = TopStamp
  BY DEF SameView, VisibleContent, TopStamp
<1> QED BY <1>1 DEF Informed, SameView, Pending

\* A step that is no commit leaves alone what another client shows.
LEMMA OthersView ==
  ASSUME TypeOK, NEW c \in Client, NEW d \in Client \ {c}, Step(c), ~Commit(c)
  PROVE  SameView(d)
<1> DEFINE Same == /\ store'[d] = store[d] /\ polled'[d] = polled[d]
                   /\ prompt'[d] = prompt[d] /\ loyal'[d] = loyal[d]
<1>1. rows' = rows
  BY RowsKept
<1>2. writes'[d] = writes[d] /\ stamping'[d] = stamping[d] /\ known'[d] = known[d]
  BY OthersUntouched, OthersKept DEF SameClient
<1>3. Same
  <2> USE DEF TypeOK
  <2>1. CASE Begin(c) \/ Stamp(c)
    BY <2>1 DEF Begin, Stamp
  <2>2. ASSUME NEW i \in Id, Insert(c, i) \/ Change(c, i) \/ Delete(c, i) PROVE Same
    BY <2>2 DEF Insert, Change, Update, Delete, InDeletePKI, Show
  <2>3. ASSUME NEW i \in Id, DeleteFails(c, i) PROVE Same
    BY <2>3 DEF DeleteFails, InDeletePKI, Show
  <2>4. ASSUME NEW ok \in BOOLEAN, FinishNested(c, ok) PROVE Same
    BY <2>4 DEF FinishNested, Leave
  <2>5. ASSUME NEW ok \in BOOLEAN, RollBack(c, ok) PROVE Same
    BY <2>5 DEF RollBack, Close
  <2>6. CASE Poll(c)
    BY <2>6 DEF Poll
  <2>7. CASE Restart(c)
    BY <2>7 DEF Restart
  <2> QED BY <2>1, <2>2, <2>3, <2>4, <2>5, <2>6, <2>7 DEF Step, Finish
<1> QED BY <1>1, <1>2, <1>3 DEF SameView

\* A statement writes a row and shows the same.
LEMMA StatementInformed ==
  ASSUME TypeOK, NEW c \in Client, Informed(c), NEW i \in Id,
         Insert(c, i) \/ Change(c, i) \/ Delete(c, i)
  PROVE  Informed(c)'
<1>1. /\ rows \in [Id -> [content : Content, stamp : 0..MaxStamp]]
      /\ writes \in [Client -> [Id -> Content \cup {Unwritten}]]
      /\ store \in [Client -> [Id -> Content]]
  BY DEF TypeOK
<1>2. UNCHANGED <<rows, stamping, known, polled, prompt, loyal>>
  BY DEF Insert, Change, Update, Delete
<1>3. TopStamp' = TopStamp
  BY <1>2 DEF TopStamp
<1>4. PICK v \in Content, w \in Content :
        /\ WriteRow(c, i, v) /\ Show(c, i, w)
        /\ v = w \/ v = "deleted"
        /\ v = "new" => VisibleContent(c)[i] = "none"
  BY DEF Insert, Change, Update, Delete, InDeletePKI, Content, IsNextId, Id
<1>5. ASSUME NEW j \in Id, Prompt(c)', InformedOf(c, j) PROVE InformedOf(c, j)'
  <2>1. Pending(c, j)' <=> Pending(c, j)
    BY <1>2, <1>3 DEF Pending
  <2>2. CASE j = i
    <3>1. store'[c][i] = w
      BY <1>1, <1>4 DEF Show
    <3>2. VisibleContent(c)'[i] \in {v, "none"}
      BY <1>1, <1>2, <1>4 DEF WriteRow, VisibleContent, Content, Unwritten
    <3> QED BY <2>2, <3>1, <3>2, <1>4 DEF InformedOf
  <2>3. CASE j # i
    <3>1. store'[c][j] = store[c][j] /\ writes'[c][j] = writes[c][j]
      BY <1>1, <1>4, <2>3 DEF Show, WriteRow
    <3>2. VisibleContent(c)'[j] = VisibleContent(c)[j]
      BY <1>2, <3>1 DEF VisibleContent
    <3> QED BY <1>5, <2>1, <3>1, <3>2 DEF InformedOf
  <2> QED BY <2>2, <2>3
<1>6. Prompt(c)' => Prompt(c)
  BY <1>2 DEF Prompt
<1> QED BY <1>2, <1>3, <1>5, <1>6 DEF Informed, InformedOf, Prompt

\* The rows with the highest stamp are those whose containers a poll reloads.
LEMMA PollInformed ==
  ASSUME TypeOK, NEW c \in Client, Informed(c), Poll(c)
  PROVE  Informed(c)'
<1>1. /\ store \in [Client -> [Id -> Content]]
      /\ known \in [Client -> 0..MaxStamp]
      /\ polled \in [Client -> BOOLEAN]
  BY DEF TypeOK
<1>2. UNCHANGED <<rows, writes, stamping, prompt, loyal>> /\ ~stamping[c]
  BY DEF Poll, clientVars
<1>3. TopStamp' = TopStamp /\ VisibleContent(c)' = VisibleContent(c)
  BY <1>2 DEF TopStamp, VisibleContent
<1>4. known'[c] = TopStamp /\ store'[c] = Reloaded(c)
  BY <1>1, Zenon DEF Poll
<1>5. TopStamp \in Nat
  BY TopStampProperty, BoundsAssumption
<1>6. ASSUME NEW i \in Id, InformedOf(c, i), VisibleContent(c)[i] \in {"new", "changed"}
      PROVE store'[c][i] = VisibleContent(c)[i]
  <2>1. CASE store[c][i] = VisibleContent(c)[i]
    BY <1>4, <2>1 DEF Reloaded, ReloadContainers
  <2>2. CASE Pending(c, i)
    <3>1. TopStamp > known[c]
      BY <1>1, <1>5, <2>2, BoundsAssumption DEF Pending
    <3>2. TypeOf[i] \in ReloadedBy[TypeOf[i]]
      BY TypesAssumption DEF Type
    <3>3. TypeOf[i] \in ChangedTypes
      BY <2>2, Zenon DEF Pending, ChangedTypes
    <3>4. ReloadContainers(c)[i] = VisibleContent(c)[i]
      BY <3>2, <3>3, Zenon DEF ReloadContainers
    <3> QED BY <1>4, <3>1, <3>4 DEF Reloaded
  <2> QED BY <1>6, <2>1, <2>2 DEF InformedOf
<1> QED BY <1>2, <1>3, <1>4, <1>5, <1>6 DEF Informed, InformedOf, Prompt

\* The end of an operation leaves what the client sees as it was, or it is
\* known not to be loyal any more.
LEMMA EndInformed ==
  ASSUME TypeOK, Balanced, NEW c \in Client, Informed(c),
         \/ Begin(c) \/ Stamp(c)
         \/ \E i \in Id : DeleteFails(c, i)
         \/ \E ok \in BOOLEAN : FinishNested(c, ok) \/ RollBack(c, ok)
  PROVE  Informed(c)'
<1>0. /\ prompt \in [Client -> BOOLEAN] /\ loyal \in [Client -> BOOLEAN]
      /\ polled \in [Client -> BOOLEAN] /\ stamping \in [Client -> BOOLEAN]
      /\ writes \in [Client -> [Id -> Content \cup {Unwritten}]]
  BY DEF TypeOK
<1>1. CASE Begin(c)
  BY <1>1, SameViewInformed DEF Begin, SameView
<1>2. CASE Stamp(c)
  <2>1. UNCHANGED <<rows, writes, store, polled, prompt, loyal>> /\ stamping'[c] /\ ~stamping[c]
    BY <1>0, <1>2 DEF Stamp
  <2>2. VisibleContent(c)' = VisibleContent(c)
    BY <2>1 DEF VisibleContent
  <2> QED BY <2>1, <2>2 DEF Informed, Pending
<1>3. ASSUME NEW i \in Id, DeleteFails(c, i) PROVE Informed(c)'
  <2>1. ~loyal'[c] /\ UNCHANGED <<rows, known, polled, stamping>>
    BY <1>0, <1>3 DEF DeleteFails
  <2>2. TopStamp' = TopStamp
    BY <2>1 DEF TopStamp
  <2> QED BY <2>1, <2>2 DEF Informed
<1>4. ASSUME NEW ok \in BOOLEAN, FinishNested(c, ok) PROVE Informed(c)'
  BY <1>4, SameViewInformed DEF FinishNested, Leave, SameView
<1>5. ASSUME NEW ok \in BOOLEAN, RollBack(c, ok) PROVE Informed(c)'
  <2>1. /\ UNCHANGED <<rows, known, store, polled, prompt>>
        /\ stamping[c] = FALSE /\ stamping'[c] = FALSE /\ writes'[c] = NoWrites
    BY <1>0, <1>5 DEF RollBack, Close
  <2>2. loyal'[c] = (loyal[c] /\ ~Writing(c))
    BY <1>0, <1>5, Zenon DEF RollBack
  <2>3. CASE Writing(c)
    <3>1. TopStamp' = TopStamp
      BY <2>1 DEF TopStamp
    <3>2. ~loyal'[c]
      BY <2>2, <2>3, Zenon
    <3> QED BY <2>1, <3>1, <3>2 DEF Informed
  <2>4. CASE ~Writing(c)
    <3>1. loyal'[c] = loyal[c]
      <4>1. loyal[c] \in BOOLEAN
        BY <1>0
      <4>2. loyal[c] = (loyal[c] /\ ~Writing(c))
        BY <2>4, <4>1, SMT
      <4> QED BY <2>2, <4>2
    <3>2. SameView(c)
      BY <2>1, <2>4, <3>1 DEF SameView, Writing
    <3> QED BY <3>2, SameViewInformed
  <2> QED BY <2>3, <2>4
<1> QED BY <1>1, <1>2, <1>3, <1>4, <1>5

\* After a restart a client shows what it has just read.
LEMMA RestartInformed ==
  ASSUME TypeOK, NEW c \in Client, Restart(c)
  PROVE  Informed(c)'
<1>1. /\ writes'[c] = NoWrites /\ rows' = rows /\ known'[c] = 0
      /\ store'[c] = [i \in Id |-> rows[i].content]
  BY DEF TypeOK, Restart
<1>2. TopStamp' = TopStamp /\ TopStamp \in Nat
  BY <1>1, TopStampProperty, BoundsAssumption DEF TopStamp
<1>3. \A i \in Id : VisibleContent(c)'[i] = rows[i].content
  BY <1>1 DEF VisibleContent, NoWrites
<1> QED BY <1>1, <1>2, <1>3 DEF Informed

\* SELECT MAX(stamp).
TopStampOK ==
  /\ TopStamp \in 0..MaxStamp
  /\ \E i \in Id : TopStamp = rows[i].stamp
  /\ \A i \in Id : rows[i].stamp <= TopStamp

\* SELECT MAX(stamp) after a step.
LEMMA TopStampNext == TypeOK' => TopStampOK'
<1>1. TypeOK => TopStampOK
  BY TopStampProperty DEF TopStampOK
<1> QED BY <1>1, PTL

\* The stamp of a changed row is the new MAX(stamp).
LEMMA CommitTop ==
  ASSUME OneWriter, TypeOK, TypeOK', Stampable, NEW c \in Client, Commit(c), NEW i \in Id,
         rows'[i].content # rows[i].content, rows'[i].content # "deleted"
  PROVE  rows'[i].stamp = TopStamp' /\ TopStamp < TopStamp'
<1>1. rows'[i].stamp = known[c] /\ \A j \in Id : rows[j].stamp < known[c]
  BY CommitStamps
<1>2. \A j \in Id : rows'[j].stamp \in {known[c], rows[j].stamp}
  BY DEF Commit
<1>3. known[c] \in Nat /\ \A j \in Id : rows[j].stamp \in Nat
  BY BoundsAssumption DEF TypeOK
<1>4. /\ \E j \in Id : TopStamp' = rows'[j].stamp
      /\ \A j \in Id : rows'[j].stamp <= TopStamp'
  BY TopStampNext DEF TopStampOK
<1>5. \E j \in Id : TopStamp = rows[j].stamp
  BY TopStampProperty
<1> QED BY <1>1, <1>2, <1>3, <1>4, <1>5

\* The committing client shows what it has written.
LEMMA OwnCommitInformed ==
  ASSUME TypeOK, NEW c \in Client, Informed(c), Commit(c)
  PROVE  Informed(c)'
<1>1. /\ ~polled'[c] /\ stamping[c] /\ store' = store /\ loyal' = loyal
      /\ prompt'[c] = (prompt[c] /\ polled[c])
  BY DEF Commit
<1>2. writes'[c] = NoWrites /\ \A i \in Id : rows'[i].content = VisibleContent(c)[i]
  BY DEF TypeOK, Commit, Close
<1>3. \A i \in Id : VisibleContent(c)'[i] = VisibleContent(c)[i]
  BY <1>2 DEF VisibleContent, NoWrites
<1> QED BY <1>1, <1>3 DEF Informed, Pending

\* The other clients have yet to read what it has changed.
LEMMA OthersCommitInformed ==
  ASSUME OneWriter, TypeOK, TypeOK', Stampable,
         NEW c \in Client, NEW d \in Client \ {c}, Informed(d), Commit(c)
  PROVE  Informed(d)'
<1>1. /\ ~polled'[d] /\ store' = store /\ loyal' = loyal /\ known' = known
      /\ prompt'[d] = (prompt[d] /\ polled[d])
  BY DEF Commit
<1>2. stamping'[d] = stamping[d] /\ writes'[d] = writes[d] /\ ~stamping[d]
  BY DEF TypeOK, Commit, Close, Stampable, WritersApart
<1>3. ASSUME NEW i \in Id, Prompt(d)', VisibleContent(d)'[i] \in {"new", "changed"}
      PROVE store'[d][i] = VisibleContent(d)'[i] \/ Pending(d, i)'
  <2>1. prompt[d] /\ polled[d] /\ loyal[d]
    BY <1>1, <1>3, Zenon DEF Prompt
  <2>2. CASE VisibleContent(d)'[i] = VisibleContent(d)[i]
    BY <1>1, <1>2, <1>3, <2>1, <2>2 DEF Informed, Pending
  <2>3. CASE VisibleContent(d)'[i] # VisibleContent(d)[i]
    <3>1. rows'[i].content = VisibleContent(d)'[i] /\ rows'[i].content # rows[i].content
      BY <1>2, <2>3 DEF VisibleContent
    <3>2. rows'[i].stamp = TopStamp' /\ TopStamp < TopStamp'
      BY <1>3, <3>1, CommitTop
    <3>3. known[d] <= TopStamp
      BY <1>2, <2>1 DEF Informed
    <3>4. known[d] \in Nat /\ TopStamp \in Nat /\ TopStamp' \in Nat
      BY TopStampProperty, TopStampNext, BoundsAssumption DEF TypeOK, TopStampOK
    <3>5. known'[d] < TopStamp'
      BY <1>1, <3>2, <3>3, <3>4
    <3> QED BY <1>1, <1>2, <3>2, <3>5 DEF Pending
  <2> QED BY <2>2, <2>3
<1> QED BY <1>1, <1>3 DEF Informed, Prompt

\* The own steps of a client keep it informed.
LEMMA OwnStepInformed ==
  ASSUME TypeOK, Balanced, NEW c \in Client, Informed(c), Step(c)
  PROVE  Informed(c)'
BY StatementInformed, PollInformed, EndInformed, RestartInformed, OwnCommitInformed
   DEF Step, Finish

\* With one writer, a client that polled between any two commits shows every
\* item as it is in the database.
THEOREM PromptPollHolds ==
  ASSUME OneWriter
  PROVE  Spec => []PromptPollSeesAll
<1>1. Init => AllInformed
  <2> SUFFICES ASSUME Init, NEW c \in Client PROVE Informed(c)
    BY DEF AllInformed
  <2>1. TypeOK
    BY InitType
  <2>2. TopStamp \in Nat /\ known[c] = 0
    BY <2>1, TopStampProperty, BoundsAssumption DEF Init
  <2>3. \A i \in Id : VisibleContent(c)[i] = "none"
    BY DEF Init, VisibleContent, NoWrites
  <2> QED BY <2>2, <2>3 DEF Informed
<1>2. IInv /\ IInv' /\ AllInformed /\ [Next]_vars => AllInformed'
  <2> SUFFICES ASSUME IInv, IInv', AllInformed, [Next]_vars, NEW d \in Client
               PROVE  Informed(d)'
    BY DEF AllInformed
  <2>1. Informed(d)
    BY DEF AllInformed
  <2>2. CASE UNCHANGED vars
    <3>1. SameView(d)
      BY <2>2 DEF vars, clientVars, SameView
    <3> QED BY <2>1, <3>1, SameViewInformed
  <2>3. ASSUME NEW c \in Client, Step(c) PROVE Informed(d)'
    <3>1. CASE c = d
      BY <2>1, <2>3, <3>1, OwnStepInformed DEF IInv
    <3>2. CASE c # d /\ Commit(c)
      BY <2>1, <3>2, OthersCommitInformed DEF IInv
    <3>3. CASE c # d /\ ~Commit(c)
      BY <2>1, <2>3, <3>3, OthersView, SameViewInformed DEF IInv
    <3> QED BY <3>1, <3>2, <3>3
  <2> QED BY <2>2, <2>3 DEF Next, Step
<1>3. IInv /\ AllInformed => PromptPollSeesAll
  <2> SUFFICES ASSUME IInv, AllInformed, NEW c \in Client,
                      prompt[c], polled[c], loyal[c], Idle(c), NEW i \in Id,
                      rows[i].content \in {"new", "changed"}
               PROVE  store[c][i] = rows[i].content
    BY DEF PromptPollSeesAll, Shows
  <2>1. writes[c] = NoWrites
    BY DEF IInv, Balanced, Writing
  <2>2. VisibleContent(c)[i] = rows[i].content
    BY <2>1 DEF VisibleContent, NoWrites
  <2> QED BY <2>2 DEF AllInformed, Informed, Pending
<1> QED BY <1>1, <1>2, <1>3, Invariant, PTL DEF Spec

==============================================================================

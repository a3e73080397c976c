---------------------------- MODULE DbTransaction ----------------------------
(***************************************************************************)
(* Transactions, stamps and reloads: lib/sql.cpp, insertSql() and          *)
(* deleteSql() of lib/pki_base.cpp, insertPKI(), deletePKI() and           *)
(* reloadContainer() of lib/db_base.cpp and the poll of                    *)
(* lib/database_model.cpp.                                                 *)
(*                                                                         *)
(* A client is a running XCA.  Its operations nest their DbTransaction     *)
(* objects, which share the static members mutex, error, items and         *)
(* DatabaseStamp.  A commit stamps the rows it touched with MAX(stamp)+1   *)
(* and every client polls MAX(stamp) to see what the others have done.     *)
(***************************************************************************)
EXTENDS Naturals

CONSTANTS
  Client,      \* the XCA processes that have the database open
  MaxId,       \* bound on the items ever inserted
  TypeOf,      \* items.type of each item
  ReloadedBy,  \* for each type the changed types that reload its container
  OneWriter,   \* TRUE for SQLite, FALSE for a server with row locks
  MaxLevel,    \* bound on the nesting of the transactions of each client
  MaxStamp     \* bound on items.stamp

Id == 1..MaxId
Type == {TypeOf[i] : i \in Id}

\* A row of table items that is not there, was inserted, was updated or has
\* del set; rows are never removed.
Content == {"none", "new", "changed", "deleted"}
Unwritten == "unwritten"

ASSUME BoundsAssumption ==
  MaxId \in Nat \ {0} /\ MaxLevel \in [Client -> Nat] /\ MaxStamp \in Nat
ASSUME TypesAssumption ==
  /\ ReloadedBy \in [Type -> SUBSET Type]
  /\ \A t \in Type : t \in ReloadedBy[t]
ASSUME WriterAssumption == OneWriter \in BOOLEAN

VARIABLES
  rows,      \* DB: content and stamp of the committed rows of table items
  writes,    \* DB: rows written in the client's open database transaction
  mutex,     \* DbTransaction::mutex
  error,     \* DbTransaction::error # 0
  items,     \* DbTransaction::items, the argument of AffectedItems()
  stamping,  \* finish() has computed DatabaseStamp and not yet committed
  late,      \* items deletePKI() will report with AffectedItems() after its commit
  known,     \* DbTransaction::DatabaseStamp
  store,     \* the objects the client shows: Store and the tree
  polled,    \* history: polled between two operations since the last commit of anyone
  prompt,    \* history: it did so between any two commits
  broken,    \* history: a part of the client's operation was rolled back
  loyal      \* history: no operation of the client was rolled back after it
             \* had changed the objects

clientVars == <<writes, mutex, error, items, stamping, late>>
vars == <<rows, clientVars, known, store, polled, prompt, broken, loyal>>

NoWrites == [i \in Id |-> Unwritten]
Idle(c) == mutex[c] = 0
Writing(c) == writes[c] # NoWrites

\* The rows as the statements of client c see them.
VisibleContent(c) ==
  [i \in Id |-> IF writes[c][i] = Unwritten THEN rows[i].content ELSE writes[c][i]]

\* SELECT MAX(stamp) from items
TopStamp == CHOOSE n \in 0..MaxStamp : /\ \E i \in Id : n = rows[i].stamp
                                       /\ \A i \in Id : rows[i].stamp <= n

\* SELECT MAX(stamp) +1 from items: NULL, read as 0, if there is no row
NextStamp(c) == IF \A i \in Id : VisibleContent(c)[i] = "none" THEN 0 ELSE TopStamp + 1

\* SELECT MAX(id) +1 from items
IsNextId(c, i) == \A j \in Id : VisibleContent(c)[j] # "none" <=> j < i

\* The statement does not wait for the lock of another client.
CanWrite(c, i) ==
  \A d \in Client \ {c} : writes[d][i] = Unwritten /\ (OneWriter => ~Writing(d))

------------------------------------------------------------------------------
(* The operations between begin() and finish().                            *)

\* In the middle of an operation, where it may run statements.
InOperation(c) == mutex[c] > 0 /\ ~stamping[c] /\ late[c] = {}

Begin(c) ==
  /\ mutex[c] < MaxLevel[c]
  /\ Idle(c) => TopStamp < MaxStamp
  /\ ~stamping[c]
  /\ late[c] = {}
  /\ mutex' = [mutex EXCEPT ![c] = @ + 1]
  /\ UNCHANGED <<rows, writes, error, items, stamping, late, known, store, polled, prompt, broken, loyal>>

\* A statement that writes row i; an UPDATE of a row that is not there has no effect.
WriteRow(c, i, v) ==
  /\ CanWrite(c, i)
  /\ writes' = [writes EXCEPT ![c][i] =
                  IF v = "new" \/ VisibleContent(c)[i] # "none" THEN v ELSE @]

Show(c, i, v) == store' = [store EXCEPT ![c][i] = v]

\* insertPKI(): the object is in the Store and in the tree before the commit.
Insert(c, i) ==
  /\ InOperation(c)
  /\ IsNextId(c, i)
  /\ WriteRow(c, i, "new")
  /\ Show(c, i, "new")
  /\ UNCHANGED <<rows, mutex, error, items, stamping, late, known, polled, prompt, broken, loyal>>

\* An item is updated with AffectedItems(); if somebody has deleted it meanwhile
\* it stays deleted.
Update(c, i) ==
  /\ InOperation(c)
  /\ store[c][i] = "new"
  /\ WriteRow(c, i, IF VisibleContent(c)[i] = "deleted" THEN "deleted" ELSE "changed")
  /\ Show(c, i, "changed")
  /\ UNCHANGED <<rows, mutex, error, stamping, late, known, polled, prompt, broken, loyal>>

Change_Unaffected(c, i) ==
  /\ Update(c, i)
  /\ UNCHANGED items

Change(c, i) ==
  /\ Update(c, i)
  /\ items' = [items EXCEPT ![c] = @ \cup {i}]

\* deletePKI() calls TransDone() first and AffectedItems() then: too late for
\* the stamp if its transaction is the outermost one.
AffectedByDelete(c, i) ==
  IF mutex[c] = 1
  THEN late' = [late EXCEPT ![c] = {i}] /\ UNCHANGED items
  ELSE items' = [items EXCEPT ![c] = @ \cup {i}] /\ UNCHANGED late

\* deletePKI() has a transaction of its own, the outermost one or a nested one.
InDeletePKI(c, i) ==
  /\ InOperation(c)
  /\ mutex[c] = 1 => ~Writing(c) /\ ~error[c]
  /\ store[c][i] \in {"new", "changed"}
  /\ AffectedByDelete(c, i)
  /\ Show(c, i, "deleted")

Delete(c, i) ==
  /\ InDeletePKI(c, i)
  /\ WriteRow(c, i, "deleted")
  /\ UNCHANGED <<rows, mutex, error, stamping, known, polled, prompt, broken, loyal>>

\* deleteSql() fails: the object is removed nevertheless.
DeleteFails(c, i) ==
  /\ InDeletePKI(c, i)
  /\ error' = [error EXCEPT ![c] = TRUE]
  /\ broken' = [broken EXCEPT ![c] = TRUE]
  /\ loyal' = [loyal EXCEPT ![c] = FALSE]
  /\ UNCHANGED <<rows, writes, mutex, stamping, known, polled, prompt>>

------------------------------------------------------------------------------
(* finish(): Commit, Rollback or the destructor.                           *)

\* The items reported so far are forgotten, those reported late stay for the
\* next transaction.
Close(c) ==
  /\ writes' = [writes EXCEPT ![c] = NoWrites]
  /\ mutex'  = [mutex EXCEPT ![c] = 0]
  /\ error'  = [error EXCEPT ![c] = FALSE]
  /\ items'  = [items EXCEPT ![c] = late[c]]
  /\ late'   = [late EXCEPT ![c] = {}]
  /\ stamping' = [stamping EXCEPT ![c] = FALSE]
  /\ broken' = [broken EXCEPT ![c] = FALSE]

Leave(c, ok) ==
  /\ ~stamping[c]
  /\ mutex' = [mutex EXCEPT ![c] = @ - 1]
  /\ broken' = [broken EXCEPT ![c] = @ \/ ~ok]
  /\ UNCHANGED <<rows, writes, items, stamping, late, known, store, polled, prompt, loyal>>

\* The destructor after a Commit: has_begun is not looked at.
FinishNested_Unbalanced(c, ok) ==
  /\ Leave(c, ok)
  /\ error' = [error EXCEPT ![c] = @ \/ ~ok]

FinishNested_Forgets(c, ok) ==
  /\ mutex[c] > 1
  /\ Leave(c, ok)
  /\ UNCHANGED error

FinishNested(c, ok) ==
  /\ mutex[c] > 1
  /\ Leave(c, ok)
  /\ error' = [error EXCEPT ![c] = @ \/ ~ok]

\* commit() of the outermost transaction rolls back, too, if a nested one was.
RollBack(c, ok) ==
  /\ mutex[c] = 1
  /\ ~stamping[c]
  /\ error[c] \/ ~ok
  /\ Close(c)
  /\ loyal' = [loyal EXCEPT ![c] = @ /\ ~Writing(c)]
  /\ UNCHANGED <<rows, known, store, polled, prompt>>

\* The new stamp is computed; the locks of SQLite keep two clients from doing
\* that at the same time ...
Stamp(c) ==
  /\ mutex[c] = 1
  /\ ~stamping[c]
  /\ OneWriter => \A d \in Client : ~stamping[d]
  /\ ~error[c]
  /\ TopStamp < MaxStamp
  /\ stamping' = [stamping EXCEPT ![c] = TRUE]
  /\ known' = [known EXCEPT ![c] = NextStamp(c)]
  /\ UNCHANGED <<rows, writes, mutex, error, items, late, store, polled, prompt, broken, loyal>>

\* ... and given to the rows whose stamp is still 0 and to the items; whether
\* these statements succeed is not looked at.
Stamped(c, i) ==
  /\ VisibleContent(c)[i] # "none"
  /\ \/ writes[c][i] # Unwritten /\ rows[i].stamp = 0
     \/ i \in items[c] /\ CanWrite(c, i)

Commit(c) ==
  /\ stamping[c]
  /\ rows' = [i \in Id |->
                [content |-> VisibleContent(c)[i],
                 stamp   |-> IF Stamped(c, i) THEN known[c] ELSE rows[i].stamp]]
  /\ Close(c)
  /\ polled' = [d \in Client |-> FALSE]
  /\ prompt' = [d \in Client |-> prompt[d] /\ polled[d]]
  /\ UNCHANGED <<known, store, loyal>>

------------------------------------------------------------------------------
(* The poll every 1500 ms, which a modal dialog inside the outermost       *)
(* transaction does not stop.                                              *)

\* SELECT DISTINCT type FROM items WHERE stamp=?
ChangedTypes == {TypeOf[i] : i \in {j \in Id : rows[j].stamp = TopStamp}}

ReloadContainers(c) ==
  [i \in Id |-> IF ReloadedBy[TypeOf[i]] \cap ChangedTypes # {}
                THEN VisibleContent(c)[i] ELSE store[c][i]]

Reloaded_OffByOne(c) ==
  IF TopStamp > known[c] + 1 THEN ReloadContainers(c) ELSE store[c]

Reloaded(c) == IF TopStamp > known[c] THEN ReloadContainers(c) ELSE store[c]

Poll(c) ==
  /\ mutex[c] <= 1
  /\ ~stamping[c]
  /\ late[c] = {}
  /\ store' = [store EXCEPT ![c] = Reloaded(c)]
  /\ known' = [known EXCEPT ![c] = TopStamp]
  /\ polled' = [polled EXCEPT ![c] = @ \/ Idle(c)]
  /\ UNCHANGED <<rows, clientVars, prompt, broken, loyal>>

\* The process ends or dies and is started again.
Restart(c) ==
  /\ writes' = [writes EXCEPT ![c] = NoWrites]
  /\ mutex'  = [mutex EXCEPT ![c] = 0]
  /\ error'  = [error EXCEPT ![c] = FALSE]
  /\ items'  = [items EXCEPT ![c] = {}]
  /\ late'   = [late EXCEPT ![c] = {}]
  /\ stamping' = [stamping EXCEPT ![c] = FALSE]
  /\ known' = [known EXCEPT ![c] = 0]
  /\ store' = [store EXCEPT ![c] = [i \in Id |-> rows[i].content]]
  /\ polled' = [polled EXCEPT ![c] = TRUE]
  /\ prompt' = [prompt EXCEPT ![c] = TRUE]
  /\ broken' = [broken EXCEPT ![c] = FALSE]
  /\ loyal' = [loyal EXCEPT ![c] = TRUE]
  /\ UNCHANGED rows

Init ==
  /\ rows = [i \in Id |-> [content |-> "none", stamp |-> 0]]
  /\ writes = [c \in Client |-> NoWrites]
  /\ mutex = [c \in Client |-> 0]
  /\ error = [c \in Client |-> FALSE]
  /\ items = [c \in Client |-> {}]
  /\ stamping = [c \in Client |-> FALSE]
  /\ late = [c \in Client |-> {}]
  /\ known = [c \in Client |-> 0]
  /\ store = [c \in Client |-> [i \in Id |-> "none"]]
  /\ polled = [c \in Client |-> TRUE]
  /\ prompt = [c \in Client |-> TRUE]
  /\ broken = [c \in Client |-> FALSE]
  /\ loyal = [c \in Client |-> TRUE]

Finish(c) ==
  \/ \E ok \in BOOLEAN : FinishNested(c, ok) \/ RollBack(c, ok)
  \/ Stamp(c)
  \/ Commit(c)

Next ==
  \E c \in Client :
    \/ Begin(c)
    \/ \E i \in Id : Insert(c, i) \/ Change(c, i) \/ Delete(c, i) \/ DeleteFails(c, i)
    \/ Finish(c)
    \/ Poll(c)
    \/ Restart(c)

Spec == Init /\ [][Next]_vars

\* A user operation ends, and the event loop serves the timer in between two
\* operations even if they follow each other for ever.
Fairness == \A c \in Client : WF_vars(Finish(c)) /\ SF_vars(Poll(c))
FairSpec == Spec /\ Fairness

------------------------------------------------------------------------------
(* Properties.                                                             *)

TypeOK ==
  /\ rows \in [Id -> [content : Content, stamp : 0..MaxStamp]]
  /\ writes \in [Client -> [Id -> Content \cup {Unwritten}]]
  /\ mutex \in [Client -> Nat]
  /\ \A c \in Client : mutex[c] <= MaxLevel[c]
  /\ error \in [Client -> BOOLEAN]
  /\ items \in [Client -> SUBSET Id]
  /\ stamping \in [Client -> BOOLEAN]
  /\ late \in [Client -> SUBSET Id]
  /\ known \in [Client -> 0..MaxStamp]
  /\ store \in [Client -> [Id -> Content]]
  /\ polled \in [Client -> BOOLEAN]
  /\ prompt \in [Client -> BOOLEAN]
  /\ broken \in [Client -> BOOLEAN]
  /\ loyal \in [Client -> BOOLEAN]

\* Nested operations are one transaction: their writes reach the database
\* together, and not at all if one of them was rolled back, whatever commits
\* follow.
Atomic == INSTANCE AtomicTransaction
            WITH table   <- [i \in Id |-> rows[i].content],
                 pending <- writes,
                 failed  <- broken,
                 open    <- {c \in Client : mutex[c] > 0}
AtomicSpec == Atomic!Spec

\* What another client has to reload gets a stamp it has not seen yet.
\* Deletions are excluded: the stamp of deletePKI() comes late.
ChangesAreStamped ==
  [][\A i \in Id :
       rows'[i].content # rows[i].content /\ rows'[i].content # "deleted" =>
         \A j \in Id : rows[j].stamp < rows'[i].stamp]_vars

\* The static error and a part that was rolled back go together, nothing is
\* stamped but at the end of a sound outermost transaction, and an idle client
\* has left nothing behind.
Balanced ==
  \A c \in Client :
    /\ error[c] = broken[c]
    /\ stamping[c] => mutex[c] = 1 /\ ~error[c]
    /\ Idle(c) => ~Writing(c) /\ ~error[c]

\* What ChangesAreStamped rests on: a row that is not there has no stamp ...
AbsentUnstamped == \A i \in Id : rows[i].content = "none" => rows[i].stamp = 0

\* ... a written row is new or was reported with AffectedItems() ...
Reported ==
  \A c \in Client, i \in Id :
    /\ writes[c][i] # "none"
    /\ writes[c][i] = "new" => rows[i].content = "none"
    /\ writes[c][i] = "changed" => i \in items[c]

\* ... no row is written by two clients and SQLite has one writer ...
WritersApart ==
  \A c, d \in Client :
    c # d =>
      /\ \A i \in Id : writes[c][i] = Unwritten \/ writes[d][i] = Unwritten
      /\ OneWriter => ~(Writing(c) /\ Writing(d)) /\ ~(stamping[c] /\ stamping[d])

\* ... and the computed stamp is still the next one when it is given.
FreshStamp ==
  OneWriter =>
    \A c \in Client :
      stamping[c] /\ (\E i \in Id : VisibleContent(c)[i] # "none") =>
        \A j \in Id : rows[j].stamp < known[c]

Stampable == AbsentUnstamped /\ Reported /\ WritersApart /\ FreshStamp

Shows(c) ==
  \A i \in Id : rows[i].content \in {"new", "changed"} => store[c][i] = rows[i].content

\* A client that polled between any two commits shows, after its next poll,
\* every item as it is in the database.
PromptPollSeesAll ==
  \A c \in Client : prompt[c] /\ polled[c] /\ loyal[c] /\ Idle(c) => Shows(c)

\* A change that client c has yet to read: its next poll will.
Pending(c, i) ==
  /\ ~polled[c] /\ ~stamping[c]
  /\ rows[i].stamp = TopStamp
  /\ known[c] < TopStamp

\* What PromptPollSeesAll rests on: even in the middle of an operation a client
\* shows the rows as its statements see them, but for those it has yet to read,
\* and having polled it knows no stamp that is still to be given.
Informed(c) ==
  /\ polled[c] /\ ~stamping[c] => known[c] <= TopStamp
  /\ prompt[c] /\ loyal[c] /\ (stamping[c] => polled[c]) =>
       \A i \in Id : VisibleContent(c)[i] \in {"new", "changed"} =>
                       store[c][i] = VisibleContent(c)[i] \/ Pending(c, i)

AllInformed == \A c \in Client : Informed(c)

\* Changes arrive at a client that polls between any two commits.
NewsArrives ==
  \A c \in Client : ~Shows(c) ~> Shows(c) \/ ~prompt[c] \/ ~loyal[c]

==============================================================================

-------------------------- MODULE AtomicTransaction --------------------------
(***************************************************************************)
(* What the callers of DbTransaction (lib/sql.cpp) rely on: the writes of  *)
(* a user operation, however many operations it is made of, reach the      *)
(* database together, and none of them does when one of its parts failed.  *)
(***************************************************************************)
CONSTANTS Client, Id, Content,
          Unwritten  \* the operation has not written the row

VARIABLES
  table,    \* the rows of the database
  pending,  \* the rows a client has written and not committed
  failed,   \* a part of the client's operation has failed
  open      \* the clients in an operation

avars == <<table, pending, failed, open>>

NothingPending == [i \in Id |-> Unwritten]

Committed(c) == [i \in Id |-> IF pending[c][i] = Unwritten THEN table[i] ELSE pending[c][i]]

Begin(c) ==
  /\ c \notin open
  /\ open' = open \cup {c}
  /\ UNCHANGED <<table, pending, failed>>

Write(c, i, v) ==
  /\ c \in open
  /\ pending' = [pending EXCEPT ![c][i] = v]
  /\ UNCHANGED <<table, failed, open>>

Fail(c) ==
  /\ c \in open
  /\ failed' = [failed EXCEPT ![c] = TRUE]
  /\ UNCHANGED <<table, pending, open>>

Close(c) ==
  /\ pending' = [pending EXCEPT ![c] = NothingPending]
  /\ failed' = [failed EXCEPT ![c] = FALSE]
  /\ open' = open \ {c}

Commit(c) ==
  /\ c \in open
  /\ ~failed[c]
  /\ table' = Committed(c)
  /\ Close(c)

\* Rolled back on request, after a failure or because the process died.
Abort(c) ==
  /\ c \in open
  /\ UNCHANGED table
  /\ Close(c)

Init ==
  /\ table \in [Id -> Content]
  /\ pending = [c \in Client |-> NothingPending]
  /\ failed = [c \in Client |-> FALSE]
  /\ open = {}

Next ==
  \E c \in Client :
    \/ Begin(c)
    \/ \E i \in Id, v \in Content : Write(c, i, v)
    \/ Fail(c)
    \/ Commit(c)
    \/ Abort(c)

Spec == Init /\ [][Next]_avars
==============================================================================

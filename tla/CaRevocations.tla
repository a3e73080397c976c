---------------------------- MODULE CaRevocations ----------------------------
(***************************************************************************)
(* The revocation list of a CA and its CRLs: lib/x509rev.cpp, the          *)
(* revocation part of lib/pki_x509.cpp and lib/db_x509.cpp, lib/db_crl.cpp *)
(* and the dialogs widgets/RevocationList.cpp and widgets/NewCrl.cpp.      *)
(*                                                                         *)
(* A list is always written as a whole: sqlUpdate() deletes the rows of    *)
(* the CA and inserts those of a copy read before.  A CRL is signed over   *)
(* the rows, then its number is written to the CA and to the rows that     *)
(* had none.  The number of the last CRL lives in the object of the CA;    *)
(* a reload replaces the objects while a dialog keeps the old one.         *)
(*                                                                         *)
(* The CAs are one CA and its renewals: same name and key, a later expiry  *)
(* date each, and the newest has all the children.                         *)
(***************************************************************************)
EXTENDS Naturals, Sequences, FiniteSets

CONSTANTS
  Client,      \* the XCA processes that have the database open
  Manager,     \* the clients whose users open Manage revocations
  Signer,      \* the clients whose users generate CRLs
  Serial,      \* serial numbers of certificates of the CA
  Child,       \* the serials whose certificates are in the database
  MaxCA,       \* bound on the CA and its renewals
  MaxNo,       \* bound on the CRL numbers
  MaxCopies,   \* bound on how often the user adds each serial to a list
  Null,        \* SQL NULL
  MayFail      \* the database may refuse to write a list

ASSUME BoundsAssumption == MaxCA \in Nat \ {0} /\ MaxNo \in Nat /\ MaxCopies \in [Serial -> Nat]
ASSUME ChildAssumption == Child \subseteq Serial
ASSUME NullAssumption == Null \notin Nat
ASSUME FailAssumption == MayFail \in BOOLEAN

CA == 1..MaxCA

VARIABLES
  newest,    \* DB: the CAs stored are 1..newest
  rows,      \* DB: revocations.crlNo of the rows of each CA and serial, in order
  lastNo,    \* DB: authority.crlNo
  issued,    \* the CRLs generated with a number, wherever they have been published
  ca,        \* the object of the newest CA the client has loaded
  old,       \* the object an open dialog still uses after a reload
  marked,    \* the certificates shown as revoked, pki_x509::revocation
  held,      \* the list a handler or the Manage revocations dialog has read
  task,      \* the CRL being made
  behind,    \* history: marked need not be the list any more
  typed,     \* history: serials the user added to a list that had them
  calm       \* history: nobody wrote what others had changed after it was read

db == <<newest, rows, lastNo, issued>>
memory == <<ca, old, marked, held, task>>
history == <<behind, typed, calm>>
vars == <<db, memory, history>>

NoObject == [id |-> 0, number |-> 0, fresh |-> TRUE]
EmptyList == [s \in Serial |-> <<>>]
NoList == [op |-> "none", copy |-> EmptyList, removed |-> {}, stale |-> FALSE]
NoTask == [phase |-> "none", no |-> 0, serials |-> {}, stale |-> FALSE]

On(list) == {s \in Serial : list[s] # <<>>}

\* x509revList::fromSql(): NULL is read as 0
FromSql(list) ==
  [s \in Serial |-> [i \in DOMAIN list[s] |-> IF list[s][i] = Null THEN 0 ELSE list[s][i]]]

\* Mutants of merge(): without contains(), and only what is new.
Merge_Append(list, S) == [s \in Serial |-> IF s \in S THEN Append(list[s], 0) ELSE list[s]]
Merge_OnlyNew(list, S) ==
  [s \in Serial |-> IF s \in S /\ list[s] = <<>> THEN <<0>> ELSE <<>>]

\* x509revList::merge(): nothing is added that is already contained
Merge(list, S) ==
  [s \in Serial |-> IF s \in S /\ list[s] = <<>> THEN <<0>> ELSE list[s]]

\* QList::indexOf() and takeAt(): the first entry of each serial of S
TakeFirst(list, S) ==
  [s \in Serial |-> IF s \in S /\ list[s] # <<>> THEN Tail(list[s]) ELSE list[s]]

\* The entries of one serial up to the i-th that have no number.
Unnumbered(entries, i) == Cardinality({j \in 1..i : j <= Len(entries) /\ entries[j] = 0})

\* x509revList::sqlUpdate(): an entry without a number takes the next one the
\* serial had in the old rows; executeQuery() writes 0 as NULL.
Recovered(entries, oldEntries, i) ==
  IF entries[i] # 0 THEN entries[i]
  ELSE LET k == Unnumbered(entries, i)
       IN  IF k <= Len(oldEntries) THEN oldEntries[k] ELSE 0

\* Mutant of sqlUpdate(): what has a number is not inserted again.
SqlUpdate_OnlyNew(list, oldRows) ==
  [s \in Serial |-> IF list[s] # <<>> /\ list[s][1] # 0 THEN <<>> ELSE [i \in DOMAIN list[s] |->
     LET no == Recovered(list[s], FromSql(oldRows)[s], i)
     IN  IF no = 0 THEN Null ELSE no]]

SqlUpdate(list, oldRows) ==
  [s \in Serial |-> [i \in DOMAIN list[s] |->
     LET no == Recovered(list[s], FromSql(oldRows)[s], i)
     IN  IF no = 0 THEN Null ELSE no]]

\* The object of the CA the client's open dialogs and handlers work on.
Used(c) == IF old[c] = NoObject THEN ca[c] ELSE old[c]

Free(c) == held[c] = NoList /\ task[c] = NoTask
ShownChildren(list) == Child \cap On(list)

\* What happens to the others when client c rewrites the rows of CA a.
Outdate(c, a, h, t, b) ==
  /\ held' = [d \in Client |-> IF d # c /\ h[d].op # "none" /\ Used(d).id = a
                               THEN [h[d] EXCEPT !.stale = TRUE] ELSE h[d]]
  /\ task' = [d \in Client |-> IF d # c /\ t[d].phase = "signed" /\ Used(d).id = a
                               THEN [t[d] EXCEPT !.stale = TRUE] ELSE t[d]]
  /\ behind' = [d \in Client |-> IF d = c THEN b ELSE behind[d] \/ ca[d].id = a]

------------------------------------------------------------------------------
Init ==
  /\ newest = 1
  /\ rows = [a \in CA |-> EmptyList]
  /\ lastNo = [a \in CA |-> 0]
  /\ issued = {}
  /\ ca = [c \in Client |-> [id |-> 1, number |-> 0, fresh |-> TRUE]]
  /\ old = [c \in Client |-> NoObject]
  /\ marked = [c \in Client |-> {}]
  /\ held = [c \in Client |-> NoList]
  /\ task = [c \in Client |-> NoTask]
  /\ behind = [c \in Client |-> FALSE]
  /\ typed = {}
  /\ calm = TRUE

\* Entry Revoke of the context menu: do_revoke() marks the certificates and
\* mergeRevList() reads the list; there is nothing to write if it has them all.
Revoke(c, S) ==
  LET list == FromSql(rows[ca[c].id])
  IN  /\ Free(c) /\ S # {} /\ S \subseteq Child \ marked[c]
      /\ marked' = [marked EXCEPT ![c] = @ \cup S]
      /\ held' = IF S \subseteq On(list) THEN held
                 ELSE [held EXCEPT ![c] = [NoList EXCEPT !.op = "revoke",
                                                         !.copy = Merge(list, S)]]
      /\ UNCHANGED <<db, ca, old, task, history>>

\* Entry Unrevoke: unRevoke() clears the marks and takes the first entry of each.
UnRevoke(c, S) ==
  /\ Free(c) /\ S # {} /\ S \subseteq marked[c]
  /\ held' = [held EXCEPT ![c] = [NoList EXCEPT !.op = "unrevoke", !.removed = S,
                !.copy = TakeFirst(FromSql(rows[ca[c].id]), S)]]
  /\ marked' = [marked EXCEPT ![c] = @ \ S]
  /\ UNCHANGED <<db, ca, old, task, history>>

\* setRevocations() of a dialog or handler, next is what it continues with: it
\* marks the children of its object by the list and rewrites the rows.  The
\* result of sqlUpdate() is ignored.
SetRevocations(c, next, t) ==
  LET a == Used(c).id
      shown == old[c] = NoObject
      marks == ShownChildren(held[c].copy)
  IN  /\ marked' = IF shown THEN [marked EXCEPT ![c] = marks] ELSE marked
      /\ \/ /\ rows' = [rows EXCEPT ![a] = SqlUpdate(held[c].copy, @)]
            /\ Outdate(c, a, [held EXCEPT ![c] = next], t,
                       IF shown THEN FALSE ELSE behind[c] \/ ca[c].id = a)
            /\ calm' = (calm /\ ~held[c].stale)
         \/ /\ MayFail
            /\ held' = [held EXCEPT ![c] = IF @.op = "manage" /\ next # NoList THEN @ ELSE next]
            /\ task' = t
            /\ behind' = [behind EXCEPT ![c] = @ \/ shown]
            /\ UNCHANGED <<rows, calm>>
      /\ UNCHANGED <<newest, lastNo, issued, ca, typed>>

\* The sqlUpdate() of mergeRevList(), called by do_revoke().
RevokeWrites(c) ==
  LET a == ca[c].id
  IN  /\ held[c].op = "revoke"
      /\ \/ /\ rows' = [rows EXCEPT ![a] = SqlUpdate(held[c].copy, @)]
            /\ Outdate(c, a, [held EXCEPT ![c] = NoList], task, behind[c])
            /\ calm' = (calm /\ ~held[c].stale)
         \/ /\ MayFail
            /\ held' = [held EXCEPT ![c] = NoList]
            /\ behind' = [behind EXCEPT ![c] = TRUE]
            /\ UNCHANGED <<rows, task, calm>>
      /\ UNCHANGED <<newest, lastNo, issued, ca, old, marked, typed>>

UnRevokeWrites(c) ==
  /\ held[c].op = "unrevoke"
  /\ SetRevocations(c, NoList, task)
  /\ UNCHANGED old

------------------------------------------------------------------------------
\* The dialog Manage revocations.
OpenManage(c) ==
  /\ c \in Manager /\ Free(c)
  /\ held' = [held EXCEPT ![c] = [NoList EXCEPT !.op = "manage",
                                                !.copy = FromSql(rows[ca[c].id])]]
  /\ UNCHANGED <<db, ca, old, marked, task, history>>

Managing(c) == held[c].op = "manage" /\ task[c] = NoTask

\* on_addRev_clicked(): appended whether the list has the serial or not
AddRev(c, s) ==
  /\ Managing(c) /\ Len(held[c].copy[s]) < MaxCopies[s]
  /\ held' = [held EXCEPT ![c].copy[s] = Append(@, 0)]
  /\ typed' = IF held[c].copy[s] = <<>> THEN typed ELSE typed \cup {s}
  /\ UNCHANGED <<db, ca, old, marked, task, behind, calm>>

\* on_delRev_clicked(): the first entry of the serial, whichever was selected
DelRev(c, s) ==
  /\ Managing(c) /\ held[c].copy[s] # <<>>
  /\ held' = [held EXCEPT ![c].copy = TakeFirst(@, {s}), ![c].removed = @ \cup {s}]
  /\ UNCHANGED <<db, ca, old, marked, task, history>>

\* on_certList_itemDoubleClicked(): getRevocation() gives the entry number 0
EditRev(c, s) ==
  /\ Managing(c) /\ held[c].copy[s] # <<>>
  /\ held' = [held EXCEPT ![c].copy[s][1] = 0]
  /\ UNCHANGED <<db, ca, old, marked, task, history>>

ManageOk(c) ==
  /\ Managing(c)
  /\ SetRevocations(c, NoList, task)
  /\ old' = [old EXCEPT ![c] = NoObject]

ManageCancel(c) ==
  /\ Managing(c)
  /\ held' = [held EXCEPT ![c] = NoList]
  /\ old' = [old EXCEPT ![c] = NoObject]
  /\ UNCHANGED <<db, ca, marked, task, history>>

------------------------------------------------------------------------------
\* crljob(): one more than the number of the last CRL the object knows of
NewTask(c) == [NoTask EXCEPT !.phase = "open", !.no = Used(c).number + 1]

\* Button Generate CRL of Manage revocations: gencrl() writes the list first.
GenerateFromManage(c) ==
  /\ c \in Signer /\ Managing(c) /\ Used(c).number < MaxNo
  /\ SetRevocations(c, [held[c] EXCEPT !.removed = {}, !.stale = FALSE],
                    [task EXCEPT ![c] = NewTask(c)])
  /\ UNCHANGED old

\* Entry Generate CRL of the context menu.
OpenCrl(c) ==
  /\ c \in Signer /\ Free(c) /\ Used(c).number < MaxNo
  /\ task' = [task EXCEPT ![c] = NewTask(c)]
  /\ UNCHANGED <<db, ca, old, marked, held, history>>

\* The dialogs of c are closed, or it goes back to Manage revocations.
EndTask(c) ==
  old' = IF held[c].op = "manage" THEN old ELSE [old EXCEPT ![c] = NoObject]

\* Mutant of setCrlNumber(): it assigns the number.
SetCrlNumber_Assign(object, n) == [object EXCEPT !.number = n]

\* pki_x509::setCrlNumber() never lowers the number.
SetCrlNumber(object, n) ==
  IF n > object.number THEN [object EXCEPT !.number = n] ELSE object

\* Mutant of newCrl(): the list has what was on no CRL yet.
SignCrl_OnlyNew(c, n) ==
  /\ task[c].phase = "open" /\ n \in {task[c].no, 0}
  /\ task' = [task EXCEPT ![c] = [phase |-> "signed", no |-> n, stale |-> FALSE,
       serials |-> {s \in Serial : \E i \in DOMAIN rows[Used(c).id][s] :
                                     rows[Used(c).id][s][i] = Null}]]
  /\ IF old[c] = NoObject
     THEN ca' = [ca EXCEPT ![c] = SetCrlNumber(@, n)] /\ UNCHANGED old
     ELSE old' = [old EXCEPT ![c] = SetCrlNumber(@, n)] /\ UNCHANGED ca
  /\ UNCHANGED <<db, marked, held, history>>

\* newCrl() up to the signature, with the number offered or without one.
SignCrl(c, n) ==
  /\ task[c].phase = "open" /\ n \in {task[c].no, 0}
  /\ task' = [task EXCEPT ![c] = [phase |-> "signed", no |-> n,
                                  serials |-> On(rows[Used(c).id]), stale |-> FALSE]]
  /\ IF old[c] = NoObject
     THEN ca' = [ca EXCEPT ![c] = SetCrlNumber(@, n)] /\ UNCHANGED old
     ELSE old' = [old EXCEPT ![c] = SetCrlNumber(@, n)] /\ UNCHANGED ca
  /\ UNCHANGED <<db, marked, held, history>>

\* Mutants of newCrl(): the CA gets a number too many or the number of the CRL,
\* the rows get the number of the CA.
SetAuthority_TooMany(c) == lastNo' = [lastNo EXCEPT ![Used(c).id] = Used(c).number + 1]
SetAuthority_OfCrl(c) == lastNo' = [lastNo EXCEPT ![Used(c).id] = task[c].no]
NumberRows_OfCA(c) ==
  rows' = [rows EXCEPT ![Used(c).id] = [s \in Serial |->
    [i \in DOMAIN @[s] |-> IF @[s][i] = Null THEN Used(c).number ELSE @[s][i]]]]

\* The two UPDATE statements of newCrl().
SetAuthority(c) == lastNo' = [lastNo EXCEPT ![Used(c).id] = Used(c).number]
NumberRows(c) ==
  rows' = [rows EXCEPT ![Used(c).id] = [s \in Serial |->
    [i \in DOMAIN @[s] |-> IF @[s][i] = Null THEN task[c].no ELSE @[s][i]]]]

\* The transaction of newCrl().
CommitCrl(c) ==
  LET a == Used(c).id
      no == task[c].no
  IN  /\ task[c].phase = "signed"
      /\ SetAuthority(c)
      /\ NumberRows(c)
      /\ issued' = IF no = 0 THEN issued
                   ELSE issued \cup {[ca |-> a, no |-> no, serials |-> task[c].serials]}
      /\ calm' = (calm /\ Used(c).fresh /\ ~task[c].stale)
      /\ ca' = [d \in Client |-> IF (d # c \/ old[c] # NoObject) /\ ca[d].id = a
                                 THEN [ca[d] EXCEPT !.fresh = FALSE] ELSE ca[d]]
      /\ old' = [d \in Client |->
           IF d = c THEN IF held[c].op = "manage" THEN old[c] ELSE NoObject
           ELSE IF old[d].id = a THEN [old[d] EXCEPT !.fresh = FALSE] ELSE old[d]]
      /\ task' = [task EXCEPT ![c] = NoTask]
      /\ UNCHANGED <<newest, marked, held, behind, typed>>

\* The dialog is cancelled, or newCrl() throws before it commits: the object
\* keeps the number.
DropCrl(c) ==
  /\ task[c] # NoTask
  /\ task' = [task EXCEPT ![c] = NoTask]
  /\ EndTask(c)
  /\ UNCHANGED <<db, ca, marked, held, history>>

\* Mutant of revokeCerts(): the certificates of the CRL are not marked.
ImportCrl_Unmarked(c, S) ==
  LET a == ca[c].id
      list == FromSql(rows[a])
  IN  /\ Free(c) /\ S # {}
      /\ IF S \subseteq On(list) THEN UNCHANGED <<rows, held, task, behind>>
         ELSE /\ rows' = [rows EXCEPT ![a] = SqlUpdate(Merge(list, S), @)]
              /\ Outdate(c, a, held, task, behind[c])
      /\ UNCHANGED <<newest, lastNo, issued, ca, old, marked, typed, calm>>

\* A CRL of the CA that another program made is imported: revokeCerts().
ImportCrl(c, S) ==
  LET a == ca[c].id
      list == FromSql(rows[a])
  IN  /\ Free(c) /\ S # {}
      /\ marked' = [marked EXCEPT ![c] = @ \cup (S \cap Child)]
      /\ IF S \subseteq On(list) THEN UNCHANGED <<rows, held, task, behind>>
         ELSE /\ rows' = [rows EXCEPT ![a] = SqlUpdate(Merge(list, S), @)]
              /\ Outdate(c, a, held, task, behind[c])
      /\ UNCHANGED <<newest, lastNo, issued, ca, old, typed, calm>>

------------------------------------------------------------------------------
\* The entries of the older CAs, one of each serial, that of the first CA the
\* query happens to return: inToCont().
Inherited ==
  [s \in Serial |->
     LET lists == {a \in 1..newest : rows[a][s] # <<>>}
     IN  IF lists = {} THEN <<>>
         ELSE <<FromSql(rows[CHOOSE a \in lists : TRUE])[s][1]>>]

\* certRenewal() of the CA: insertSqlData() starts with crlNo 0, inToCont()
\* takes over the children and the list.
Renew(c) ==
  /\ Free(c) /\ ca[c].id = newest /\ ~behind[c] /\ newest < MaxCA
  /\ newest' = newest + 1
  /\ rows' = [rows EXCEPT ![newest + 1] = SqlUpdate(Inherited, @)]
  /\ lastNo' = [lastNo EXCEPT ![newest + 1] = 0]
  /\ ca' = [ca EXCEPT ![c] = [id |-> newest + 1, number |-> 0, fresh |-> TRUE]]
  /\ marked' = [marked EXCEPT ![c] = ShownChildren(Inherited)]
  /\ UNCHANGED <<issued, old, held, task, history>>

\* loadContainer(): the objects are what the database has.
Load(c) ==
  /\ ca' = [ca EXCEPT ![c] = [id |-> newest, number |-> lastNo[newest], fresh |-> TRUE]]
  /\ marked' = [marked EXCEPT ![c] = ShownChildren(rows[newest])]
  /\ behind' = [behind EXCEPT ![c] = FALSE]

\* The poll saw a change of some certificate: the open dialogs keep the object
\* they were given.
Reload(c) ==
  /\ held[c].op \in {"none", "manage"}
  /\ Load(c)
  /\ old' = IF Free(c) THEN old ELSE [old EXCEPT ![c] = Used(c)]
  /\ UNCHANGED <<db, held, task, typed, calm>>

\* The client is killed, or closes the database, and opens it again.
Restart(c) ==
  /\ Load(c)
  /\ old' = [old EXCEPT ![c] = NoObject]
  /\ held' = [held EXCEPT ![c] = NoList]
  /\ task' = [task EXCEPT ![c] = NoTask]
  /\ UNCHANGED <<db, typed, calm>>

Next ==
  \E c \in Client :
    \/ \E S \in SUBSET Child : Revoke(c, S) \/ UnRevoke(c, S)
    \/ RevokeWrites(c) \/ UnRevokeWrites(c)
    \/ OpenManage(c) \/ ManageOk(c) \/ ManageCancel(c) \/ GenerateFromManage(c)
    \/ \E s \in Serial : AddRev(c, s) \/ DelRev(c, s) \/ EditRev(c, s)
    \/ OpenCrl(c) \/ CommitCrl(c) \/ DropCrl(c)
    \/ \E n \in 0..MaxNo : SignCrl(c, n)
    \/ \E S \in SUBSET Serial : ImportCrl(c, S)
    \/ Renew(c) \/ Reload(c) \/ Restart(c)

Spec == Init /\ [][Next]_vars

------------------------------------------------------------------------------
Number == 0..MaxNo
Object == [id : CA, number : Number, fresh : BOOLEAN]
Lists(Entry) == [Serial -> Seq(Entry)]
Held == [op : {"none", "revoke", "unrevoke", "manage"}, copy : Lists(Number),
         removed : SUBSET Serial, stale : BOOLEAN]
Task == [phase : {"none", "open", "signed"}, no : Number,
         serials : SUBSET Serial, stale : BOOLEAN]

\* The variables have their types.
TypeOK ==
  /\ newest \in CA
  /\ rows \in [CA -> Lists(Number \cup {Null})]
  /\ lastNo \in [CA -> Number]
  /\ issued \subseteq [ca : CA, no : Number, serials : SUBSET Serial]
  /\ ca \in [Client -> Object]
  /\ old \in [Client -> Object \cup {NoObject}]
  /\ marked \in [Client -> SUBSET Child]
  /\ held \in [Client -> Held]
  /\ task \in [Client -> Task]
  /\ behind \in [Client -> BOOLEAN]
  /\ typed \subseteq Serial
  /\ calm \in BOOLEAN

\* The certificates a client shows as revoked are those on the list of their
\* CA, unless another client, a failed write or a write through a replaced
\* object changed the list since they were loaded: do_revoke(), unRevoke(),
\* setRevocations(), revokeCerts() and inToCont() keep marks and rows together.
MarkedIffListed ==
  \A c \in Client : ~behind[c] /\ held[c].op \in {"none", "manage"} =>
    marked[c] = ShownChildren(rows[ca[c].id])

\* A serial is on a list twice only if the user added it a second time:
\* revoking, importing a CRL and renewing the CA do not duplicate it, so
\* that unrevoking it takes it off the list and view_certs has it once.
DuplicatesAreTyped ==
  \A a \in CA, s \in Serial : Len(rows[a][s]) > 1 => s \in typed

\* authority.crlNo is the last CRL number (lib/database_schema.cpp:150): no
\* CRL of the CA has a greater one, also after failed and cancelled CRLs.
LastNumber ==
  calm => \A k \in issued : k.no <= lastNo[k.ca]

\* The number of a row is that of a CRL of the CA, or of the CA before its
\* renewal, that has the serial, and every CRL of the CA since has it too: a
\* revocation is never missing from a later CRL.
OnEveryCrlSince ==
  calm => \A a \in CA, s \in Serial : \A i \in DOMAIN rows[a][s] :
    LET n == rows[a][s][i]
    IN  n \notin {Null, 0} =>
          /\ \E k \in issued : k.ca <= a /\ k.no = n /\ s \in k.serials
          /\ \A k \in issued : k.ca = a /\ k.no >= n => s \in k.serials

\* A serial leaves a list only by unrevoking it or by the Manage revocations
\* dialog, whatever copy is written back: sqlUpdate() deletes all the rows.
RevocationStays(s) ==
  \A a \in CA : s \in On(rows[a]) \ On(rows'[a]) =>
    \E c \in Client : Used(c).id = a /\ s \in held[c].removed /\ held'[c] # held[c]
RevocationsStay == [][calm' => \A s \in Serial : RevocationStays(s)]_vars

\* The number of a new CRL is greater than that of every CRL of the CA.
NewCrlIsNext(a) ==
  \A k \in issued' \ issued : k.ca = a => \A j \in issued : j.ca = a => j.no < k.no
CrlNumbersGrow == [][calm' => \A a \in CA : NewCrlIsNext(a)]_vars

\* doc/rst/revocationlist.rst:28: the CRL number "will be tracked by XCA and
\* updated on every use" as RFC 5280 section 5.2.3 has it, increasing for the
\* issuer, that is for the name and key.  Copying a CA for its renewal does
\* not copy the number.
CrlNumberTracked ==
  [][\A k \in issued' \ issued : \A j \in issued : j.no < k.no]_vars
=============================================================================

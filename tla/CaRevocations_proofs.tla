------------------------ MODULE CaRevocations_proofs ------------------------
(***************************************************************************)
(* Proofs about CaRevocations for any number of clients, serials, CAs, CRL *)
(* numbers and copies.                                                     *)
(***************************************************************************)
EXTENDS CaRevocations, TLAPS, FiniteSetTheorems, SequenceTheorems

\* The smallest values of the bounds.
LEMMA SmallFacts ==
  0 \in Number /\ 1 \in CA /\ Null \notin Number /\ Number \subseteq Nat /\ CA \subseteq Nat
  BY BoundsAssumption, NullAssumption DEF Number, CA

------------------------------------------------------------------------------
(* The operators on lists.                                                 *)

\* A function on 1..n is a sequence of length n.
LEMMA EntriesAreSeq ==
  ASSUME NEW T, NEW n \in Nat, NEW f \in [1..n -> T]
  PROVE  f \in Seq(T) /\ Len(f) = n /\ DOMAIN f = 1..n /\ (f = <<>> <=> n = 0)
<1>1. f \in Seq(T)
  OBVIOUS
<1>2. Len(f) = n /\ DOMAIN f = 1..n
  BY <1>1
<1>3. f = <<>> <=> n = 0
  BY <1>1, <1>2
<1> QED
  BY <1>1, <1>2, <1>3

\* Appending 0 only adds an entry without a number.
LEMMA AppendFacts ==
  ASSUME NEW T, NEW e \in Seq(T), 0 \in T
  PROVE  /\ Append(e, 0) \in Seq(T) /\ Append(e, 0) # <<>>
         /\ Len(Append(e, 0)) = Len(e) + 1 /\ Len(e) \in Nat
         /\ \A i \in DOMAIN Append(e, 0) :
              Append(e, 0)[i] # 0 => i \in DOMAIN e /\ Append(e, 0)[i] = e[i]
<1>1. /\ Append(e, 0) \in Seq(T) /\ Len(Append(e, 0)) = Len(e) + 1 /\ Len(e) \in Nat
      /\ DOMAIN e = 1..Len(e)
  OBVIOUS
<1>2. DOMAIN Append(e, 0) = 1..Len(e) + 1 /\ Append(e, 0) # <<>>
  BY <1>1
<1>3. \A i \in 1..Len(e) : Append(e, 0)[i] = e[i]
  OBVIOUS
<1>4. Append(e, 0)[Len(e) + 1] = 0
  OBVIOUS
<1>5. \A i \in 1..Len(e) + 1 : i \in 1..Len(e) \/ i = Len(e) + 1
  BY <1>1
<1> QED
  BY <1>1, <1>2, <1>3, <1>4, <1>5

\* Reading a list keeps its shape and replaces NULL by 0.
LEMMA FromSqlFacts ==
  ASSUME NEW list \in Lists(Number \cup {Null})
  PROVE  /\ FromSql(list) \in Lists(Number)
         /\ On(FromSql(list)) = On(list)
         /\ \A s \in Serial :
              /\ Len(FromSql(list)[s]) = Len(list[s])
              /\ DOMAIN FromSql(list)[s] = DOMAIN list[s]
              /\ \A i \in DOMAIN list[s] : FromSql(list)[s][i] \in {list[s][i], 0}
<1> DEFINE Read(s) == [i \in DOMAIN list[s] |-> IF list[s][i] = Null THEN 0 ELSE list[s][i]]
<1>1. FromSql(list) = [s \in Serial |-> Read(s)]
  BY DEF FromSql
<1>2. ASSUME NEW s \in Serial
      PROVE  /\ Read(s) \in Seq(Number) /\ Len(Read(s)) = Len(list[s])
             /\ DOMAIN Read(s) = DOMAIN list[s] /\ (Read(s) = <<>> <=> list[s] = <<>>)
             /\ \A i \in DOMAIN list[s] : Read(s)[i] \in {list[s][i], 0}
  <2>1. list[s] \in Seq(Number \cup {Null})
    BY DEF Lists
  <2>2. \A i \in DOMAIN list[s] : list[s][i] \in Number \cup {Null}
    BY <2>1
  <2>3. \A i \in DOMAIN list[s] : Read(s)[i] \in Number /\ Read(s)[i] \in {list[s][i], 0}
    BY <2>2, SmallFacts
  <2>4. Len(list[s]) \in Nat /\ DOMAIN list[s] = 1..Len(list[s]) /\ (list[s] = <<>> <=> Len(list[s]) = 0)
    BY <2>1
  <2>5. Read(s) \in [1..Len(list[s]) -> Number]
    BY <2>3, <2>4
  <2> HIDE DEF Read
  <2>6. /\ Read(s) \in Seq(Number) /\ Len(Read(s)) = Len(list[s])
        /\ DOMAIN Read(s) = 1..Len(list[s]) /\ (Read(s) = <<>> <=> Len(list[s]) = 0)
    BY <2>4, <2>5, EntriesAreSeq
  <2> QED
    BY <2>3, <2>4, <2>6
<1> HIDE DEF Read
<1> QED
  BY <1>1, <1>2 DEF Lists, On

\* Recovering a number finds it in the entry or in an old one of the serial.
LEMMA RecoveredFacts ==
  ASSUME NEW entries \in Seq(Number), NEW oldEntries \in Seq(Number), NEW i \in DOMAIN entries
  PROVE  \/ Recovered(entries, oldEntries, i) = 0
         \/ Recovered(entries, oldEntries, i) = entries[i]
         \/ \E k \in DOMAIN oldEntries : Recovered(entries, oldEntries, i) = oldEntries[k]
<1> DEFINE k == Unnumbered(entries, i)
           J == {j \in 1..i : j <= Len(entries) /\ entries[j] = 0}
<1>1. CASE entries[i] # 0
  BY <1>1 DEF Recovered
<1>2. CASE entries[i] = 0 /\ ~(k <= Len(oldEntries))
  BY <1>2 DEF Recovered
<1>3. CASE entries[i] = 0 /\ k <= Len(oldEntries)
  <2>1. i \in 1..Len(entries) /\ i \in J
    BY <1>3
  <2>2. IsFiniteSet(J) /\ Cardinality(J) \in Nat
    <3>1. IsFiniteSet(1..i)
      BY <2>1, FS_Interval
    <3> QED
      BY <3>1, FS_Subset, FS_CardinalityType
  <2>3. k = Cardinality(J) /\ k \in Nat /\ k # 0
    <3>1. Cardinality(J) # 0
      BY <2>1, <2>2, FS_EmptySet
    <3> QED
      BY <2>2, <3>1 DEF Unnumbered
  <2>4. k \in 1..Len(oldEntries) /\ 1..Len(oldEntries) = DOMAIN oldEntries
    <3> HIDE DEF k
    <3> QED
      BY <1>3, <2>3
  <2>5. Recovered(entries, oldEntries, i) = oldEntries[k]
    BY <1>3 DEF Recovered
  <2> QED
    BY <2>4, <2>5
<1> QED
  BY <1>1, <1>2, <1>3

\* The rows written have the shape of the copy, and their numbers come from
\* the copy or from the old rows of the serial.
LEMMA SqlUpdateFacts ==
  ASSUME NEW list \in Lists(Number), NEW was \in Lists(Number \cup {Null})
  PROVE  /\ SqlUpdate(list, was) \in Lists(Number \cup {Null})
         /\ On(SqlUpdate(list, was)) = On(list)
         /\ \A s \in Serial :
              /\ Len(SqlUpdate(list, was)[s]) = Len(list[s])
              /\ DOMAIN SqlUpdate(list, was)[s] = DOMAIN list[s]
              /\ \A i \in DOMAIN list[s] :
                   \/ SqlUpdate(list, was)[s][i] \in {Null, list[s][i]}
                   \/ \E k \in DOMAIN was[s] : SqlUpdate(list, was)[s][i] = was[s][k]
<1> DEFINE o == FromSql(was)
           no(s, i) == Recovered(list[s], o[s], i)
           New(s) == [i \in DOMAIN list[s] |-> IF no(s, i) = 0 THEN Null ELSE no(s, i)]
<1>1. SqlUpdate(list, was) = [s \in Serial |-> New(s)]
  BY DEF SqlUpdate
<1>2. ASSUME NEW s \in Serial
      PROVE  /\ New(s) \in Seq(Number \cup {Null}) /\ Len(New(s)) = Len(list[s])
             /\ DOMAIN New(s) = DOMAIN list[s] /\ (New(s) = <<>> <=> list[s] = <<>>)
             /\ \A i \in DOMAIN list[s] :
                  \/ New(s)[i] \in {Null, list[s][i]}
                  \/ \E k \in DOMAIN was[s] : New(s)[i] = was[s][k]
  <2>1. /\ list[s] \in Seq(Number) /\ o[s] \in Seq(Number) /\ DOMAIN o[s] = DOMAIN was[s]
        /\ \A k \in DOMAIN o[s] : o[s][k] \in {was[s][k], 0}
    BY FromSqlFacts DEF Lists
  <2> HIDE DEF o
  <2>2. ASSUME NEW i \in DOMAIN list[s]
        PROVE  /\ New(s)[i] \in Number \cup {Null}
               /\ \/ New(s)[i] \in {Null, list[s][i]}
                  \/ \E k \in DOMAIN was[s] : New(s)[i] = was[s][k]
    <3>1. \/ no(s, i) = 0
          \/ no(s, i) = list[s][i]
          \/ \E k \in DOMAIN o[s] : no(s, i) = o[s][k]
      BY <2>1, RecoveredFacts
    <3>2. list[s][i] \in Number /\ \A k \in DOMAIN o[s] : o[s][k] \in Number
      <4>1. \A e \in Seq(Number) : \A k \in DOMAIN e : e[k] \in Number
        OBVIOUS
      <4> QED
        BY <2>1, <4>1, Zenon
    <3>3. New(s)[i] = IF no(s, i) = 0 THEN Null ELSE no(s, i)
      OBVIOUS
    <3> HIDE DEF no, New
    <3>4. New(s)[i] \in Number \cup {Null}
      BY <2>1, <3>1, <3>2, <3>3
    <3>5. \/ New(s)[i] \in {Null, list[s][i]}
          \/ \E k \in DOMAIN was[s] : New(s)[i] = was[s][k]
      <4>1. CASE no(s, i) = 0
        BY <3>3, <4>1
      <4>2. CASE no(s, i) = list[s][i] /\ no(s, i) # 0
        BY <3>3, <4>2
      <4>3. ASSUME NEW k \in DOMAIN o[s], no(s, i) = o[s][k], no(s, i) # 0
            PROVE  k \in DOMAIN was[s] /\ New(s)[i] = was[s][k]
        BY <2>1, <3>3, <4>3
      <4> QED
        BY <3>1, <4>1, <4>2, <4>3
    <3> QED
      BY <3>4, <3>5
  <2>3. Len(list[s]) \in Nat /\ DOMAIN list[s] = 1..Len(list[s]) /\ (list[s] = <<>> <=> Len(list[s]) = 0)
    BY <2>1
  <2>4. New(s) = [i \in 1..Len(list[s]) |-> New(s)[i]]
    BY <2>3
  <2> HIDE DEF New
  <2>5. New(s) \in [1..Len(list[s]) -> Number \cup {Null}]
    BY <2>2, <2>3, <2>4
  <2>6. /\ New(s) \in Seq(Number \cup {Null}) /\ Len(New(s)) = Len(list[s])
        /\ DOMAIN New(s) = 1..Len(list[s]) /\ (New(s) = <<>> <=> Len(list[s]) = 0)
    BY <2>3, <2>5, EntriesAreSeq
  <2> QED
    BY <2>2, <2>3, <2>6
<1> HIDE DEF New
<1> QED
  BY <1>1, <1>2 DEF Lists, On

\* Merging adds an entry without number for each serial that was not there.
LEMMA MergeFacts ==
  ASSUME NEW list \in Lists(Number), NEW S \in SUBSET Serial
  PROVE  /\ Merge(list, S) \in Lists(Number)
         /\ On(Merge(list, S)) = On(list) \cup S
         /\ \A s \in Serial :
              \/ Merge(list, S)[s] = list[s]
              \/ Merge(list, S)[s] = <<0>>
<1>1. <<0>> \in Seq(Number) /\ <<0>> # <<>>
  BY SmallFacts
<1>2. \A s \in Serial : list[s] \in Seq(Number)
  BY DEF Lists
<1>3. \A s \in Serial : Merge(list, S)[s] = IF s \in S /\ list[s] = <<>> THEN <<0>> ELSE list[s]
  BY DEF Merge
<1>4. Merge(list, S) \in Lists(Number)
  BY <1>1, <1>2 DEF Lists, Merge
<1>5. On(Merge(list, S)) = On(list) \cup S
  BY <1>1, <1>3 DEF On
<1> QED
  BY <1>3, <1>4, <1>5

\* Taking the first entry leaves entries the list had.
LEMMA TakeFirstFacts ==
  ASSUME NEW list \in Lists(Number), NEW S \in SUBSET Serial
  PROVE  /\ TakeFirst(list, S) \in Lists(Number)
         /\ On(list) \ S \subseteq On(TakeFirst(list, S))
         /\ On(TakeFirst(list, S)) \subseteq On(list)
         /\ \A s \in Serial :
              /\ Len(TakeFirst(list, S)[s]) > 1 => Len(list[s]) > 1
              /\ \A i \in DOMAIN TakeFirst(list, S)[s] :
                   \E k \in DOMAIN list[s] : TakeFirst(list, S)[s][i] = list[s][k]
<1>1. ASSUME NEW s \in Serial, list[s] # <<>>
      PROVE  /\ Tail(list[s]) \in Seq(Number) /\ Len(Tail(list[s])) = Len(list[s]) - 1
             /\ \A i \in DOMAIN Tail(list[s]) :
                  i + 1 \in DOMAIN list[s] /\ Tail(list[s])[i] = list[s][i + 1]
  <2>1. list[s] \in Seq(Number)
    BY DEF Lists
  <2> QED
    <3>1. /\ Tail(list[s]) \in Seq(Number) /\ Len(Tail(list[s])) = Len(list[s]) - 1
          /\ \A i \in 1..Len(Tail(list[s])) : Tail(list[s])[i] = list[s][i + 1]
      BY <1>1, <2>1, HeadTailProperties
    <3>2. Len(list[s]) \in Nat /\ DOMAIN list[s] = 1..Len(list[s])
      BY <2>1
    <3>3. DOMAIN Tail(list[s]) = 1..Len(Tail(list[s]))
      BY <3>1
    <3> QED
      BY <3>1, <3>2, <3>3
<1>2. \A s \in Serial : list[s] \in Seq(Number)
  BY DEF Lists
<1>3. ASSUME NEW s \in Serial
      PROVE  /\ TakeFirst(list, S)[s] \in Seq(Number)
             /\ TakeFirst(list, S)[s] # <<>> => list[s] # <<>>
             /\ s \notin S => TakeFirst(list, S)[s] = list[s]
             /\ Len(TakeFirst(list, S)[s]) > 1 => Len(list[s]) > 1
             /\ \A i \in DOMAIN TakeFirst(list, S)[s] :
                   \E k \in DOMAIN list[s] : TakeFirst(list, S)[s][i] = list[s][k]
  <2>1. CASE s \in S /\ list[s] # <<>>
    <3>1. TakeFirst(list, S)[s] = Tail(list[s])
      BY <2>1 DEF TakeFirst
    <3>2. Len(list[s]) \in Nat
      BY <1>2
    <3>3. Len(Tail(list[s])) > 1 => Len(list[s]) > 1
      BY <1>1, <2>1, <3>2
    <3>4. \A i \in DOMAIN Tail(list[s]) : \E k \in DOMAIN list[s] : Tail(list[s])[i] = list[s][k]
      BY <1>1, <2>1
    <3>5. Tail(list[s]) \in Seq(Number)
      BY <1>1, <2>1
    <3> QED
      BY <2>1, <3>1, <3>3, <3>4, <3>5
  <2>2. CASE ~(s \in S /\ list[s] # <<>>)
    <3>1. TakeFirst(list, S)[s] = list[s]
      BY <2>2 DEF TakeFirst
    <3> QED
      BY <1>2, <3>1
  <2> QED
    BY <2>1, <2>2
<1>4. TakeFirst(list, S) = [s \in Serial |-> TakeFirst(list, S)[s]]
  BY DEF TakeFirst
<1> QED
  BY <1>3, <1>4 DEF Lists, On

------------------------------------------------------------------------------
(* Type correctness.                                                       *)

\* The records without a list or a task have their types.
LEMMA NothingTypes ==
  EmptyList \in Lists(Number) /\ EmptyList \in Lists(Number \cup {Null})
  /\ NoList \in Held /\ NoTask \in Task
  BY SmallFacts DEF EmptyList, Lists, NoList, NoTask, Held, Task

LEMMA UsedType ==
  ASSUME TypeOK, NEW c \in Client
  PROVE  /\ Used(c) \in Object
         /\ Used(c).id \in CA /\ Used(c).number \in Number /\ Used(c).fresh \in BOOLEAN
         /\ ca[c].id \in CA /\ ca[c].number \in Number /\ ca[c].fresh \in BOOLEAN
  BY DEF TypeOK, Used, Object

LEMMA RowsType ==
  ASSUME TypeOK, NEW a \in CA
  PROVE  /\ rows[a] \in Lists(Number \cup {Null})
         /\ FromSql(rows[a]) \in Lists(Number)
  BY FromSqlFacts DEF TypeOK

LEMMA HeldType ==
  ASSUME TypeOK, NEW c \in Client
  PROVE  /\ held[c] \in Held /\ held[c].copy \in Lists(Number)
         /\ held[c].removed \in SUBSET Serial /\ held[c].stale \in BOOLEAN
         /\ task[c] \in Task /\ task[c].no \in Number /\ task[c].serials \in SUBSET Serial
  BY DEF TypeOK, Held, Task

LEMMA OutdateType ==
  ASSUME TypeOK, NEW c \in Client, NEW a \in CA, NEW h \in [Client -> Held],
         NEW t \in [Client -> Task], NEW b \in BOOLEAN, Outdate(c, a, h, t, b)
  PROVE  /\ held' \in [Client -> Held] /\ task' \in [Client -> Task]
         /\ behind' \in [Client -> BOOLEAN]
<1>1. \A d \in Client : [h[d] EXCEPT !.stale = TRUE] \in Held
  BY DEF Held
<1>2. \A d \in Client : [t[d] EXCEPT !.stale = TRUE] \in Task
  BY DEF Task
<1> QED
  BY <1>1, <1>2 DEF TypeOK, Outdate

LEMMA SetRevocationsType ==
  ASSUME TypeOK, NEW c \in Client, NEW next \in Held, NEW t \in [Client -> Task],
         SetRevocations(c, next, t), old' \in [Client -> Object \cup {NoObject}]
  PROVE  TypeOK'
<1>1. marked' \in [Client -> SUBSET Child]
  BY DEF TypeOK, SetRevocations, ShownChildren
<1>2. rows' \in [CA -> Lists(Number \cup {Null})] /\ calm' \in BOOLEAN
  <2>1. SqlUpdate(held[c].copy, rows[Used(c).id]) \in Lists(Number \cup {Null})
    BY UsedType, RowsType, HeldType, SqlUpdateFacts
  <2> QED
    BY <2>1 DEF TypeOK, SetRevocations
<1>3. held' \in [Client -> Held] /\ task' \in [Client -> Task] /\ behind' \in [Client -> BOOLEAN]
  <2>1. [held EXCEPT ![c] = next] \in [Client -> Held]
    BY DEF TypeOK
  <2>2. (IF old[c] = NoObject THEN FALSE ELSE behind[c] \/ ca[c].id = Used(c).id) \in BOOLEAN
    BY DEF TypeOK
  <2>3. CASE Outdate(c, Used(c).id, [held EXCEPT ![c] = next], t,
                     IF old[c] = NoObject THEN FALSE ELSE behind[c] \/ ca[c].id = Used(c).id)
    BY <2>1, <2>2, <2>3, UsedType, OutdateType
  <2>4. CASE /\ held' = [held EXCEPT ![c] = IF @.op = "manage" /\ next # NoList THEN @ ELSE next]
             /\ task' = t
             /\ behind' = [behind EXCEPT ![c] = @ \/ old[c] = NoObject]
    BY <2>4 DEF TypeOK
  <2> QED
    BY <2>3, <2>4 DEF SetRevocations
<1> QED
  BY <1>1, <1>2, <1>3 DEF TypeOK, SetRevocations

LEMMA NewTaskType ==
  ASSUME TypeOK, NEW c \in Client, Used(c).number < MaxNo
  PROVE  NewTask(c) \in Task /\ NewTask(c).phase = "open" /\ NewTask(c).no = Used(c).number + 1
<1>1. Used(c).number + 1 \in Number
  BY UsedType, BoundsAssumption DEF Number
<1> QED
  BY <1>1 DEF NewTask, NoTask, Task

LEMMA SetCrlNumberType ==
  ASSUME NEW object \in Object, NEW n \in Number
  PROVE  /\ SetCrlNumber(object, n) \in Object
         /\ SetCrlNumber(object, n).id = object.id
         /\ SetCrlNumber(object, n).fresh = object.fresh
         /\ SetCrlNumber(object, n).number \in Number
         /\ SetCrlNumber(object, n).number >= object.number
         /\ SetCrlNumber(object, n).number >= n
  BY SmallFacts DEF SetCrlNumber, Object

\* Numbering the rows keeps the lists and only replaces NULL.
LEMMA NumberRowsFacts ==
  ASSUME TypeOK, NEW c \in Client, NumberRows(c)
  PROVE  /\ rows' \in [CA -> Lists(Number \cup {Null})]
         /\ \A a \in CA : On(rows'[a]) = On(rows[a])
         /\ \A a \in CA, s \in Serial :
              /\ Len(rows'[a][s]) = Len(rows[a][s])
              /\ DOMAIN rows'[a][s] = DOMAIN rows[a][s]
              /\ \A i \in DOMAIN rows[a][s] :
                   \/ rows'[a][s][i] = rows[a][s][i] /\ (a = Used(c).id => rows[a][s][i] # Null)
                   \/ a = Used(c).id /\ rows'[a][s][i] = task[c].no
<1> DEFINE a0 == Used(c).id
           e(s) == rows[a0][s]
           f(s) == [i \in DOMAIN e(s) |-> IF e(s)[i] = Null THEN task[c].no ELSE e(s)[i]]
<1>1. a0 \in CA /\ task[c].no \in Number
  BY UsedType, HeldType
<1>2. rows' = [rows EXCEPT ![a0] = [s \in Serial |-> f(s)]]
  BY DEF NumberRows
<1>3. ASSUME NEW s \in Serial
      PROVE  /\ f(s) \in Seq(Number \cup {Null}) /\ Len(f(s)) = Len(e(s))
             /\ DOMAIN f(s) = DOMAIN e(s) /\ (f(s) = <<>> <=> e(s) = <<>>)
             /\ \A i \in DOMAIN e(s) : \/ f(s)[i] = e(s)[i] /\ e(s)[i] # Null
                                       \/ f(s)[i] = task[c].no
  <2>1. e(s) \in Seq(Number \cup {Null})
    BY <1>1 DEF TypeOK, Lists
  <2> HIDE DEF e
  <2>2. \A i \in DOMAIN e(s) : e(s)[i] \in Number \cup {Null}
    BY <2>1
  <2>3. \A i \in DOMAIN e(s) : /\ f(s)[i] \in Number \cup {Null}
                               /\ \/ f(s)[i] = e(s)[i] /\ e(s)[i] # Null
                                  \/ f(s)[i] = task[c].no
    BY <1>1, <2>2
  <2>4. Len(e(s)) \in Nat /\ DOMAIN e(s) = 1..Len(e(s)) /\ (e(s) = <<>> <=> Len(e(s)) = 0)
    BY <2>1
  <2>5. f(s) \in [1..Len(e(s)) -> Number \cup {Null}]
    BY <2>3, <2>4
  <2> HIDE DEF f
  <2>6. /\ f(s) \in Seq(Number \cup {Null}) /\ Len(f(s)) = Len(e(s))
        /\ DOMAIN f(s) = 1..Len(e(s)) /\ (f(s) = <<>> <=> Len(e(s)) = 0)
    BY <2>4, <2>5, EntriesAreSeq
  <2> QED
    BY <2>3, <2>4, <2>6
<1>4. \A a \in CA, s \in Serial : rows'[a][s] = IF a = a0 THEN f(s) ELSE rows[a][s]
  BY <1>1, <1>2 DEF TypeOK
<1> HIDE DEF f
<1>5. [s \in Serial |-> f(s)] \in Lists(Number \cup {Null})
  BY <1>3 DEF Lists
<1>6. rows' \in [CA -> Lists(Number \cup {Null})]
  BY <1>2, <1>5 DEF TypeOK
<1>7. \A a \in CA : On(rows'[a]) = On(rows[a])
  BY <1>3, <1>4 DEF On
<1>8. ASSUME NEW a \in CA, NEW s \in Serial
      PROVE  /\ Len(rows'[a][s]) = Len(rows[a][s])
             /\ DOMAIN rows'[a][s] = DOMAIN rows[a][s]
             /\ \A i \in DOMAIN rows[a][s] :
                  \/ rows'[a][s][i] = rows[a][s][i] /\ (a = a0 => rows[a][s][i] # Null)
                  \/ a = a0 /\ rows'[a][s][i] = task[c].no
  BY <1>3, <1>4
<1> QED
  BY <1>6, <1>7, <1>8

\* What a renewed CA inherits is an entry of a list of an older one.
LEMMA InheritedFacts ==
  ASSUME TypeOK
  PROVE  /\ Inherited \in Lists(Number)
         /\ \A s \in Serial : Len(Inherited[s]) <= 1
         /\ \A s \in Serial : \A i \in DOMAIN Inherited[s] :
              \E a \in 1..newest : /\ a \in CA /\ rows[a][s] # <<>>
                                   /\ Inherited[s][i] \in {rows[a][s][1], 0}
<1>1. ASSUME NEW s \in Serial
      PROVE  \/ Inherited[s] = <<>>
             \/ \E a \in 1..newest : /\ a \in CA /\ rows[a][s] # <<>>
                                     /\ Inherited[s] = <<FromSql(rows[a])[s][1]>>
  <2> DEFINE lists == {a \in 1..newest : rows[a][s] # <<>>}
             first == CHOOSE a \in lists : TRUE
  <2>1. CASE lists = {}
    BY <2>1 DEF Inherited
  <2>2. CASE lists # {}
    <3>1. newest \in Nat /\ 1..newest \subseteq CA
      BY BoundsAssumption DEF TypeOK, CA
    <3>2. first \in lists
      BY <2>2
    <3>3. Inherited[s] = <<FromSql(rows[first])[s][1]>>
      BY <2>2 DEF Inherited
    <3> HIDE DEF first
    <3> QED
      BY <3>1, <3>2, <3>3
  <2> QED
    BY <2>1, <2>2
<1>2. ASSUME NEW s \in Serial, NEW a \in CA, rows[a][s] # <<>>
      PROVE  FromSql(rows[a])[s][1] \in Number /\ FromSql(rows[a])[s][1] \in {rows[a][s][1], 0}
  <2>1. rows[a] \in Lists(Number \cup {Null})
    BY RowsType
  <2>2. rows[a][s] \in Seq(Number \cup {Null}) /\ FromSql(rows[a])[s] \in Seq(Number)
    BY <2>1, FromSqlFacts DEF Lists
  <2>3. 1 \in DOMAIN rows[a][s]
    BY <1>2, <2>2
  <2>4. 1 \in DOMAIN FromSql(rows[a])[s] /\ FromSql(rows[a])[s][1] \in {rows[a][s][1], 0}
    BY <2>1, <2>3, FromSqlFacts
  <2> QED
    BY <2>2, <2>4
<1>3. ASSUME NEW s \in Serial
      PROVE  /\ Inherited[s] \in Seq(Number) /\ Len(Inherited[s]) <= 1
             /\ \A i \in DOMAIN Inherited[s] :
                  \E a \in 1..newest : /\ a \in CA /\ rows[a][s] # <<>>
                                       /\ Inherited[s][i] \in {rows[a][s][1], 0}
  <2>1. CASE Inherited[s] = <<>>
    BY <2>1
  <2>2. ASSUME NEW a \in 1..newest, a \in CA, rows[a][s] # <<>>,
               Inherited[s] = <<FromSql(rows[a])[s][1]>>
        PROVE  /\ Inherited[s] \in Seq(Number) /\ Len(Inherited[s]) <= 1
               /\ \A i \in DOMAIN Inherited[s] : Inherited[s][i] \in {rows[a][s][1], 0}
    <3>1. FromSql(rows[a])[s][1] \in Number /\ FromSql(rows[a])[s][1] \in {rows[a][s][1], 0}
      BY <1>2, <2>2
    <3> QED
      BY <2>2, <3>1
  <2> QED
    BY <1>1, <2>1, <2>2
<1> QED
  BY <1>3 DEF Inherited, Lists

\* The actions of Next that are not mere copies of it.
NextBy(c) ==
  \/ \E S \in SUBSET Child : Revoke(c, S) \/ UnRevoke(c, S)
  \/ RevokeWrites(c) \/ UnRevokeWrites(c)
  \/ OpenManage(c) \/ ManageOk(c) \/ ManageCancel(c) \/ GenerateFromManage(c)
  \/ \E s \in Serial : AddRev(c, s) \/ DelRev(c, s) \/ EditRev(c, s)
  \/ OpenCrl(c) \/ CommitCrl(c) \/ DropCrl(c)
  \/ \E n \in 0..MaxNo : SignCrl(c, n)
  \/ \E S \in SUBSET Serial : ImportCrl(c, S)
  \/ Renew(c) \/ Reload(c) \/ Restart(c)

LEMMA TypeInit == Init => TypeOK
  BY NothingTypes, SmallFacts, BoundsAssumption
     DEF Init, TypeOK, Object, Number, CA

LEMMA EditType ==
  ASSUME TypeOK, NEW c \in Client, NEW s \in Serial, AddRev(c, s) \/ DelRev(c, s) \/ EditRev(c, s)
  PROVE  /\ held'[c] \in Held /\ held' = [held EXCEPT ![c] = held'[c]]
         /\ Used(c)' = Used(c)
         /\ UNCHANGED <<db, ca, old, marked, task, behind, calm>>
         /\ typed \subseteq typed' /\ typed' \subseteq Serial
         /\ held'[c].op = held[c].op /\ held'[c].stale = held[c].stale
         /\ held[c].removed \subseteq held'[c].removed
         /\ On(held[c].copy) \ On(held'[c].copy) \subseteq held'[c].removed
         /\ \A r \in Serial :
              /\ Len(held'[c].copy[r]) > 1 => Len(held[c].copy[r]) > 1 \/ r \in typed'
              /\ \A i \in DOMAIN held'[c].copy[r] :
                   held'[c].copy[r][i] # 0 =>
                     \E k \in DOMAIN held[c].copy[r] : held'[c].copy[r][i] = held[c].copy[r][k]
<1> DEFINE copy == held[c].copy
<1>0. /\ held[c] \in Held /\ copy \in Lists(Number) /\ \A r \in Serial : copy[r] \in Seq(Number)
      /\ held \in [Client -> Held] /\ typed \subseteq Serial
  BY HeldType DEF TypeOK, Lists
<1>1. CASE AddRev(c, s)
  <2> DEFINE new == [copy EXCEPT ![s] = Append(@, 0)]
  <2>1. held' = [held EXCEPT ![c] = [held[c] EXCEPT !.copy = new]]
    BY <1>0, <1>1 DEF AddRev, Held
  <2>2. /\ Append(copy[s], 0) \in Seq(Number) /\ Append(copy[s], 0) # <<>>
        /\ Len(Append(copy[s], 0)) = Len(copy[s]) + 1 /\ Len(copy[s]) \in Nat
        /\ \A i \in DOMAIN Append(copy[s], 0) :
             Append(copy[s], 0)[i] # 0 => i \in DOMAIN copy[s] /\ Append(copy[s], 0)[i] = copy[s][i]
    <3> HIDE DEF copy
    <3>1. copy[s] \in Seq(Number) /\ 0 \in Number
      BY <1>0, SmallFacts
    <3> QED
      BY <3>1, AppendFacts
  <2> HIDE DEF copy
  <2>3. new \in Lists(Number) /\ \A r \in Serial : new[r] = IF r = s THEN Append(copy[s], 0) ELSE copy[r]
    BY <1>0, <2>2 DEF Lists
  <2>4. Len(copy[s]) + 1 > 1 => copy[s] # <<>>
    BY <1>0
  <2> HIDE DEF new
  <2>5. held'[c] = [held[c] EXCEPT !.copy = new] /\ held'[c] \in Held
    BY <1>0, <2>1, <2>3 DEF Held
  <2>6. held'[c].copy = new /\ held'[c].op = held[c].op /\ held'[c].stale = held[c].stale
        /\ held'[c].removed = held[c].removed
    BY <1>0, <2>5 DEF Held
  <2>7. On(copy) \subseteq On(new)
    BY <2>2, <2>3 DEF On
  <2>8. \A r \in Serial :
              /\ Len(new[r]) > 1 => Len(copy[r]) > 1 \/ r \in typed'
              /\ \A i \in DOMAIN new[r] :
                   new[r][i] # 0 => \E k \in DOMAIN copy[r] : new[r][i] = copy[r][k]
    BY <2>2, <2>3, <2>4, <1>1 DEF AddRev, copy
  <2>9. typed \subseteq typed' /\ typed' \subseteq Serial
    BY <1>0, <1>1 DEF AddRev
  <2>10. Used(c)' = Used(c) /\ UNCHANGED <<db, ca, old, marked, task, behind, calm>>
    BY <1>1 DEF AddRev, Used
  <2>11. held' = [held EXCEPT ![c] = held'[c]]
    BY <1>0, <2>1, <2>5
  <2> QED
    BY <2>5, <2>6, <2>7, <2>8, <2>9, <2>10, <2>11 DEF copy
<1>2. CASE DelRev(c, s)
  <2> DEFINE new == TakeFirst(copy, {s})
  <2>1. held' = [held EXCEPT ![c] = [held[c] EXCEPT !.copy = new, !.removed = @ \cup {s}]]
    BY <1>0, <1>2 DEF DelRev, Held
  <2>2. /\ new \in Lists(Number) /\ On(copy) \ {s} \subseteq On(new)
        /\ \A r \in Serial :
              /\ Len(new[r]) > 1 => Len(copy[r]) > 1
              /\ \A i \in DOMAIN new[r] : \E k \in DOMAIN copy[r] : new[r][i] = copy[r][k]
    <3>1. {s} \in SUBSET Serial
      OBVIOUS
    <3> HIDE DEF copy
    <3> QED
      BY <1>0, <3>1, TakeFirstFacts
  <2> HIDE DEF new, copy
  <2>3. /\ held'[c] \in Held /\ held'[c].copy = new /\ held'[c].op = held[c].op
        /\ held'[c].stale = held[c].stale /\ held'[c].removed = held[c].removed \cup {s}
        /\ held' = [held EXCEPT ![c] = held'[c]]
    BY <1>0, <2>1, <2>2 DEF Held
  <2>4. Used(c)' = Used(c) /\ UNCHANGED <<db, ca, old, marked, task, behind, calm, typed>>
    BY <1>2 DEF DelRev, Used, history
  <2>5. On(copy) \ On(new) \subseteq held'[c].removed
    BY <2>2, <2>3
  <2> QED
    BY <1>0, <2>2, <2>3, <2>4, <2>5 DEF copy
<1>3. CASE EditRev(c, s)
  <2> DEFINE edited == [copy[s] EXCEPT ![1] = 0]
             new == [copy EXCEPT ![s] = edited]
  <2>1. held' = [held EXCEPT ![c] = [held[c] EXCEPT !.copy = new]]
    BY <1>0, <1>3 DEF EditRev, Held
  <2>2. /\ edited \in Seq(Number) /\ (edited = <<>> <=> copy[s] = <<>>) /\ Len(edited) = Len(copy[s])
        /\ DOMAIN edited = DOMAIN copy[s]
        /\ \A i \in DOMAIN copy[s] : edited[i] \in {copy[s][i], 0}
    <3>1. copy[s] \in Seq(Number) /\ 0 \in Number
      BY <1>0, SmallFacts
    <3> HIDE DEF copy
    <3>2. copy[s] \in [1..Len(copy[s]) -> Number] /\ Len(copy[s]) \in Nat
          /\ (copy[s] = <<>> <=> Len(copy[s]) = 0)
      BY <3>1
    <3>3. edited \in [1..Len(copy[s]) -> Number]
      BY <3>1, <3>2
    <3>5. \A i \in DOMAIN copy[s] : edited[i] \in {copy[s][i], 0}
      BY <3>2
    <3> HIDE DEF edited
    <3>4. edited \in Seq(Number) /\ Len(edited) = Len(copy[s]) /\ DOMAIN edited = 1..Len(copy[s])
          /\ (edited = <<>> <=> Len(copy[s]) = 0)
      BY <3>2, <3>3, EntriesAreSeq
    <3> QED
      BY <3>2, <3>4, <3>5
  <2> HIDE DEF edited, copy
  <2>3. new \in Lists(Number) /\ \A r \in Serial : new[r] = IF r = s THEN edited ELSE copy[r]
    BY <1>0, <2>2 DEF Lists
  <2> HIDE DEF new
  <2>4. /\ held'[c] \in Held /\ held'[c].copy = new /\ held'[c].op = held[c].op
        /\ held'[c].stale = held[c].stale /\ held'[c].removed = held[c].removed
        /\ held' = [held EXCEPT ![c] = held'[c]]
    BY <1>0, <2>1, <2>3 DEF Held
  <2>5. On(new) = On(copy)
    BY <2>2, <2>3 DEF On
  <2>6. \A r \in Serial :
              /\ Len(new[r]) > 1 => Len(copy[r]) > 1
              /\ \A i \in DOMAIN new[r] :
                   new[r][i] # 0 => \E k \in DOMAIN copy[r] : new[r][i] = copy[r][k]
    BY <2>2, <2>3
  <2>7. Used(c)' = Used(c) /\ UNCHANGED <<db, ca, old, marked, task, behind, calm, typed>>
    BY <1>3 DEF EditRev, Used, history
  <2> QED
    BY <1>0, <2>4, <2>5, <2>6, <2>7 DEF copy
<1> QED
  BY <1>1, <1>2, <1>3

LEMMA LoadType ==
  ASSUME TypeOK, NEW c \in Client, Load(c)
  PROVE  /\ ca' \in [Client -> Object] /\ marked' \in [Client -> SUBSET Child]
         /\ behind' \in [Client -> BOOLEAN]
  BY DEF TypeOK, Load, Object, ShownChildren

LEMMA TypeNext == TypeOK /\ [Next]_vars => TypeOK'
<1> SUFFICES ASSUME TypeOK, [Next]_vars PROVE TypeOK'
  OBVIOUS
<1> USE DEF db, history
<1>1. ASSUME NEW c \in Client, NEW S \in SUBSET Child, Revoke(c, S)
      PROVE  TypeOK'
  <2>1. /\ FromSql(rows[ca[c].id]) \in Lists(Number) /\ S \in SUBSET Serial
    BY UsedType, RowsType, ChildAssumption
  <2>2. Merge(FromSql(rows[ca[c].id]), S) \in Lists(Number)
    BY <2>1, MergeFacts
  <2>3. [NoList EXCEPT !.op = "revoke", !.copy = Merge(FromSql(rows[ca[c].id]), S)] \in Held
    BY <2>2, NothingTypes DEF Held
  <2> QED
    BY <1>1, <2>3 DEF TypeOK, Revoke
<1>2. ASSUME NEW c \in Client, NEW S \in SUBSET Child, UnRevoke(c, S)
      PROVE  TypeOK'
  <2>1. /\ FromSql(rows[ca[c].id]) \in Lists(Number) /\ S \in SUBSET Serial
    BY UsedType, RowsType, ChildAssumption
  <2>2. TakeFirst(FromSql(rows[ca[c].id]), S) \in Lists(Number)
    BY <2>1, TakeFirstFacts
  <2>3. [NoList EXCEPT !.op = "unrevoke", !.removed = S,
                       !.copy = TakeFirst(FromSql(rows[ca[c].id]), S)] \in Held
    BY <2>1, <2>2, NothingTypes DEF Held
  <2> QED
    BY <1>2, <2>3 DEF TypeOK, UnRevoke
<1>3. ASSUME NEW c \in Client, RevokeWrites(c)
      PROVE  TypeOK'
  <2>1. SqlUpdate(held[c].copy, rows[ca[c].id]) \in Lists(Number \cup {Null})
    BY UsedType, RowsType, HeldType, SqlUpdateFacts
  <2>2. rows' \in [CA -> Lists(Number \cup {Null})] /\ calm' \in BOOLEAN
    BY <1>3, <2>1 DEF TypeOK, RevokeWrites
  <2>3. [held EXCEPT ![c] = NoList] \in [Client -> Held] /\ behind[c] \in BOOLEAN
        /\ task \in [Client -> Task] /\ ca[c].id \in CA
    BY NothingTypes, UsedType DEF TypeOK
  <2>4. held' \in [Client -> Held] /\ task' \in [Client -> Task] /\ behind' \in [Client -> BOOLEAN]
    <3>1. CASE Outdate(c, ca[c].id, [held EXCEPT ![c] = NoList], task, behind[c])
      <4> DEFINE h == [held EXCEPT ![c] = NoList]
      <4> HIDE DEF h
      <4>1. h \in [Client -> Held] /\ Outdate(c, ca[c].id, h, task, behind[c])
        BY <2>3, <3>1 DEF h
      <4> QED
        BY <2>3, <4>1, OutdateType
    <3>2. CASE /\ held' = [held EXCEPT ![c] = NoList]
               /\ behind' = [behind EXCEPT ![c] = TRUE] /\ task' = task
      BY <2>3, <3>2 DEF TypeOK
    <3> QED
      BY <1>3, <3>1, <3>2 DEF RevokeWrites
  <2> QED
    BY <1>3, <2>2, <2>4 DEF TypeOK, RevokeWrites
<1>4. ASSUME NEW c \in Client, UnRevokeWrites(c) \/ ManageOk(c)
      PROVE  TypeOK'
  <2>1. SetRevocations(c, NoList, task) /\ old' \in [Client -> Object \cup {NoObject}]
    BY <1>4 DEF TypeOK, UnRevokeWrites, ManageOk
  <2>2. task \in [Client -> Task]
    BY DEF TypeOK
  <2> QED
    BY <2>1, <2>2, NothingTypes, SetRevocationsType
<1>5. ASSUME NEW c \in Client, GenerateFromManage(c)
      PROVE  TypeOK'
  <2>1. [held[c] EXCEPT !.removed = {}, !.stale = FALSE] \in Held
    BY HeldType DEF Held
  <2>2. [task EXCEPT ![c] = NewTask(c)] \in [Client -> Task]
    BY <1>5, NewTaskType DEF TypeOK, GenerateFromManage
  <2>3. old' \in [Client -> Object \cup {NoObject}]
    BY <1>5 DEF TypeOK, GenerateFromManage
  <2> QED
    BY <1>5, <2>1, <2>2, <2>3, SetRevocationsType DEF GenerateFromManage
<1>6. ASSUME NEW c \in Client, OpenManage(c) \/ ManageCancel(c)
      PROVE  TypeOK'
  <2>1. FromSql(rows[ca[c].id]) \in Lists(Number)
    BY UsedType, RowsType
  <2>2. [NoList EXCEPT !.op = "manage", !.copy = FromSql(rows[ca[c].id])] \in Held
    BY <2>1, NothingTypes DEF Held
  <2> QED
    BY <1>6, <2>2, NothingTypes DEF TypeOK, OpenManage, ManageCancel
<1>7. ASSUME NEW c \in Client, NEW s \in Serial, AddRev(c, s) \/ DelRev(c, s) \/ EditRev(c, s)
      PROVE  TypeOK'
  <2>1. /\ held'[c] \in Held /\ held' = [held EXCEPT ![c] = held'[c]]
        /\ UNCHANGED <<db, ca, old, marked, task, behind, calm>> /\ typed' \subseteq Serial
    BY <1>7, EditType
  <2>2. held' \in [Client -> Held]
    BY <2>1 DEF TypeOK
  <2> QED
    BY <2>1, <2>2 DEF TypeOK
<1>8. ASSUME NEW c \in Client, OpenCrl(c)
      PROVE  TypeOK'
  BY <1>8, NewTaskType DEF TypeOK, OpenCrl
<1>9. ASSUME NEW c \in Client, NEW n \in 0..MaxNo, SignCrl(c, n)
      PROVE  TypeOK'
  <2>1. n \in Number /\ On(rows[Used(c).id]) \in SUBSET Serial
    BY DEF Number, On
  <2>2. task' \in [Client -> Task]
    BY <1>9, <2>1 DEF TypeOK, SignCrl, Task
  <2>3. old[c] = NoObject => SetCrlNumber(ca[c], n) \in Object
    BY <2>1, SetCrlNumberType DEF TypeOK
  <2>4. old[c] # NoObject => SetCrlNumber(old[c], n) \in Object
    BY <2>1, SetCrlNumberType DEF TypeOK
  <2>5. ca' \in [Client -> Object] /\ old' \in [Client -> Object \cup {NoObject}]
    BY <1>9, <2>3, <2>4 DEF TypeOK, SignCrl
  <2> QED
    BY <1>9, <2>2, <2>5 DEF TypeOK, SignCrl
<1>10. ASSUME NEW c \in Client, CommitCrl(c)
       PROVE  TypeOK'
  <2>1. rows' \in [CA -> Lists(Number \cup {Null})]
    BY <1>10, NumberRowsFacts DEF CommitCrl
  <2>2. lastNo' \in [CA -> Number]
    BY <1>10, UsedType DEF TypeOK, CommitCrl, SetAuthority
  <2>3. issued' \subseteq [ca : CA, no : Number, serials : SUBSET Serial]
    <3>1. [ca |-> Used(c).id, no |-> task[c].no, serials |-> task[c].serials]
            \in [ca : CA, no : Number, serials : SUBSET Serial]
      BY UsedType, HeldType
    <3> QED
      BY <1>10, <3>1 DEF TypeOK, CommitCrl
  <2>4. \A o \in Object : [o EXCEPT !.fresh = FALSE] \in Object
    BY DEF Object
  <2>5. ca' \in [Client -> Object]
    BY <1>10, <2>4 DEF TypeOK, CommitCrl
  <2>6. old' \in [Client -> Object \cup {NoObject}]
    <3>1. \A d \in Client : old[d] \in Object \/ old[d].id \notin CA
      BY SmallFacts DEF TypeOK, NoObject, CA
    <3>2. Used(c).id \in CA
      BY UsedType
    <3> QED
      BY <1>10, <2>4, <3>1, <3>2 DEF TypeOK, CommitCrl
  <2>7. task' \in [Client -> Task] /\ calm' \in BOOLEAN
    BY <1>10, NothingTypes, UsedType, HeldType DEF TypeOK, CommitCrl
  <2> QED
    BY <1>10, <2>1, <2>2, <2>3, <2>5, <2>6, <2>7 DEF TypeOK, CommitCrl
<1>11. ASSUME NEW c \in Client, DropCrl(c)
       PROVE  TypeOK'
  BY <1>11, NothingTypes DEF TypeOK, DropCrl, EndTask
<1>12. ASSUME NEW c \in Client, NEW S \in SUBSET Serial, ImportCrl(c, S)
       PROVE  TypeOK'
  <2>1. FromSql(rows[ca[c].id]) \in Lists(Number) /\ rows[ca[c].id] \in Lists(Number \cup {Null})
        /\ ca[c].id \in CA
    BY UsedType, RowsType
  <2>2. Merge(FromSql(rows[ca[c].id]), S) \in Lists(Number)
    BY <2>1, MergeFacts
  <2>3. SqlUpdate(Merge(FromSql(rows[ca[c].id]), S), rows[ca[c].id]) \in Lists(Number \cup {Null})
    BY <2>1, <2>2, SqlUpdateFacts
  <2>4. marked' \in [Client -> SUBSET Child]
    BY <1>12 DEF TypeOK, ImportCrl
  <2>5. rows' \in [CA -> Lists(Number \cup {Null})]
    BY <1>12, <2>3 DEF TypeOK, ImportCrl
  <2>6. held' \in [Client -> Held] /\ task' \in [Client -> Task] /\ behind' \in [Client -> BOOLEAN]
    <3>1. held \in [Client -> Held] /\ task \in [Client -> Task] /\ behind[c] \in BOOLEAN
      BY DEF TypeOK
    <3>2. CASE Outdate(c, ca[c].id, held, task, behind[c])
      BY <2>1, <3>1, <3>2, OutdateType
    <3>3. CASE UNCHANGED <<held, task, behind>>
      BY <3>3 DEF TypeOK
    <3> QED
      BY <1>12, <3>2, <3>3 DEF ImportCrl
  <2> QED
    BY <1>12, <2>4, <2>5, <2>6 DEF TypeOK, ImportCrl
<1>13. ASSUME NEW c \in Client, Renew(c)
       PROVE  TypeOK'
  <2>1. newest + 1 \in CA /\ newest' \in CA
    BY <1>13, BoundsAssumption DEF TypeOK, Renew, CA
  <2>2. SqlUpdate(Inherited, rows[newest + 1]) \in Lists(Number \cup {Null})
    BY <2>1, InheritedFacts, RowsType, SqlUpdateFacts
  <2>3. rows' \in [CA -> Lists(Number \cup {Null})] /\ lastNo' \in [CA -> Number]
    BY <1>13, <2>1, <2>2, SmallFacts DEF TypeOK, Renew
  <2>4. ca' \in [Client -> Object] /\ marked' \in [Client -> SUBSET Child]
    BY <1>13, <2>1, SmallFacts DEF TypeOK, Renew, Object, ShownChildren
  <2> QED
    BY <1>13, <2>1, <2>3, <2>4 DEF TypeOK, Renew
<1>14. ASSUME NEW c \in Client, Reload(c) \/ Restart(c)
       PROVE  TypeOK'
  <2>1. /\ ca' \in [Client -> Object] /\ marked' \in [Client -> SUBSET Child]
        /\ behind' \in [Client -> BOOLEAN]
    BY <1>14, LoadType DEF Reload, Restart
  <2>2. old' \in [Client -> Object \cup {NoObject}] /\ held' \in [Client -> Held]
        /\ task' \in [Client -> Task]
    BY <1>14, UsedType, NothingTypes DEF TypeOK, Reload, Restart
  <2> QED
    BY <1>14, <2>1, <2>2 DEF TypeOK, Reload, Restart
<1>15. CASE UNCHANGED vars
  BY <1>15 DEF TypeOK, vars, memory
<1>16. CASE Next
  <2> HIDE DEF db, history
  <2>1. PICK c \in Client : NextBy(c)
    BY <1>16 DEF Next, NextBy
  <2> QED
    BY <2>1, <1>1, <1>2, <1>3, <1>4, <1>5, <1>6, <1>7, <1>8, <1>9, <1>10, <1>11, <1>12,
       <1>13, <1>14 DEF NextBy
<1> QED
  BY <1>15, <1>16

\* The variables have their types in every behaviour of every instance.
THEOREM Types == Spec => []TypeOK
  BY TypeInit, TypeNext, PTL DEF Spec

------------------------------------------------------------------------------
(* CRL numbers.  A fresh object knows a number no CRL of its CA exceeds,   *)
(* and so does the database; nobody commits with an object that is not     *)
(* fresh while calm holds.                                                 *)

Stored ==
  /\ \A c \in Client : ca[c].id <= newest /\ Used(c).id <= newest
  /\ \A k \in issued : k.ca <= newest

KnowsLast(o) == o.fresh => lastNo[o.id] <= o.number

ObjectsKnowLast == \A c \in Client : KnowsLast(ca[c]) /\ KnowsLast(Used(c))

TasksAreNext == \A c \in Client :
  /\ task[c].phase = "open" => task[c].no = Used(c).number + 1
  /\ task[c].phase = "signed" /\ task[c].no # 0 =>
       /\ task[c].no <= Used(c).number
       /\ Used(c).fresh => lastNo[Used(c).id] < task[c].no

Numbers == Stored /\ (calm => ObjectsKnowLast /\ TasksAreNext) /\ LastNumber

LEMMA NumbersInit == Init => Numbers
<1> SUFFICES ASSUME Init PROVE Numbers
  OBVIOUS
<1>1. \A c \in Client : /\ Used(c) = ca[c] /\ ca[c].id = 1 /\ ca[c].number = 0
                         /\ task[c].phase = "none"
  BY DEF Init, Used, NoTask
<1>2. lastNo[1] = 0 /\ newest = 1 /\ issued = {}
  BY SmallFacts DEF Init
<1> QED
  BY <1>1, <1>2 DEF Numbers, Stored, KnowsLast, ObjectsKnowLast, TasksAreNext, LastNumber

LEMMA OutdateKeeps ==
  ASSUME NEW c, NEW a, NEW h \in [Client -> Held], NEW t \in [Client -> Task], NEW b,
         Outdate(c, a, h, t, b)
  PROVE  \A d \in Client :
           /\ task'[d].phase = t[d].phase /\ task'[d].no = t[d].no
           /\ task'[d].serials = t[d].serials
           /\ task'[d].stale = (t[d].stale \/ (d # c /\ t[d].phase = "signed" /\ Used(d).id = a))
           /\ held'[d].op = h[d].op /\ held'[d].copy = h[d].copy
           /\ held'[d].removed = h[d].removed
           /\ held'[d].stale = (h[d].stale \/ (d # c /\ h[d].op # "none" /\ Used(d).id = a))
           /\ behind'[d] = IF d = c THEN b ELSE behind[d] \/ ca[d].id = a
<1> SUFFICES ASSUME NEW d \in Client
             PROVE  /\ task'[d].phase = t[d].phase /\ task'[d].no = t[d].no
                    /\ task'[d].serials = t[d].serials
                    /\ task'[d].stale = (t[d].stale \/ (d # c /\ t[d].phase = "signed" /\ Used(d).id = a))
                    /\ held'[d].op = h[d].op /\ held'[d].copy = h[d].copy
                    /\ held'[d].removed = h[d].removed
                    /\ held'[d].stale = (h[d].stale \/ (d # c /\ h[d].op # "none" /\ Used(d).id = a))
                    /\ behind'[d] = IF d = c THEN b ELSE behind[d] \/ ca[d].id = a
  OBVIOUS
<1>1. t[d] \in Task /\ h[d] \in Held
  OBVIOUS
<1>2. task'[d] = IF d # c /\ t[d].phase = "signed" /\ Used(d).id = a
                 THEN [t[d] EXCEPT !.stale = TRUE] ELSE t[d]
  BY DEF Outdate
<1>3. held'[d] = IF d # c /\ h[d].op # "none" /\ Used(d).id = a
                 THEN [h[d] EXCEPT !.stale = TRUE] ELSE h[d]
  BY DEF Outdate
<1>4. behind'[d] = IF d = c THEN b ELSE behind[d] \/ ca[d].id = a
  BY DEF Outdate
<1>5. /\ task'[d].phase = t[d].phase /\ task'[d].no = t[d].no /\ task'[d].serials = t[d].serials
      /\ task'[d].stale = (t[d].stale \/ (d # c /\ t[d].phase = "signed" /\ Used(d).id = a))
  BY <1>1, <1>2 DEF Task
<1>6. /\ held'[d].op = h[d].op /\ held'[d].copy = h[d].copy /\ held'[d].removed = h[d].removed
      /\ held'[d].stale = (h[d].stale \/ (d # c /\ h[d].op # "none" /\ Used(d).id = a))
  BY <1>1, <1>3 DEF Held
<1> QED
  BY <1>4, <1>5, <1>6

\* What writing a list does to the handlers and tasks of each client.
LEMMA SetRevocationsKeeps ==
  ASSUME TypeOK, NEW c \in Client, NEW next \in Held, NEW t \in [Client -> Task],
         SetRevocations(c, next, t)
  PROVE  /\ UNCHANGED <<newest, lastNo, issued, ca, typed>> /\ (calm' => calm)
         /\ \A d \in Client : task'[d].phase = t[d].phase /\ task'[d].no = t[d].no
         /\ \A d \in Client \ {c} : held'[d].op = held[d].op
         /\ held'[c].op = next.op \/ (held[c].op = "manage" /\ held'[c].op = "manage")
<1> DEFINE h == [held EXCEPT ![c] = next]
           b == IF old[c] = NoObject THEN FALSE ELSE behind[c] \/ ca[c].id = Used(c).id
<1>1. h \in [Client -> Held] /\ h[c] = next /\ \A d \in Client \ {c} : h[d] = held[d]
  BY DEF TypeOK
<1> HIDE DEF h, b
<1>2. UNCHANGED <<newest, lastNo, issued, ca, typed>> /\ (calm' => calm)
  <2>1. calm' = (calm /\ ~held[c].stale) \/ calm' = calm
    BY DEF SetRevocations
  <2>2. UNCHANGED <<newest, lastNo, issued, ca, typed>>
    BY DEF SetRevocations
  <2>3. calm' => calm
    BY <2>1, Zenon
  <2> QED
    BY <2>2, <2>3
<1>3. CASE Outdate(c, Used(c).id, h, t, b)
  <2>1. \A d \in Client : /\ task'[d].phase = t[d].phase /\ task'[d].no = t[d].no
                          /\ held'[d].op = h[d].op
    BY <1>1, <1>3, OutdateKeeps
  <2> QED
    BY <1>1, <1>2, <2>1
<1>4. CASE /\ held' = [held EXCEPT ![c] = IF @.op = "manage" /\ next # NoList THEN @ ELSE next]
           /\ task' = t
  <2>1. \A d \in Client \ {c} : held'[d] = held[d]
    BY <1>4 DEF TypeOK
  <2>2. held'[c] = next \/ (held[c].op = "manage" /\ held'[c] = held[c])
    BY <1>4 DEF TypeOK
  <2> QED
    BY <1>2, <1>4, <2>1, <2>2
<1> QED
  BY <1>3, <1>4 DEF SetRevocations, h, b

\* A step that keeps the numbers in the database and in the objects, and at
\* most ends or opens a task, keeps the invariant.
LEMMA NumbersStep ==
  ASSUME TypeOK, Numbers, UNCHANGED <<newest, lastNo, issued, ca>>, calm' => calm,
         \A d \in Client :
           \/ old'[d] = old[d] /\ task'[d].phase = task[d].phase /\ task'[d].no = task[d].no
           \/ old'[d] \in {old[d], NoObject} /\ task'[d].phase = "none"
           \/ old'[d] = old[d] /\ task'[d].phase = "open" /\ task'[d].no = Used(d).number + 1
  PROVE  Numbers'
<1>1. \A d \in Client : Used(d)' = Used(d) \/ (Used(d)' = ca[d] /\ task'[d].phase = "none")
  BY DEF Used
<1>2. Stored'
  BY <1>1 DEF Numbers, Stored
<1>3. LastNumber'
  BY DEF Numbers, LastNumber
<1>4. calm' => ObjectsKnowLast'
  BY <1>1 DEF Numbers, ObjectsKnowLast, KnowsLast
<1>5. calm' => TasksAreNext'
  <2> SUFFICES ASSUME calm', NEW d \in Client
               PROVE  /\ task'[d].phase = "open" => task'[d].no = Used(d)'.number + 1
                      /\ task'[d].phase = "signed" /\ task'[d].no # 0 =>
                           /\ task'[d].no <= Used(d)'.number
                           /\ Used(d)'.fresh => lastNo'[Used(d)'.id] < task'[d].no
    BY DEF TasksAreNext
  <2>1. TasksAreNext /\ lastNo' = lastNo
    BY DEF Numbers
  <2>2. CASE Used(d)' = ca[d] /\ task'[d].phase = "none"
    BY <2>2
  <2>3. CASE Used(d)' = Used(d) /\ task'[d].phase # "none"
    BY <2>1, <2>3 DEF TasksAreNext
  <2>4. CASE Used(d)' = Used(d) /\ task'[d].phase = "none"
    BY <2>4
  <2> QED
    BY <1>1, <2>2, <2>3, <2>4
<1> QED
  BY <1>2, <1>3, <1>4, <1>5 DEF Numbers

LEMMA SignNumbers ==
  ASSUME TypeOK, Numbers, NEW c \in Client, NEW n \in 0..MaxNo, SignCrl(c, n)
  PROVE  Numbers'
<1>1. n \in Number /\ Used(c) \in Object
  BY UsedType DEF Number
<1>2. Used(c)' = SetCrlNumber(Used(c), n) /\ \A d \in Client \ {c} : Used(d)' = Used(d)
  <2>1. CASE old[c] = NoObject
    BY <2>1 DEF SignCrl, Used, TypeOK
  <2>2. CASE old[c] # NoObject
    <3>1. old[c] \in Object /\ SetCrlNumber(old[c], n) \in Object
      BY <1>1, <2>2, SetCrlNumberType DEF TypeOK
    <3>2. SetCrlNumber(old[c], n) # NoObject
      BY <3>1, SmallFacts DEF NoObject, Object, CA
    <3> QED
      BY <2>2, <3>2 DEF SignCrl, Used, TypeOK
  <2> QED
    BY <2>1, <2>2
<1>3. \A d \in Client : ca'[d] = ca[d] \/ (d = c /\ ca'[d] = SetCrlNumber(ca[d], n))
  BY DEF SignCrl, TypeOK
<1>4. /\ Used(c)'.id = Used(c).id /\ Used(c)'.fresh = Used(c).fresh
      /\ Used(c)'.number >= Used(c).number /\ Used(c)'.number >= n /\ Used(c)'.number \in Number
      /\ ca'[c].id = ca[c].id /\ ca'[c].fresh = ca[c].fresh
      /\ ca'[c].number >= ca[c].number /\ ca'[c].number \in Number
  <2>1. ca[c] \in Object /\ ca[c].number \in Nat
    BY SmallFacts, UsedType DEF TypeOK
  <2> QED
    BY <1>1, <1>2, <1>3, <2>1, SetCrlNumberType, UsedType
<1>5. UNCHANGED <<newest, lastNo, issued, calm>>
  BY DEF SignCrl, db, history
<1>6. Stored'
  <2> SUFFICES ASSUME NEW d \in Client PROVE ca'[d].id <= newest /\ Used(d)'.id <= newest
    BY <1>5 DEF Stored, Numbers
  <2>1. CASE d = c
    BY <1>4, <2>1 DEF Numbers, Stored
  <2>2. CASE d # c
    BY <1>2, <1>3, <2>2 DEF Numbers, Stored
  <2> QED
    BY <2>1, <2>2
<1>7. LastNumber'
  BY <1>5 DEF Numbers, LastNumber
<1>8. ASSUME calm' PROVE ObjectsKnowLast'
  <2>1. ObjectsKnowLast
    BY <1>5, <1>8 DEF Numbers
  <2> SUFFICES ASSUME NEW d \in Client PROVE KnowsLast(ca[d])' /\ KnowsLast(Used(d))'
    BY DEF ObjectsKnowLast
  <2>2. CASE d # c
    BY <1>2, <1>3, <1>5, <2>1, <2>2 DEF ObjectsKnowLast, KnowsLast
  <2>3. CASE d = c
    <3>1. lastNo[ca[c].id] \in Nat /\ lastNo[Used(c).id] \in Nat /\ ca[c].number \in Nat
          /\ ca'[c].number \in Nat /\ Used(c).number \in Nat /\ Used(c)'.number \in Nat
      BY <1>4, UsedType, SmallFacts DEF TypeOK
    <3> QED
      BY <1>4, <1>5, <2>1, <2>3, <3>1 DEF ObjectsKnowLast, KnowsLast
  <2> QED
    BY <2>2, <2>3
<1>9. ASSUME calm' PROVE TasksAreNext'
  <2>1. ObjectsKnowLast /\ TasksAreNext
    BY <1>5, <1>9 DEF Numbers
  <2>2. /\ task'[c].phase = "signed" /\ task'[c].no = n /\ n \in {task[c].no, 0}
        /\ task[c].phase = "open" /\ \A d \in Client \ {c} : task'[d] = task[d]
    BY DEF SignCrl, TypeOK
  <2>3. n # 0 => /\ n <= Used(c)'.number
                 /\ Used(c)'.fresh => lastNo'[Used(c)'.id] < n
    <3>1. lastNo[Used(c).id] \in Nat /\ Used(c).number \in Nat
      BY UsedType, SmallFacts DEF TypeOK
    <3>2. Used(c)'.number \in Nat /\ n \in Nat
      BY <1>1, <1>4, SmallFacts
    <3>3. n # 0 => n = Used(c).number + 1
      BY <2>1, <2>2 DEF TasksAreNext
    <3> QED
      BY <1>4, <1>5, <2>1, <3>1, <3>2, <3>3 DEF ObjectsKnowLast, KnowsLast
  <2> SUFFICES ASSUME NEW d \in Client
               PROVE  /\ task'[d].phase = "open" => task'[d].no = Used(d)'.number + 1
                      /\ task'[d].phase = "signed" /\ task'[d].no # 0 =>
                           /\ task'[d].no <= Used(d)'.number
                           /\ Used(d)'.fresh => lastNo'[Used(d)'.id] < task'[d].no
    BY DEF TasksAreNext
  <2>4. CASE d = c
    BY <2>2, <2>3, <2>4
  <2>5. CASE d # c
    BY <1>2, <1>5, <2>1, <2>2, <2>5 DEF TasksAreNext
  <2> QED
    BY <2>4, <2>5
<1> QED
  BY <1>6, <1>7, <1>8, <1>9 DEF Numbers

LEMMA CommitNumbers ==
  ASSUME TypeOK, Numbers, NEW c \in Client, CommitCrl(c)
  PROVE  Numbers' /\ (calm' => \A a \in CA : NewCrlIsNext(a))
<1> DEFINE a == Used(c).id
           no == task[c].no
<1>1. /\ a \in CA /\ a <= newest /\ no \in Nat /\ Used(c).number \in Nat /\ lastNo[a] \in Nat
      /\ newest' = newest /\ task[c].phase = "signed"
  BY UsedType, HeldType, SmallFacts DEF CommitCrl, Numbers, Stored, TypeOK
<1>2. /\ issued' \ issued \subseteq {[ca |-> a, no |-> no, serials |-> task[c].serials]}
      /\ issued \subseteq issued' /\ (no = 0 => issued' = issued)
  BY DEF CommitCrl
<1>3. lastNo' = [lastNo EXCEPT ![a] = Used(c).number]
  BY DEF CommitCrl, SetAuthority
<1>4. /\ \A d \in Client : ca'[d].id = ca[d].id /\ ca'[d].number = ca[d].number
      /\ \A d \in Client : ca'[d].fresh =>
           ca[d].fresh /\ (ca[d].id = a => d = c /\ old[c] = NoObject)
  <2> SUFFICES ASSUME NEW d \in Client
               PROVE  /\ ca'[d].id = ca[d].id /\ ca'[d].number = ca[d].number
                      /\ ca'[d].fresh =>
                           ca[d].fresh /\ (ca[d].id = a => d = c /\ old[c] = NoObject)
    OBVIOUS
  <2>1. ca[d] \in Object
    BY DEF TypeOK
  <2>2. ca'[d] = IF (d # c \/ old[c] # NoObject) /\ ca[d].id = a
                 THEN [ca[d] EXCEPT !.fresh = FALSE] ELSE ca[d]
    BY DEF CommitCrl
  <2> QED
    BY <2>1, <2>2 DEF Object
<1>5. \A d \in Client :
        \/ old'[d] = NoObject
        \/ d = c /\ old'[d] = old[d]
        \/ d # c /\ old'[d] = old[d] /\ old[d].id # a
        \/ d # c /\ old[d] # NoObject /\ old[d].id = a /\ old'[d] = [old[d] EXCEPT !.fresh = FALSE]
  <2>1. \A d \in Client : old'[d] =
           IF d = c THEN IF held[c].op = "manage" THEN old[c] ELSE NoObject
           ELSE IF old[d].id = a THEN [old[d] EXCEPT !.fresh = FALSE] ELSE old[d]
    BY DEF CommitCrl
  <2>2. NoObject.id # a
    BY <1>1, SmallFacts DEF NoObject, CA
  <2> QED
    BY <2>1, <2>2
\* The object each client uses after the step, and what is left of a task.
<1>6. ASSUME NEW d \in Client
      PROVE  \/ Used(d)' = ca'[d] /\ (task'[d].phase = "none" \/ Used(d) = ca[d])
             \/ Used(d)' = Used(d) /\ (d = c \/ Used(d).id # a)
             \/ /\ d # c /\ Used(d)' = [Used(d) EXCEPT !.fresh = FALSE]
  <2>0. d = c => task'[d].phase = "none"
    BY DEF CommitCrl, TypeOK, NoTask
  <2>1. CASE old'[d] = NoObject
    <3>1. Used(d)' = ca'[d]
      BY <2>1 DEF Used
    <3>2. CASE d = c
      BY <2>0, <3>1, <3>2
    <3>3. CASE d # c
      <4>1. old[d] = NoObject
        <5>1. ASSUME old[d] # NoObject PROVE FALSE
          <6>1. old[d] \in Object
            BY <5>1 DEF TypeOK
          <6>2. [old[d] EXCEPT !.fresh = FALSE] # NoObject
            BY <6>1, SmallFacts DEF Object, NoObject, CA
          <6> QED
            BY <2>1, <3>3, <5>1, <6>2, <1>5 DEF CommitCrl
        <5> QED
          BY <5>1
      <4> QED
        BY <3>1, <4>1 DEF Used
    <3> QED
      BY <3>2, <3>3
  <2>2. CASE old'[d] # NoObject
    <3>1. Used(d)' = old'[d] /\ old[d] # NoObject /\ Used(d) = old[d]
      BY <1>5, <2>2 DEF Used
    <3> QED
      BY <1>5, <2>2, <3>1
  <2> QED
    BY <2>1, <2>2
<1>7. ASSUME NEW d \in Client
      PROVE  /\ Used(d)'.id \in {Used(d).id, ca[d].id}
             /\ task'[d].phase # "none" =>
                  /\ Used(d)'.id = Used(d).id /\ Used(d)'.number = Used(d).number
                  /\ task'[d] = task[d] /\ d # c
  <2>1. Used(d) \in Object /\ ca[d] \in Object
    BY UsedType DEF TypeOK
  <2>2. task'[d].phase # "none" => task'[d] = task[d] /\ d # c
    BY DEF CommitCrl, TypeOK, NoTask
  <2>3. [Used(d) EXCEPT !.fresh = FALSE].id = Used(d).id
        /\ [Used(d) EXCEPT !.fresh = FALSE].number = Used(d).number
    BY <2>1 DEF Object
  <2> QED
    BY <1>4, <1>6, <2>2, <2>3
<1>8. Stored'
  <2>1. \A d \in Client : ca'[d].id <= newest /\ Used(d)'.id <= newest
    BY <1>4, <1>7 DEF Numbers, Stored
  <2>2. \A k \in issued' : k.ca <= newest
    BY <1>1, <1>2 DEF Numbers, Stored
  <2> QED
    BY <1>1, <2>1, <2>2 DEF Stored
<1>9. CASE ~calm'
  BY <1>8, <1>9 DEF Numbers, LastNumber
<1>10. CASE calm'
  <2>1. calm /\ Used(c).fresh /\ ObjectsKnowLast /\ TasksAreNext
    BY <1>10 DEF CommitCrl, Numbers
  <2>2. lastNo[a] <= Used(c).number
    BY <2>1 DEF ObjectsKnowLast, KnowsLast
  <2>3. no # 0 => no <= Used(c).number /\ lastNo[a] < no
    BY <1>1, <2>1 DEF TasksAreNext
  <2>4. \A k \in issued : k.ca \in CA /\ k.no \in Nat /\ k.no <= lastNo[k.ca]
    BY <2>1, SmallFacts DEF TypeOK, Numbers, LastNumber
  <2>5. \A k \in issued' : k.no <= lastNo'[k.ca]
    <3>1. lastNo \in [CA -> Nat] /\ lastNo' \in [CA -> Nat]
      BY <1>1, <1>3, SmallFacts DEF TypeOK
    <3>2. ASSUME NEW k \in issued PROVE k.no <= lastNo'[k.ca]
      BY <1>1, <1>3, <2>2, <2>4, <3>1
    <3>3. ASSUME NEW k \in issued' \ issued PROVE k.no <= lastNo'[k.ca]
      <4>1. k.ca = a /\ k.no = no /\ no # 0
        BY <1>2
      <4> QED
        BY <1>1, <1>3, <2>3, <3>1, <4>1
    <3> QED
      BY <3>2, <3>3
  <2>6. \A b \in CA : NewCrlIsNext(b)
    <3> SUFFICES ASSUME NEW b \in CA, NEW k \in issued' \ issued, k.ca = b,
                        NEW j \in issued, j.ca = b
                 PROVE  j.no < k.no
      BY DEF NewCrlIsNext
    <3>1. k.ca = a /\ k.no = no /\ no # 0
      BY <1>2
    <3> QED
      BY <1>1, <2>3, <2>4, <3>1
  <2>7. \A d \in Client : KnowsLast(ca[d])'
    <3> SUFFICES ASSUME NEW d \in Client, ca'[d].fresh
                 PROVE  lastNo'[ca'[d].id] <= ca'[d].number
      BY DEF KnowsLast
    <3>1. CASE ca[d].id = a
      <4>1. d = c /\ Used(c) = ca[c]
        BY <1>4, <3>1 DEF Used
      <4> QED
        BY <1>1, <1>3, <1>4, <3>1, <4>1 DEF TypeOK
    <3>2. CASE ca[d].id # a
      BY <1>3, <1>4, <2>1, <3>2, UsedType DEF TypeOK, ObjectsKnowLast, KnowsLast
    <3> QED
      BY <3>1, <3>2
  <2>8. \A d \in Client : KnowsLast(Used(d))'
    <3> SUFFICES ASSUME NEW d \in Client PROVE KnowsLast(Used(d))'
      OBVIOUS
    <3>1. CASE Used(d)' = ca'[d]
      BY <2>7, <3>1 DEF KnowsLast
    <3>2. CASE Used(d)' = Used(d) /\ (d = c \/ Used(d).id # a)
      <4>1. CASE d = c
        BY <1>1, <1>3, <3>2, <4>1 DEF KnowsLast, TypeOK
      <4>2. CASE Used(d).id # a
        BY <1>3, <2>1, <3>2, <4>2, UsedType DEF TypeOK, ObjectsKnowLast, KnowsLast
      <4> QED
        BY <3>2, <4>1, <4>2
    <3>3. CASE Used(d)' = [Used(d) EXCEPT !.fresh = FALSE]
      BY <3>3, UsedType DEF KnowsLast, Object
    <3> QED
      BY <1>6, <3>1, <3>2, <3>3
  <2>9. TasksAreNext'
    <3> SUFFICES ASSUME NEW d \in Client, task'[d].phase # "none"
                 PROVE  /\ task'[d].phase = "open" => task'[d].no = Used(d)'.number + 1
                        /\ task'[d].phase = "signed" /\ task'[d].no # 0 =>
                             /\ task'[d].no <= Used(d)'.number
                             /\ Used(d)'.fresh => lastNo'[Used(d)'.id] < task'[d].no
      BY DEF TasksAreNext
    <3>1. /\ Used(d)'.id = Used(d).id /\ Used(d)'.number = Used(d).number
          /\ task'[d] = task[d] /\ d # c
      BY <1>7
    <3>2. Used(d)'.fresh => Used(d).fresh /\ Used(d).id # a
      <4>1. CASE Used(d)' = ca'[d]
        BY <1>4, <1>6, <3>1, <4>1, UsedType DEF Object
      <4>2. CASE Used(d)' = Used(d) /\ Used(d).id # a
        BY <4>2
      <4>3. CASE Used(d)' = [Used(d) EXCEPT !.fresh = FALSE]
        BY <4>3, UsedType DEF Object
      <4> QED
        BY <1>6, <3>1, <4>1, <4>2, <4>3
    <3> QED
      BY <1>3, <2>1, <3>1, <3>2, UsedType DEF TasksAreNext, TypeOK
  <2>10. ObjectsKnowLast'
    BY <2>7, <2>8 DEF ObjectsKnowLast
  <2>11. LastNumber'
    BY <2>5 DEF LastNumber
  <2> QED
    BY <1>8, <2>6, <2>9, <2>10, <2>11 DEF Numbers
<1> QED
  BY <1>9, <1>10


LEMMA RenewNumbers ==
  ASSUME TypeOK, Numbers, NEW c \in Client, Renew(c)
  PROVE  Numbers'
<1>1. /\ newest \in CA /\ newest + 1 \in CA /\ newest \in Nat /\ newest' = newest + 1
      /\ UNCHANGED <<issued, old, task, calm>> /\ task[c].phase = "none"
  BY BoundsAssumption DEF TypeOK, Renew, CA, history, Free, NoTask
<1>2. /\ lastNo'[newest + 1] = 0
      /\ \A a \in CA : a # newest + 1 => lastNo'[a] = lastNo[a]
  BY <1>1 DEF Renew, TypeOK
<1>3. \A d \in Client : \/ ca'[d] = ca[d]
                        \/ d = c /\ ca'[d] = [id |-> newest + 1, number |-> 0, fresh |-> TRUE]
  BY DEF Renew, TypeOK
<1>4. \A d \in Client : Used(d)' = Used(d) \/ (d = c /\ Used(d)' = ca'[d])
  BY <1>1, <1>3 DEF Used
<1>5. \A d \in Client : /\ ca[d].id \in CA /\ Used(d).id \in CA
                        /\ ca[d].id <= newest /\ Used(d).id <= newest
  BY UsedType DEF Numbers, Stored
<1>6. \A i \in CA : i <= newest => i # newest + 1 /\ i <= newest + 1
  <2>1. newest \in Nat /\ \A i \in CA : i \in Nat
    BY <1>1, SmallFacts
  <2>2. \A i, n \in Nat : i <= n => i # n + 1 /\ i <= n + 1
    OBVIOUS
  <2> QED
    BY <2>1, <2>2
<1>7. \A d \in Client : ca'[d].id <= newest + 1 /\ Used(d)'.id <= newest + 1
  BY <1>1, <1>3, <1>4, <1>5, <1>6
<1>8. Stored'
  <2>1. \A k \in issued : k.ca \in CA /\ k.ca <= newest
    BY DEF TypeOK, Numbers, Stored
  <2> QED
    BY <1>1, <1>6, <1>7, <2>1 DEF Stored
<1>9. LastNumber'
  <2>1. \A k \in issued : k.ca \in CA /\ k.ca <= newest
    BY DEF TypeOK, Numbers, Stored
  <2> QED
    BY <1>1, <1>2, <1>6, <2>1 DEF Numbers, LastNumber
<1>10. ASSUME calm' PROVE ObjectsKnowLast'
  <2>1. ObjectsKnowLast
    BY <1>1, <1>10 DEF Numbers
  <2>2. \A d \in Client : KnowsLast(ca[d])'
    BY <1>2, <1>3, <1>5, <1>6, <2>1 DEF ObjectsKnowLast, KnowsLast
  <2>3. \A d \in Client : KnowsLast(Used(d))'
    BY <1>2, <1>4, <1>5, <1>6, <2>1, <2>2 DEF ObjectsKnowLast, KnowsLast
  <2> QED
    BY <2>2, <2>3 DEF ObjectsKnowLast
<1>11. ASSUME calm' PROVE TasksAreNext'
  BY <1>1, <1>2, <1>4, <1>5, <1>6, <1>11 DEF Numbers, TasksAreNext
<1> QED
  BY <1>8, <1>9, <1>10, <1>11 DEF Numbers

LEMMA LoadNumbers ==
  ASSUME TypeOK, Numbers, NEW c \in Client, Reload(c) \/ Restart(c)
  PROVE  Numbers'
<1>1. /\ UNCHANGED <<newest, lastNo, issued, calm>> /\ newest \in CA
      /\ newest \in Nat /\ lastNo[newest] \in Nat
  BY SmallFacts DEF Reload, Restart, db, TypeOK
<1>2. \A d \in Client : \/ ca'[d] = ca[d]
                        \/ ca'[d] = [id |-> newest, number |-> lastNo[newest], fresh |-> TRUE]
  BY DEF Reload, Restart, Load, TypeOK
<1>3. \A d \in Client : \/ Used(d)' = Used(d) /\ task'[d] = task[d]
                        \/ Used(d)' \in {ca'[d], old[d]} /\ Used(d)' \in {ca'[d], Used(d)}
                           /\ task'[d].phase = "none"
  <2> SUFFICES ASSUME NEW d \in Client
               PROVE  \/ Used(d)' = Used(d) /\ task'[d] = task[d]
                      \/ Used(d)' \in {ca'[d], old[d]} /\ Used(d)' \in {ca'[d], Used(d)}
                         /\ task'[d].phase = "none"
    OBVIOUS
  <2>1. CASE d # c
    BY <2>1 DEF Reload, Restart, Load, Used, TypeOK
  <2>2. CASE d = c /\ Restart(c)
    BY <2>2 DEF Restart, Used, TypeOK, NoTask
  <2>3. CASE d = c /\ Reload(c) /\ Free(c)
    BY <2>3 DEF Reload, Used, Free, NoTask
  <2>4. CASE d = c /\ Reload(c) /\ ~Free(c)
    <3>1. Used(c) # NoObject
      BY UsedType, SmallFacts DEF NoObject, CA
    <3>2. old'[c] = Used(c) /\ task' = task
      BY <2>4 DEF Reload, TypeOK
    <3> QED
      BY <2>4, <3>1, <3>2 DEF Used
  <2> QED
    BY <2>1, <2>2, <2>3, <2>4
<1>4. Stored'
  <2>1. \A d \in Client : ca'[d].id <= newest /\ Used(d)'.id <= newest
    BY <1>1, <1>2, <1>3 DEF Numbers, Stored
  <2> QED
    BY <1>1, <2>1 DEF Numbers, Stored
<1>5. LastNumber'
  BY <1>1 DEF Numbers, LastNumber
<1>6. ASSUME calm' PROVE ObjectsKnowLast'
  <2>1. \A d \in Client : KnowsLast(ca[d]) /\ KnowsLast(Used(d))
    BY <1>1, <1>6 DEF Numbers, ObjectsKnowLast
  <2>2. \A d \in Client : KnowsLast(ca[d])'
    BY <1>1, <1>2, <2>1 DEF KnowsLast
  <2>3. \A d \in Client : KnowsLast(Used(d))'
    BY <1>1, <1>3, <2>1, <2>2 DEF KnowsLast
  <2> QED
    BY <2>2, <2>3 DEF ObjectsKnowLast
<1>7. ASSUME calm' PROVE TasksAreNext'
  BY <1>1, <1>3, <1>7 DEF Numbers, TasksAreNext
<1> QED
  BY <1>4, <1>5, <1>6, <1>7 DEF Numbers

\* Writing a list from a handler or from Manage revocations.
LEMMA ListNumbers ==
  ASSUME TypeOK, Numbers, NEW c \in Client,
         \/ RevokeWrites(c) \/ UnRevokeWrites(c) \/ ManageOk(c) \/ GenerateFromManage(c)
         \/ \E S \in SUBSET Serial : ImportCrl(c, S)
  PROVE  Numbers' /\ issued' = issued
<1>0. task \in [Client -> Task] /\ held \in [Client -> Held] /\ NoList \in Held
  BY NothingTypes DEF TypeOK
<1>1. CASE RevokeWrites(c)
  <2>1. UNCHANGED <<newest, lastNo, issued, ca, old>>
    BY <1>1 DEF RevokeWrites
  <2>2. calm' => calm
    <3>1. calm' = (calm /\ ~held[c].stale) \/ calm' = calm
      BY <1>1 DEF RevokeWrites
    <3> QED
      BY <3>1, Zenon
  <2>3. \A d \in Client : task'[d].phase = task[d].phase /\ task'[d].no = task[d].no
    <3> DEFINE h == [held EXCEPT ![c] = NoList]
    <3>1. h \in [Client -> Held]
      BY <1>0
    <3> HIDE DEF h
    <3>2. CASE Outdate(c, ca[c].id, h, task, behind[c])
      BY <1>0, <3>1, <3>2, OutdateKeeps
    <3>3. CASE task' = task
      BY <3>3
    <3> QED
      BY <1>1, <3>2, <3>3 DEF RevokeWrites, h
  <2> QED
    BY <2>1, <2>2, <2>3, NumbersStep
<1>2. CASE UnRevokeWrites(c)
  <2>1. SetRevocations(c, NoList, task) /\ old' = old
    BY <1>2 DEF UnRevokeWrites
  <2>2. /\ UNCHANGED <<newest, lastNo, issued, ca, typed>> /\ (calm' => calm)
        /\ \A d \in Client : task'[d].phase = task[d].phase /\ task'[d].no = task[d].no
    BY <1>0, <2>1, SetRevocationsKeeps
  <2> QED
    BY <2>1, <2>2, NumbersStep
<1>3. CASE ManageOk(c)
  <2>1. /\ SetRevocations(c, NoList, task) /\ task[c].phase = "none"
        /\ \A d \in Client : old'[d] = old[d] \/ (d = c /\ old'[d] = NoObject)
    BY <1>3 DEF ManageOk, Managing, NoTask, TypeOK
  <2>2. /\ UNCHANGED <<newest, lastNo, issued, ca, typed>> /\ (calm' => calm)
        /\ \A d \in Client : task'[d].phase = task[d].phase /\ task'[d].no = task[d].no
    BY <1>0, <2>1, SetRevocationsKeeps
  <2>3. \A d \in Client :
           \/ old'[d] = old[d] /\ task'[d].phase = task[d].phase /\ task'[d].no = task[d].no
           \/ old'[d] \in {old[d], NoObject} /\ task'[d].phase = "none"
    BY <2>1, <2>2
  <2> QED
    BY <2>2, <2>3, NumbersStep
<1>4. CASE GenerateFromManage(c)
  <2> DEFINE next == [held[c] EXCEPT !.removed = {}, !.stale = FALSE]
             t == [task EXCEPT ![c] = NewTask(c)]
  <2>1. next \in Held
    BY HeldType DEF Held
  <2>2. /\ NewTask(c) \in Task /\ NewTask(c).phase = "open" /\ NewTask(c).no = Used(c).number + 1
    BY <1>4, NewTaskType DEF GenerateFromManage
  <2>3. t \in [Client -> Task] /\ t[c] = NewTask(c) /\ \A d \in Client \ {c} : t[d] = task[d]
    BY <1>0, <2>2
  <2>4. SetRevocations(c, next, t) /\ old' = old
    BY <1>4 DEF GenerateFromManage
  <2> HIDE DEF next, t
  <2>5. /\ UNCHANGED <<newest, lastNo, issued, ca, typed>> /\ (calm' => calm)
        /\ \A d \in Client : task'[d].phase = t[d].phase /\ task'[d].no = t[d].no
    BY <2>1, <2>3, <2>4, SetRevocationsKeeps
  <2>6. \A d \in Client :
           \/ old'[d] = old[d] /\ task'[d].phase = task[d].phase /\ task'[d].no = task[d].no
           \/ old'[d] = old[d] /\ task'[d].phase = "open" /\ task'[d].no = Used(d).number + 1
    BY <2>2, <2>3, <2>4, <2>5
  <2> QED
    BY <2>5, <2>6, NumbersStep
<1>5. ASSUME NEW S \in SUBSET Serial, ImportCrl(c, S)
      PROVE  Numbers' /\ issued' = issued
  <2>1. UNCHANGED <<newest, lastNo, issued, ca, old, calm>>
    BY <1>5 DEF ImportCrl
  <2>2. \A d \in Client : task'[d].phase = task[d].phase /\ task'[d].no = task[d].no
    <3>1. CASE Outdate(c, ca[c].id, held, task, behind[c])
      BY <1>0, <3>1, OutdateKeeps
    <3>2. CASE task' = task
      BY <3>2
    <3> QED
      BY <1>5, <3>1, <3>2 DEF ImportCrl
  <2> QED
    BY <2>1, <2>2, NumbersStep
<1> QED
  BY <1>1, <1>2, <1>3, <1>4, <1>5

\* The steps of the dialogs and handlers that write nothing.
LEMMA DialogNumbers ==
  ASSUME TypeOK, Numbers, NEW c \in Client,
         \/ \E S \in SUBSET Child : Revoke(c, S) \/ UnRevoke(c, S)
         \/ OpenManage(c) \/ ManageCancel(c) \/ OpenCrl(c) \/ DropCrl(c)
         \/ \E s \in Serial : AddRev(c, s) \/ DelRev(c, s) \/ EditRev(c, s)
  PROVE  Numbers' /\ issued' = issued
<1>1. CASE \E S \in SUBSET Child : Revoke(c, S) \/ UnRevoke(c, S)
  <2>1. UNCHANGED <<newest, lastNo, issued, ca, old, task, calm>>
    BY <1>1 DEF Revoke, UnRevoke, db, history
  <2> QED
    BY <2>1, NumbersStep
<1>2. CASE OpenManage(c)
  <2>1. UNCHANGED <<newest, lastNo, issued, ca, old, task, calm>>
    BY <1>2 DEF OpenManage, db, history
  <2> QED
    BY <2>1, NumbersStep
<1>3. CASE ManageCancel(c)
  <2>1. /\ UNCHANGED <<newest, lastNo, issued, ca, task, calm>> /\ task[c].phase = "none"
        /\ \A d \in Client : old'[d] = old[d] \/ (d = c /\ old'[d] = NoObject)
    BY <1>3 DEF ManageCancel, Managing, db, history, NoTask, TypeOK
  <2>2. \A d \in Client :
           \/ old'[d] = old[d] /\ task'[d].phase = task[d].phase /\ task'[d].no = task[d].no
           \/ old'[d] \in {old[d], NoObject} /\ task'[d].phase = "none"
    BY <2>1
  <2> QED
    BY <2>1, <2>2, NumbersStep
<1>4. CASE OpenCrl(c)
  <2>1. UNCHANGED <<newest, lastNo, issued, ca, old, calm>>
    BY <1>4 DEF OpenCrl, db, history
  <2>2. \A d \in Client : task'[d] = IF d = c THEN NewTask(c) ELSE task[d]
    BY <1>4 DEF OpenCrl, TypeOK
  <2>3. NewTask(c).phase = "open" /\ NewTask(c).no = Used(c).number + 1
    BY <1>4, NewTaskType DEF OpenCrl
  <2>4. \A d \in Client :
           \/ old'[d] = old[d] /\ task'[d].phase = task[d].phase /\ task'[d].no = task[d].no
           \/ old'[d] = old[d] /\ task'[d].phase = "open" /\ task'[d].no = Used(d).number + 1
    BY <2>1, <2>2, <2>3
  <2> QED
    BY <2>1, <2>4, NumbersStep
<1>5. CASE DropCrl(c)
  <2>1. UNCHANGED <<newest, lastNo, issued, ca, calm>>
    BY <1>5 DEF DropCrl, db, history
  <2>2. \A d \in Client :
           \/ old'[d] = old[d] /\ task'[d].phase = task[d].phase /\ task'[d].no = task[d].no
           \/ old'[d] \in {old[d], NoObject} /\ task'[d].phase = "none"
    BY <1>5 DEF DropCrl, EndTask, TypeOK, NoTask
  <2> QED
    BY <2>1, <2>2, NumbersStep
<1>6. ASSUME NEW s \in Serial, AddRev(c, s) \/ DelRev(c, s) \/ EditRev(c, s)
      PROVE  Numbers' /\ issued' = issued
  <2>1. UNCHANGED <<newest, lastNo, issued, ca, old, task, calm>>
    BY <1>6, EditType DEF db
  <2> QED
    BY <2>1, NumbersStep
<1> QED
  BY <1>1, <1>2, <1>3, <1>4, <1>5, <1>6

LEMMA NumbersNext ==
  TypeOK /\ Numbers /\ [Next]_vars => Numbers' /\ (calm' => \A a \in CA : NewCrlIsNext(a))
<1> SUFFICES ASSUME TypeOK, Numbers, [Next]_vars
             PROVE  Numbers' /\ (calm' => \A a \in CA : NewCrlIsNext(a))
  OBVIOUS
<1>1. issued' = issued => \A a \in CA : NewCrlIsNext(a)
  BY DEF NewCrlIsNext
<1>2. CASE UNCHANGED vars
  <2>1. UNCHANGED <<newest, lastNo, issued, ca, old, task, calm>>
    BY <1>2 DEF vars, db, memory, history
  <2> QED
    BY <1>1, <2>1, NumbersStep
<1>3. CASE Next
  <2>1. PICK c \in Client : NextBy(c)
    BY <1>3 DEF Next, NextBy
  <2>2. CASE Renew(c)
    <3>1. issued' = issued
      BY <2>2 DEF Renew
    <3> QED
      BY <1>1, <2>2, <3>1, RenewNumbers
  <2>3. CASE Reload(c) \/ Restart(c)
    <3>1. issued' = issued
      BY <2>3 DEF Reload, Restart, db
    <3> QED
      BY <1>1, <2>3, <3>1, LoadNumbers
  <2>4. CASE \E n \in 0..MaxNo : SignCrl(c, n)
    <3>1. issued' = issued
      BY <2>4 DEF SignCrl, db
    <3> QED
      BY <1>1, <2>4, <3>1, SignNumbers
  <2>5. CASE CommitCrl(c)
    BY <2>5, CommitNumbers
  <2>6. CASE \/ RevokeWrites(c) \/ UnRevokeWrites(c) \/ ManageOk(c) \/ GenerateFromManage(c)
             \/ \E S \in SUBSET Serial : ImportCrl(c, S)
    BY <1>1, <2>6, ListNumbers
  <2>7. CASE \/ \E S \in SUBSET Child : Revoke(c, S) \/ UnRevoke(c, S)
             \/ OpenManage(c) \/ ManageCancel(c) \/ OpenCrl(c) \/ DropCrl(c)
             \/ \E s \in Serial : AddRev(c, s) \/ DelRev(c, s) \/ EditRev(c, s)
    BY <1>1, <2>7, DialogNumbers
  <2> QED
    BY <2>1, <2>2, <2>3, <2>4, <2>5, <2>6, <2>7 DEF NextBy
<1> QED
  BY <1>2, <1>3

\* authority.crlNo is never less than the number of a CRL of the CA, in every
\* instance, as long as nobody wrote what others had changed.
THEOREM LastNumberIsStored == Spec => []LastNumber
<1>1. TypeOK /\ Numbers /\ [Next]_vars => TypeOK' /\ Numbers'
  BY TypeNext, NumbersNext
<1>2. Numbers => LastNumber
  BY DEF Numbers
<1> QED
  BY TypeInit, NumbersInit, <1>1, <1>2, PTL DEF Spec

\* The number of a new CRL is greater than those of the CRLs of the CA, in
\* every instance, as long as nobody wrote what others had changed.
THEOREM NumbersOfCrlsGrow == Spec => CrlNumbersGrow
<1>1. TypeOK /\ Numbers /\ [Next]_vars => TypeOK' /\ Numbers'
  BY TypeNext, NumbersNext
<1>2. TypeOK /\ Numbers /\ [Next]_vars => [calm' => \A a \in CA : NewCrlIsNext(a)]_vars
  BY NumbersNext
<1> QED
  BY TypeInit, NumbersInit, <1>1, <1>2, PTL DEF Spec, CrlNumbersGrow

------------------------------------------------------------------------------
(* The lists.  A copy that is not stale has all that is on the list but    *)
(* what the user removed from it, and its numbers are those of CRLs.       *)

\* A client holds a list or makes a CRL only as its dialogs and handlers do.
Idle(c) ==
  /\ held[c].op = "none" => held[c] = NoList
  /\ task[c].phase = "none" => task[c] = NoTask
  /\ held[c].op \in {"revoke", "unrevoke"} => task[c] = NoTask
  /\ held[c].op \in {"none", "revoke", "unrevoke"} /\ task[c] = NoTask => old[c] = NoObject

\* The CRLs of a from number n on have s.
OnCrlsSince(a, s, n) ==
  /\ \E k \in issued : k.ca <= a /\ k.no = n /\ s \in k.serials
  /\ \A k \in issued : k.ca = a /\ k.no >= n => s \in k.serials

Typed(list) == \A s \in Serial : Len(list[s]) > 1 => s \in typed
Numbered(list, a) == \A s \in Serial : \A i \in DOMAIN list[s] :
  list[s][i] # 0 => s \in On(rows[a]) /\ OnCrlsSince(a, s, list[s][i])

Copy(c) ==
  /\ Typed(held[c].copy)
  /\ held[c].op # "none" /\ ~held[c].stale =>
       /\ On(rows[Used(c).id]) \ held[c].removed \subseteq On(held[c].copy)
       /\ calm => Numbered(held[c].copy, Used(c).id)

Signed(c) == task[c].phase = "signed" /\ ~task[c].stale => task[c].serials = On(rows[Used(c).id])

Marks(c) == ~behind[c] =>
  /\ held[c].op \in {"none", "manage"} => marked[c] = ShownChildren(rows[ca[c].id])
  /\ held[c].op = "revoke" => marked[c] = ShownChildren(held[c].copy)

NotYet == \A a \in CA : a > newest => rows[a] = EmptyList

Revocations ==
  /\ NotYet /\ DuplicatesAreTyped /\ OnEveryCrlSince
  /\ \A c \in Client : Idle(c) /\ Copy(c) /\ Signed(c) /\ Marks(c)

LEMMA RevocationsInit == Init => Revocations
<1> SUFFICES ASSUME Init PROVE Revocations
  OBVIOUS
<1>1. \A a \in CA : rows[a] = EmptyList
  BY DEF Init
<1>2. \A s \in Serial : EmptyList[s] = <<>> /\ Len(EmptyList[s]) = 0 /\ DOMAIN EmptyList[s] = {}
  BY DEF EmptyList
<1>3. NotYet /\ DuplicatesAreTyped /\ OnEveryCrlSince
  BY <1>1, <1>2 DEF NotYet, DuplicatesAreTyped, OnEveryCrlSince
<1>4. 1 \in CA /\ ShownChildren(EmptyList) = {}
  BY <1>2, SmallFacts DEF ShownChildren, On
<1>5. ASSUME NEW c \in Client PROVE Idle(c) /\ Copy(c) /\ Signed(c) /\ Marks(c)
  <2>1. /\ held[c] = NoList /\ task[c] = NoTask /\ old[c] = NoObject
        /\ marked[c] = {} /\ ca[c].id = 1
    BY DEF Init
  <2>2. /\ NoList.op = "none" /\ NoTask.phase = "none" /\ NoList.copy = EmptyList
    BY DEF NoList, NoTask
  <2> QED
    BY <1>1, <1>2, <1>4, <2>1, <2>2 DEF Idle, Copy, Signed, Marks, Typed
<1> QED
  BY <1>3, <1>5 DEF Revocations

\* What is known of a list just read, merged or shortened.
LEMMA ReadFacts ==
  ASSUME TypeOK, DuplicatesAreTyped, OnEveryCrlSince, NEW a \in CA
  PROVE  /\ FromSql(rows[a]) \in Lists(Number) /\ On(FromSql(rows[a])) = On(rows[a])
         /\ Typed(FromSql(rows[a])) /\ (calm => Numbered(FromSql(rows[a]), a))
<1> DEFINE list == FromSql(rows[a])
<1>1. /\ rows[a] \in Lists(Number \cup {Null}) /\ list \in Lists(Number) /\ On(list) = On(rows[a])
      /\ \A s \in Serial :
              /\ Len(list[s]) = Len(rows[a][s])
              /\ DOMAIN list[s] = DOMAIN rows[a][s]
              /\ \A i \in DOMAIN rows[a][s] : list[s][i] \in {rows[a][s][i], 0}
  BY RowsType, FromSqlFacts
<1> HIDE DEF list
<1>2. Typed(list)
  BY <1>1 DEF Typed, DuplicatesAreTyped
<1>3. ASSUME calm, NEW s \in Serial, NEW i \in DOMAIN list[s], list[s][i] # 0
      PROVE  s \in On(rows[a]) /\ OnCrlsSince(a, s, list[s][i])
  <2>1. list[s] \in Seq(Number) /\ rows[a][s] \in Seq(Number \cup {Null})
    BY <1>1 DEF Lists
  <2>2. list[s][i] \in Number /\ i \in DOMAIN rows[a][s] /\ rows[a][s] # <<>>
    BY <1>1, <2>1
  <2>3. list[s][i] = rows[a][s][i] /\ list[s][i] # Null
    BY <1>1, <1>3, <2>2, SmallFacts
  <2> QED
    BY <1>3, <2>2, <2>3 DEF OnEveryCrlSince, OnCrlsSince, On
<1> QED
  BY <1>1, <1>2, <1>3 DEF Numbered, list

LEMMA MergeKeeps ==
  ASSUME NEW list \in Lists(Number), NEW S \in SUBSET Serial, NEW a
  PROVE  /\ Typed(list) => Typed(Merge(list, S))
         /\ Numbered(list, a) => Numbered(Merge(list, S), a)
<1>1. \A s \in Serial : Merge(list, S)[s] \in {list[s], <<0>>}
  BY MergeFacts
<1>2. Len(<<0>>) = 1 /\ DOMAIN <<0>> = {1} /\ <<0>>[1] = 0
  OBVIOUS
<1>3. Typed(list) => Typed(Merge(list, S))
  <2> SUFFICES ASSUME Typed(list), NEW s \in Serial, Len(Merge(list, S)[s]) > 1 PROVE s \in typed
    BY DEF Typed
  <2>1. ~(Len(<<0>>) > 1)
    OBVIOUS
  <2>2. Merge(list, S)[s] = list[s]
    BY <1>1, <2>1
  <2> QED
    BY <2>2 DEF Typed
<1>4. Numbered(list, a) => Numbered(Merge(list, S), a)
  BY <1>1, <1>2 DEF Numbered
<1> QED
  BY <1>3, <1>4

LEMMA TakeFirstKeeps ==
  ASSUME NEW list \in Lists(Number), NEW S \in SUBSET Serial, NEW a
  PROVE  /\ Typed(list) => Typed(TakeFirst(list, S))
         /\ Numbered(list, a) => Numbered(TakeFirst(list, S), a)
<1>1. \A s \in Serial :
        /\ Len(TakeFirst(list, S)[s]) > 1 => Len(list[s]) > 1
        /\ \A i \in DOMAIN TakeFirst(list, S)[s] :
             \E k \in DOMAIN list[s] : TakeFirst(list, S)[s][i] = list[s][k]
  BY TakeFirstFacts
<1>2. Typed(list) => Typed(TakeFirst(list, S))
  BY <1>1 DEF Typed
<1>3. Numbered(list, a) => Numbered(TakeFirst(list, S), a)
  BY <1>1 DEF Numbered
<1> QED
  BY <1>2, <1>3

\* Writing a list.
LEMMA WriteFacts ==
  ASSUME TypeOK, DuplicatesAreTyped, OnEveryCrlSince, NEW a \in CA, NEW list \in Lists(Number),
         rows' = [rows EXCEPT ![a] = SqlUpdate(list, @)], Typed(list),
         issued' = issued, typed \subseteq typed', calm' => calm,
         calm' => \A s \in Serial : \A i \in DOMAIN list[s] :
                    list[s][i] # 0 => OnCrlsSince(a, s, list[s][i])
  PROVE  /\ DuplicatesAreTyped' /\ OnEveryCrlSince'
         /\ On(rows'[a]) = On(list) /\ \A b \in CA \ {a} : rows'[b] = rows[b]
<1>1. rows'[a] = SqlUpdate(list, rows[a]) /\ \A b \in CA \ {a} : rows'[b] = rows[b]
  BY DEF TypeOK
<1>2. /\ On(rows'[a]) = On(list)
      /\ \A s \in Serial :
              /\ Len(rows'[a][s]) = Len(list[s])
              /\ DOMAIN rows'[a][s] = DOMAIN list[s]
              /\ \A i \in DOMAIN list[s] :
                   \/ rows'[a][s][i] \in {Null, list[s][i]}
                   \/ \E k \in DOMAIN rows[a][s] : rows'[a][s][i] = rows[a][s][k]
  <2> DEFINE was == rows[a]
             new == SqlUpdate(list, was)
  <2>1. was \in Lists(Number \cup {Null}) /\ rows'[a] = new
    BY <1>1, RowsType
  <2> HIDE DEF was
  <2>2. /\ On(new) = On(list)
        /\ \A s \in Serial :
              /\ Len(new[s]) = Len(list[s])
              /\ DOMAIN new[s] = DOMAIN list[s]
              /\ \A i \in DOMAIN list[s] :
                   \/ new[s][i] \in {Null, list[s][i]}
                   \/ \E k \in DOMAIN was[s] : new[s][i] = was[s][k]
    BY <2>1, SqlUpdateFacts
  <2> HIDE DEF new
  <2> QED
    BY <2>1, <2>2 DEF was
<1>3. DuplicatesAreTyped'
  <2> SUFFICES ASSUME NEW b \in CA, NEW s \in Serial, Len(rows'[b][s]) > 1 PROVE s \in typed'
    BY DEF DuplicatesAreTyped
  <2>1. CASE b = a
    BY <1>2, <2>1 DEF Typed
  <2>2. CASE b # a
    BY <1>1, <2>2 DEF DuplicatesAreTyped
  <2> QED
    BY <2>1, <2>2
<1>4. OnEveryCrlSince'
  <2> SUFFICES ASSUME calm', NEW b \in CA, NEW s \in Serial, NEW i \in DOMAIN rows'[b][s],
                      rows'[b][s][i] \notin {Null, 0}
               PROVE  OnCrlsSince(b, s, rows'[b][s][i])
    BY DEF OnEveryCrlSince, OnCrlsSince
  <2>0. \A e \in CA : \A k \in DOMAIN rows[e][s] :
          rows[e][s][k] \notin {Null, 0} => OnCrlsSince(e, s, rows[e][s][k])
    BY DEF OnEveryCrlSince, OnCrlsSince
  <2>1. CASE b = a
    <3>1. i \in DOMAIN list[s]
      BY <1>2, <2>1
    <3>2. CASE rows'[a][s][i] = list[s][i]
      BY <2>1, <3>1, <3>2
    <3>3. CASE \E k \in DOMAIN rows[a][s] : rows'[a][s][i] = rows[a][s][k]
      BY <2>0, <2>1, <3>3
    <3> QED
      BY <1>2, <2>1, <3>1, <3>2, <3>3
  <2>2. CASE b # a
    BY <1>1, <2>0, <2>2
  <2> QED
    BY <2>1, <2>2
<1> QED
  BY <1>1, <1>2, <1>3, <1>4

\* A step that leaves the list of a client alone, or makes it stale when the
\* list in the database changes.
LEMMA FrameCopy ==
  ASSUME TypeOK, NEW d \in Client, Copy(d),
         held'[d].op = held[d].op, held'[d].copy = held[d].copy,
         held'[d].removed = held[d].removed, held[d].stale => held'[d].stale,
         typed \subseteq typed', calm' => calm,
         held[d].op # "none" => Used(d)'.id = Used(d).id,
         held[d].op # "none" /\ ~held'[d].stale => On(rows'[Used(d).id]) = On(rows[Used(d).id]),
         calm' => \A a \in CA : \A s \in On(rows[a]) : \A n \in Number :
                    OnCrlsSince(a, s, n) => OnCrlsSince(a, s, n)'
  PROVE  Copy(d)'
<1>1. Typed(held[d].copy)'
  BY DEF Copy, Typed
<1>2. ASSUME held'[d].op # "none", ~held'[d].stale, NEW a \in CA, a = Used(d).id
      PROVE  /\ On(rows'[Used(d)'.id]) \ held'[d].removed \subseteq On(held'[d].copy)
             /\ calm' => Numbered(held[d].copy, Used(d).id)'
  <2> DEFINE list == held[d].copy
  <2>1. /\ Used(d)'.id = a /\ On(rows'[a]) = On(rows[a]) /\ held'[d].copy = list
        /\ On(rows[a]) \ held[d].removed \subseteq On(list) /\ (calm => Numbered(list, a))
    BY <1>2 DEF Copy
  <2>3. \A s \in Serial : list[s] \in Seq(Number)
    BY HeldType DEF Lists
  <2> HIDE DEF list
  <2>4. \A s \in Serial : \A i \in DOMAIN list[s] : list[s][i] \in Number
    BY <2>3
  <2>5. ASSUME calm' PROVE Numbered(held[d].copy, Used(d).id)'
    <3>1. \A s \in Serial : \A i \in DOMAIN list[s] : list[s][i] # 0 =>
            s \in On(rows[a]) /\ list[s][i] \in Number /\ OnCrlsSince(a, s, list[s][i])
      BY <2>1, <2>4, <2>5 DEF Numbered
    <3>2. \A s \in Serial : \A i \in DOMAIN list[s] : \A n : n = list[s][i] /\ n # 0 =>
            s \in On(rows'[a]) /\ OnCrlsSince(a, s, n)'
      BY <2>1, <2>5, <3>1
    <3> QED
      BY <2>1, <3>2 DEF Numbered, On, OnCrlsSince
  <2> QED
    BY <2>1, <2>5 DEF list
<1> QED
  BY <1>1, <1>2, UsedType DEF Copy, Typed, Numbered

\* The same of its task.
LEMMA Frame ==
  ASSUME TypeOK, NEW d \in Client, Idle(d), Copy(d), Signed(d),
         held'[d].op = held[d].op, held'[d].copy = held[d].copy,
         held'[d].removed = held[d].removed, held[d].stale => held'[d].stale,
         held[d].op = "none" => held'[d] = held[d],
         task'[d].phase = task[d].phase, task'[d].serials = task[d].serials,
         task[d].stale => task'[d].stale, task[d].phase = "none" => task'[d] = task[d],
         old[d] = NoObject => old'[d] = NoObject,
         typed \subseteq typed', calm' => calm,
         held[d].op # "none" \/ task[d].phase = "signed" => Used(d)'.id = Used(d).id,
         held[d].op # "none" /\ ~held'[d].stale => On(rows'[Used(d).id]) = On(rows[Used(d).id]),
         task[d].phase = "signed" /\ ~task'[d].stale =>
           On(rows'[Used(d).id]) = On(rows[Used(d).id]),
         calm' => \A a \in CA : \A s \in On(rows[a]) : \A n \in Number :
                    OnCrlsSince(a, s, n) => OnCrlsSince(a, s, n)'
  PROVE  Idle(d)' /\ Copy(d)' /\ Signed(d)'
<1>1. Idle(d)'
  BY DEF Idle, NoTask
<1>2. Signed(d)'
  BY DEF Signed
<1>3. Copy(d)'
  BY FrameCopy
<1> QED
  BY <1>1, <1>2, <1>3

LEMMA MarksFrame ==
  ASSUME TypeOK, NEW d \in Client, Marks(d),
         \/ held[d].op \in {"none", "manage"} /\ held'[d].op \in {"none", "manage"}
         \/ held'[d].op = held[d].op /\ held'[d].copy = held[d].copy,
         marked'[d] = marked[d], behind[d] => behind'[d], ca'[d].id = ca[d].id,
         ~behind'[d] => On(rows'[ca[d].id]) = On(rows[ca[d].id])
  PROVE  Marks(d)'
  BY DEF Marks, ShownChildren

\* A step of c that writes nothing to the database.
LEMMA QuietStep ==
  ASSUME TypeOK, Revocations, NEW c \in Client,
         UNCHANGED <<newest, rows, issued>>, typed \subseteq typed', calm' => calm,
         \A d \in Client \ {c} : /\ held'[d] = held[d] /\ task'[d] = task[d]
                                 /\ old'[d] = old[d] /\ ca'[d] = ca[d]
                                 /\ marked'[d] = marked[d] /\ behind'[d] = behind[d],
         Idle(c)', Copy(c)', Signed(c)', Marks(c)'
  PROVE  Revocations'
<1>1. \A a \in CA : \A s \in On(rows[a]) : \A n \in Number :
        OnCrlsSince(a, s, n) => OnCrlsSince(a, s, n)'
  BY DEF OnCrlsSince
<1>2. ASSUME NEW d \in Client \ {c} PROVE Idle(d)' /\ Copy(d)' /\ Signed(d)' /\ Marks(d)'
  <2>1. Used(d)' = Used(d)
    BY DEF Used
  <2>2. Idle(d) /\ Copy(d) /\ Signed(d) /\ Marks(d)
    BY DEF Revocations
  <2>3. Idle(d)' /\ Copy(d)' /\ Signed(d)'
    BY <1>1, <2>1, <2>2, Frame
  <2>4. Marks(d)'
    BY <2>2, MarksFrame
  <2> QED
    BY <2>3, <2>4
<1>3. NotYet' /\ DuplicatesAreTyped' /\ OnEveryCrlSince'
  BY DEF Revocations, NotYet, DuplicatesAreTyped, OnEveryCrlSince
<1> QED
  BY <1>2, <1>3 DEF Revocations

\* sqlUpdate() of the list of CA a.
Rewrites(a, list) == rows' = [rows EXCEPT ![a] = SqlUpdate(list, @)]

\* A step of c that rewrites the list of the CA a.
LEMMA WriteStep ==
  ASSUME TypeOK, Stored, Revocations, NEW c \in Client, NEW a \in CA, a <= newest,
         NEW list \in Lists(Number), NEW h \in [Client -> Held], NEW t \in [Client -> Task], NEW b,
         Rewrites(a, list), Outdate(c, a, h, t, b),
         \A d \in Client \ {c} : /\ h[d] = held[d] /\ t[d] = task[d]
                                 /\ old'[d] = old[d] /\ ca'[d] = ca[d] /\ marked'[d] = marked[d],
         UNCHANGED <<newest, issued, typed>>, calm' => calm, Typed(list),
         calm' => \A s \in Serial : \A i \in DOMAIN list[s] :
                    list[s][i] # 0 => OnCrlsSince(a, s, list[s][i]),
         On(rows'[a]) = On(list) => Idle(c)' /\ Copy(c)' /\ Signed(c)' /\ Marks(c)'
  PROVE  Revocations'
<1>1. /\ DuplicatesAreTyped' /\ OnEveryCrlSince'
      /\ On(rows'[a]) = On(list) /\ \A e \in CA \ {a} : rows'[e] = rows[e]
  BY WriteFacts DEF Revocations, Rewrites
<1>2. \A e \in CA : \A s \in On(rows[e]) : \A n \in Number :
        OnCrlsSince(e, s, n) => OnCrlsSince(e, s, n)'
  BY DEF OnCrlsSince
<1>3. ASSUME NEW d \in Client \ {c} PROVE Idle(d)' /\ Copy(d)' /\ Signed(d)' /\ Marks(d)'
  <2>1. Used(d)' = Used(d) /\ Used(d).id \in CA /\ ca[d].id \in CA
    BY UsedType DEF Used
  <2>2. Idle(d) /\ Copy(d) /\ Signed(d) /\ Marks(d)
    BY DEF Revocations
  <2>3. /\ task'[d].phase = task[d].phase /\ task'[d].serials = task[d].serials
        /\ task'[d].stale = (task[d].stale \/ (task[d].phase = "signed" /\ Used(d).id = a))
        /\ held'[d].op = held[d].op /\ held'[d].copy = held[d].copy
        /\ held'[d].removed = held[d].removed
        /\ held'[d].stale = (held[d].stale \/ (held[d].op # "none" /\ Used(d).id = a))
        /\ behind'[d] = (behind[d] \/ ca[d].id = a)
    <3>1. h[d] = held[d] /\ t[d] = task[d] /\ d # c
      OBVIOUS
    <3>2. /\ task'[d].phase = t[d].phase /\ task'[d].serials = t[d].serials
          /\ task'[d].stale = (t[d].stale \/ (d # c /\ t[d].phase = "signed" /\ Used(d).id = a))
          /\ held'[d].op = h[d].op /\ held'[d].copy = h[d].copy
          /\ held'[d].removed = h[d].removed
          /\ held'[d].stale = (h[d].stale \/ (d # c /\ h[d].op # "none" /\ Used(d).id = a))
          /\ behind'[d] = IF d = c THEN b ELSE behind[d] \/ ca[d].id = a
      BY OutdateKeeps
    <3>3. behind'[d] = (behind[d] \/ ca[d].id = a)
      BY <3>1, <3>2
    <3> QED
      BY <3>1, <3>2, <3>3
  <2>4. /\ held[d].op = "none" => held'[d] = held[d]
        /\ task[d].phase = "none" => task'[d] = task[d]
    BY DEF Outdate
  <2>5. /\ held[d].stale => held'[d].stale
        /\ task[d].stale => task'[d].stale
        /\ behind[d] => behind'[d]
    BY <2>3
  <2>6. held[d].op # "none" /\ ~held'[d].stale => On(rows'[Used(d).id]) = On(rows[Used(d).id])
    BY <1>1, <2>1, <2>3
  <2>7. task[d].phase = "signed" /\ ~task'[d].stale =>
          On(rows'[Used(d).id]) = On(rows[Used(d).id])
    BY <1>1, <2>1, <2>3
  <2>8. ~behind'[d] => On(rows'[ca[d].id]) = On(rows[ca[d].id])
    BY <1>1, <2>1, <2>3
  <2>9. Idle(d)' /\ Copy(d)' /\ Signed(d)'
    BY <1>2, <2>1, <2>2, <2>3, <2>4, <2>5, <2>6, <2>7, Frame
  <2>10. Marks(d)'
    BY <2>2, <2>3, <2>5, <2>8, MarksFrame
  <2> QED
    BY <2>9, <2>10
<1>4. NotYet'
  BY <1>1, SmallFacts DEF Revocations, NotYet, TypeOK
<1> QED
  BY <1>1, <1>3, <1>4 DEF Revocations

\* A client without an open dialog works on the object it shows.
LEMMA FreeFacts ==
  ASSUME TypeOK, Revocations, NEW c \in Client, Free(c)
  PROVE  /\ held[c] = NoList /\ held[c].op = "none" /\ task[c] = NoTask /\ task[c].phase = "none"
         /\ old[c] = NoObject /\ Used(c) = ca[c] /\ ca[c].id \in CA
         /\ (~behind[c] => marked[c] = ShownChildren(rows[ca[c].id]))
  BY UsedType DEF Revocations, Idle, Marks, Free, Used, NoList, NoTask

\* No list and no task is fine.
LEMMA NothingHeld ==
  /\ NoList.op = "none" /\ NoTask.phase = "none" /\ ~NoList.stale /\ NoList.removed = {}
  /\ NoList.copy = EmptyList /\ On(EmptyList) = {} /\ \A s \in Serial : DOMAIN EmptyList[s] = {}
  /\ Typed(EmptyList) /\ \A s \in Serial : ~(Len(EmptyList[s]) > 1)
<1>1. \A s \in Serial : EmptyList[s] = <<>> /\ Len(EmptyList[s]) = 0 /\ DOMAIN EmptyList[s] = {}
  BY DEF EmptyList
<1> QED
  BY <1>1 DEF NoList, NoTask, On, Typed

\* A new list that a handler or Manage revocations of c has read.
LEMMA NewCopy ==
  ASSUME TypeOK, NEW c \in Client, NEW op \in {"revoke", "unrevoke", "manage"},
         NEW list \in Lists(Number), NEW S \in SUBSET Serial, NEW r, held' = [held EXCEPT ![c] = r],
         r.op = op, r.copy = list, r.removed = S, r.stale = FALSE,
         task[c] = NoTask, old[c] = NoObject, UNCHANGED <<rows, ca, old, task, typed, calm, issued>>,
         Typed(list), On(rows[ca[c].id]) \ S \subseteq On(list),
         calm => Numbered(list, ca[c].id)
  PROVE  Idle(c)' /\ Copy(c)' /\ Signed(c)'
<1>1. /\ held'[c].op = op /\ held'[c].copy = list /\ held'[c].removed = S
      /\ Used(c)' = ca[c] /\ task'[c] = NoTask /\ task'[c].phase = "none" /\ old'[c] = NoObject
  BY NothingHeld DEF TypeOK, Used
<1>2. Idle(c)' /\ Signed(c)'
  BY <1>1 DEF Idle, Signed
<1>3. Copy(c)'
  <2>1. Typed(list)' /\ (calm' => Numbered(list, ca[c].id)')
    BY DEF Typed, Numbered, On, OnCrlsSince
  <2>2. On(rows[ca[c].id])' = On(rows[ca[c].id])
    BY DEF On
  <2> QED
    BY <1>1, <2>1, <2>2 DEF Copy, Typed, Numbered, On, OnCrlsSince
<1> QED
  BY <1>2, <1>3

LEMMA ReadSteps ==
  ASSUME TypeOK, Revocations, NEW c \in Client,
         \/ \E S \in SUBSET Child : Revoke(c, S) \/ UnRevoke(c, S)
         \/ OpenManage(c)
  PROVE  Revocations' /\ rows' = rows
<1> DEFINE a == ca[c].id
           list == FromSql(rows[a])
<1>1. /\ held[c].op = "none" /\ task[c] = NoTask /\ old[c] = NoObject /\ Used(c) = ca[c]
      /\ a \in CA /\ (~behind[c] => marked[c] = ShownChildren(rows[a]))
  BY FreeFacts DEF Revoke, UnRevoke, OpenManage
<1>2. /\ list \in Lists(Number) /\ On(list) = On(rows[a])
      /\ Typed(list) /\ (calm => Numbered(list, a))
  BY <1>1, ReadFacts DEF Revocations
<1>3. /\ UNCHANGED <<newest, rows, lastNo, issued, ca, old, task, behind, typed, calm>>
      /\ \A d \in Client \ {c} : held'[d] = held[d] /\ marked'[d] = marked[d]
  BY DEF Revoke, UnRevoke, OpenManage, db, history, TypeOK
<1>4. ASSUME NEW S \in SUBSET Child, Revoke(c, S)
      PROVE  Idle(c)' /\ Copy(c)' /\ Signed(c)' /\ Marks(c)'
  <2>1. S \in SUBSET Serial /\ marked'[c] = marked[c] \cup S
    BY <1>4, ChildAssumption DEF Revoke, TypeOK
  <2>2. CASE S \subseteq On(list)
    <3>1. held' = held
      BY <1>4, <2>2 DEF Revoke
    <3>2. Idle(c)' /\ Copy(c)' /\ Signed(c)'
      <4>1. Idle(c) /\ Copy(c) /\ Signed(c) /\ Used(c)' = Used(c)
        BY <1>3 DEF Revocations, Used
      <4>2. \A e \in CA : \A s \in On(rows[e]) : \A n \in Number :
              OnCrlsSince(e, s, n) => OnCrlsSince(e, s, n)'
        BY <1>3 DEF OnCrlsSince
      <4> QED
        BY <1>3, <3>1, <4>1, <4>2, Frame
    <3>3. Marks(c)'
      BY <1>1, <1>2, <1>3, <2>1, <2>2, <3>1 DEF Marks, ShownChildren
    <3> QED
      BY <3>2, <3>3
  <2>3. CASE ~(S \subseteq On(list))
    <3> DEFINE new == Merge(list, S)
           r == [NoList EXCEPT !.op = "revoke", !.copy = new]
    <3>1. /\ held' = [held EXCEPT ![c] = r]
          /\ r.op = "revoke" /\ r.copy = new /\ r.removed = {} /\ r.stale = FALSE
      BY <1>4, <2>3 DEF Revoke, NoList
    <3>2. /\ new \in Lists(Number) /\ On(new) = On(list) \cup S
          /\ Typed(new) /\ (calm => Numbered(new, a))
      BY <1>2, <2>1, MergeFacts, MergeKeeps
    <3> HIDE DEF new, list, r
    <3>3. Idle(c)' /\ Copy(c)' /\ Signed(c)'
      <4>1. On(rows[a]) \ {} \subseteq On(new) /\ {} \in SUBSET Serial
        BY <1>2, <3>2
      <4> QED
        BY <1>1, <1>3, <3>1, <3>2, <4>1, NewCopy
    <3>4. Marks(c)'
      <4>1. held'[c].op = "revoke" /\ held'[c].copy = new
        BY <3>1 DEF TypeOK
      <4> QED
        BY <1>1, <1>2, <1>3, <2>1, <3>2, <4>1 DEF Marks, ShownChildren
    <3> QED
      BY <3>3, <3>4
  <2> QED
    BY <2>2, <2>3
<1>5. ASSUME NEW S \in SUBSET Child, UnRevoke(c, S)
      PROVE  Idle(c)' /\ Copy(c)' /\ Signed(c)' /\ Marks(c)'
  <2> DEFINE new == TakeFirst(list, S)
             r == [NoList EXCEPT !.op = "unrevoke", !.removed = S, !.copy = new]
  <2>1. S \in SUBSET Serial
    BY ChildAssumption
  <2>2. /\ held' = [held EXCEPT ![c] = r]
        /\ r.op = "unrevoke" /\ r.copy = new /\ r.removed = S /\ r.stale = FALSE
    BY <1>5 DEF UnRevoke, NoList
  <2>3. /\ new \in Lists(Number) /\ On(rows[a]) \ S \subseteq On(new)
        /\ Typed(new) /\ (calm => Numbered(new, a))
    BY <1>2, <2>1, TakeFirstFacts, TakeFirstKeeps
  <2> HIDE DEF new, r, list
  <2>4. Idle(c)' /\ Copy(c)' /\ Signed(c)'
    <3>1. /\ task[c] = NoTask /\ old[c] = NoObject
          /\ UNCHANGED <<rows, ca, old, task, typed, calm, issued>>
      BY <1>1, <1>3
    <3>2. /\ new \in Lists(Number) /\ Typed(new) /\ On(rows[ca[c].id]) \ S \subseteq On(new)
          /\ (calm => Numbered(new, ca[c].id)) /\ "unrevoke" \in {"revoke", "unrevoke", "manage"}
      BY <2>3
    <3> HIDE DEF a
    <3> QED
      BY <2>1, <2>2, <3>1, <3>2, NewCopy
  <2>5. Marks(c)'
    BY <2>2 DEF Marks, TypeOK
  <2> QED
    BY <2>4, <2>5
<1>6. ASSUME OpenManage(c)
      PROVE  Idle(c)' /\ Copy(c)' /\ Signed(c)' /\ Marks(c)'
  <2> DEFINE r == [NoList EXCEPT !.op = "manage", !.copy = list]
  <2>1. /\ held' = [held EXCEPT ![c] = r]
        /\ r.op = "manage" /\ r.copy = list /\ r.removed = {} /\ r.stale = FALSE
    BY <1>6 DEF OpenManage, NoList
  <2> HIDE DEF r
  <2>2. Idle(c)' /\ Copy(c)' /\ Signed(c)'
    <3> HIDE DEF list
    <3>1. On(rows[a]) \ {} \subseteq On(list) /\ {} \in SUBSET Serial
      BY <1>2
    <3> QED
      BY <1>1, <1>2, <1>3, <2>1, <3>1, NewCopy
  <2>3. Marks(c)'
    <3>1. held'[c].op = "manage" /\ marked' = marked
      BY <1>6, <2>1 DEF OpenManage, TypeOK
    <3> QED
      BY <1>1, <1>3, <3>1 DEF Marks, ShownChildren
  <2> QED
    BY <2>2, <2>3
<1>7. Idle(c)' /\ Copy(c)' /\ Signed(c)' /\ Marks(c)'
  BY <1>4, <1>5, <1>6
<1> QED
  BY <1>3, <1>7, QuietStep

LEMMA EditSteps ==
  ASSUME TypeOK, Revocations, NEW c \in Client, NEW s \in Serial,
         AddRev(c, s) \/ DelRev(c, s) \/ EditRev(c, s)
  PROVE  Revocations' /\ rows' = rows
<1>1. /\ held'[c] \in Held /\ held' = [held EXCEPT ![c] = held'[c]]
      /\ Used(c)' = Used(c)
      /\ UNCHANGED <<db, ca, old, marked, task, behind, calm>>
      /\ typed \subseteq typed' /\ typed' \subseteq Serial
      /\ held'[c].op = held[c].op /\ held'[c].stale = held[c].stale
      /\ held[c].removed \subseteq held'[c].removed
      /\ On(held[c].copy) \ On(held'[c].copy) \subseteq held'[c].removed
      /\ \A r \in Serial :
           /\ Len(held'[c].copy[r]) > 1 => Len(held[c].copy[r]) > 1 \/ r \in typed'
           /\ \A i \in DOMAIN held'[c].copy[r] :
                held'[c].copy[r][i] # 0 =>
                  \E k \in DOMAIN held[c].copy[r] : held'[c].copy[r][i] = held[c].copy[r][k]
  BY EditType
<1>2. held[c].op = "manage" /\ UNCHANGED <<newest, rows, issued>>
  BY <1>1 DEF AddRev, DelRev, EditRev, Managing, db
<1>3. Idle(c) /\ Copy(c) /\ Signed(c) /\ Marks(c)
  BY DEF Revocations
<1>4. Idle(c)' /\ Signed(c)' /\ Marks(c)'
  BY <1>1, <1>2, <1>3 DEF Idle, Signed, Marks, On, ShownChildren
<1>5. Copy(c)'
  <2>1. Typed(held[c].copy)'
    BY <1>1, <1>3 DEF Copy, Typed
  <2>2. ASSUME ~held[c].stale, NEW a \in CA, a = Used(c).id
        PROVE  /\ On(rows[a]) \ held'[c].removed \subseteq On(held'[c].copy)
               /\ calm => \A r \in Serial : \A i \in DOMAIN held'[c].copy[r] :
                    held'[c].copy[r][i] # 0 =>
                      r \in On(rows[a]) /\ OnCrlsSince(a, r, held'[c].copy[r][i])
    BY <1>1, <1>2, <1>3, <2>2 DEF Copy, Numbered
  <2> QED
    BY <1>1, <1>2, <2>1, <2>2, UsedType DEF Copy, Numbered, On, OnCrlsSince
<1>6. \A d \in Client \ {c} : held'[d] = held[d]
  BY <1>1 DEF TypeOK
<1> QED
  BY <1>1, <1>2, <1>4, <1>5, <1>6, QuietStep

LEMMA CopyKept ==
  ASSUME TypeOK, NEW c \in Client, Copy(c), held'[c] = held[c],
         held[c].op # "none" => Used(c)'.id = Used(c).id,
         UNCHANGED <<rows, typed, calm, issued>>
  PROVE  Copy(c)'
<1>1. Typed(held[c].copy)'
  BY DEF Copy, Typed
<1>2. ASSUME held[c].op # "none", ~held[c].stale, NEW a \in CA, a = Used(c).id
      PROVE  /\ On(rows[a]) \ held[c].removed \subseteq On(held[c].copy)
             /\ calm => \A r \in Serial : \A i \in DOMAIN held[c].copy[r] :
                  held[c].copy[r][i] # 0 =>
                    r \in On(rows[a]) /\ OnCrlsSince(a, r, held[c].copy[r][i])
  BY <1>2 DEF Copy, Numbered
<1> QED
  BY <1>1, <1>2, UsedType DEF Copy, Numbered, On, OnCrlsSince

\* SignCrl() keeps the CA the client works on.
LEMMA SignUsed ==
  ASSUME TypeOK, NEW c \in Client, NEW n \in 0..MaxNo, SignCrl(c, n)
  PROVE  Used(c)'.id = Used(c).id /\ ca'[c].id = ca[c].id
<1>1. n \in Number /\ ca[c] \in Object /\ (old[c] # NoObject => old[c] \in Object)
  BY DEF Number, TypeOK
<1>2. CASE old[c] = NoObject
  BY <1>1, <1>2, SetCrlNumberType DEF SignCrl, Used, TypeOK
<1>3. CASE old[c] # NoObject
  <2>1. SetCrlNumber(old[c], n) \in Object /\ SetCrlNumber(old[c], n).id = old[c].id
    BY <1>1, <1>3, SetCrlNumberType
  <2>2. SetCrlNumber(old[c], n) # NoObject
    BY <2>1, SmallFacts DEF NoObject, Object, CA
  <2>3. old'[c] = SetCrlNumber(old[c], n) /\ ca' = ca
    BY <1>3 DEF SignCrl, TypeOK
  <2> QED
    BY <1>3, <2>1, <2>2, <2>3 DEF Used
<1> QED
  BY <1>2, <1>3

LEMMA TaskSteps ==
  ASSUME TypeOK, Revocations, NEW c \in Client,
         \/ ManageCancel(c) \/ OpenCrl(c) \/ DropCrl(c)
         \/ \E n \in 0..MaxNo : SignCrl(c, n)
  PROVE  Revocations' /\ rows' = rows
<1>1. Idle(c) /\ Copy(c) /\ Signed(c) /\ Marks(c)
  BY DEF Revocations
<1>2. UNCHANGED <<newest, rows, issued, marked, behind, typed, calm>>
  BY DEF ManageCancel, OpenCrl, DropCrl, SignCrl, db, history
<1>3. \A d \in Client \ {c} : /\ held'[d] = held[d] /\ task'[d] = task[d]
                              /\ old'[d] = old[d] /\ ca'[d] = ca[d]
  BY DEF ManageCancel, OpenCrl, DropCrl, SignCrl, EndTask, TypeOK
<1>4. CASE ManageCancel(c)
  <2>1. /\ held'[c] = NoList /\ task'[c] = NoTask /\ old'[c] = NoObject
        /\ held[c].op = "manage" /\ ca' = ca
    BY <1>4 DEF ManageCancel, Managing, TypeOK
  <2>2. Idle(c)' /\ Signed(c)'
    BY <2>1, NothingHeld DEF Idle, Signed
  <2>3. Copy(c)'
    BY <2>1, NothingHeld DEF Copy, Typed
  <2>4. Marks(c)'
    BY <1>1, <1>2, <2>1, NothingHeld, MarksFrame
  <2> QED
    BY <1>2, <1>3, <2>2, <2>3, <2>4, QuietStep
<1>5. CASE OpenCrl(c)
  <2>1. /\ held[c] = NoList /\ held[c].op = "none" /\ held' = held
        /\ task'[c] = NewTask(c) /\ UNCHANGED <<ca, old>>
    BY <1>5, FreeFacts DEF OpenCrl, TypeOK
  <2>2. task'[c].phase = "open" /\ task'[c] # NoTask
    BY <1>5, <2>1, NewTaskType, NothingHeld DEF OpenCrl
  <2>3. Idle(c)' /\ Signed(c)'
    BY <2>1, <2>2 DEF Idle, Signed
  <2>4. Copy(c)'
    BY <1>1, <1>2, <2>1, CopyKept
  <2>5. Marks(c)'
    BY <1>1, <1>2, <2>1, MarksFrame
  <2> QED
    BY <1>2, <1>3, <2>3, <2>4, <2>5, QuietStep
<1>6. CASE DropCrl(c)
  <2>1. /\ task[c] # NoTask /\ task'[c] = NoTask /\ task'[c].phase = "none"
        /\ held' = held /\ ca' = ca
        /\ old'[c] = IF held[c].op = "manage" THEN old[c] ELSE NoObject
    BY <1>6, NothingHeld DEF DropCrl, EndTask, TypeOK
  <2>2. (held[c].op = "none" /\ held[c] = NoList) \/ held[c].op = "manage"
    BY <1>1, <2>1, HeldType DEF Idle, Held
  <2>3. Idle(c)' /\ Signed(c)'
    BY <2>1, <2>2 DEF Idle, Signed
  <2>4. Copy(c)'
    <3>1. held[c].op # "none" => Used(c)' = Used(c)
      BY <2>1, <2>2 DEF Used
    <3> QED
      BY <1>1, <1>2, <2>1, <3>1, CopyKept
  <2>5. Marks(c)'
    BY <1>1, <1>2, <2>1, MarksFrame
  <2> QED
    BY <1>2, <1>3, <2>3, <2>4, <2>5, QuietStep
<1>7. ASSUME NEW n \in 0..MaxNo, SignCrl(c, n)
      PROVE  Revocations'
  <2>1. Used(c)'.id = Used(c).id /\ ca'[c].id = ca[c].id
    BY <1>7, SignUsed
  <2>2. /\ task[c].phase = "open" /\ held' = held
        /\ task'[c].phase = "signed" /\ task'[c].serials = On(rows[Used(c).id])
    BY <1>7 DEF SignCrl, TypeOK
  <2>3. task[c] # NoTask /\ task'[c] # NoTask
    BY <2>2, NothingHeld
  <2>4. Idle(c)'
    BY <1>1, <2>2, <2>3 DEF Idle
  <2>5. Signed(c)'
    BY <1>2, <2>1, <2>2 DEF Signed, On
  <2>6. Copy(c)'
    BY <1>1, <1>2, <2>1, <2>2, CopyKept
  <2>7. Marks(c)'
    BY <1>1, <1>2, <2>1, <2>2, MarksFrame
  <2> QED
    BY <1>2, <1>3, <2>4, <2>5, <2>6, <2>7, QuietStep
<1> QED
  BY <1>2, <1>4, <1>5, <1>6, <1>7

LEMMA LoadSteps ==
  ASSUME TypeOK, Revocations, NEW c \in Client, Reload(c) \/ Restart(c)
  PROVE  Revocations' /\ rows' = rows
<1>1. Idle(c) /\ Copy(c) /\ Signed(c) /\ Marks(c)
  BY DEF Revocations
<1>2. UNCHANGED <<newest, rows, issued, typed, calm>>
  BY DEF Reload, Restart, db
<1>3. \A d \in Client \ {c} : /\ held'[d] = held[d] /\ task'[d] = task[d]
                              /\ old'[d] = old[d] /\ ca'[d] = ca[d]
                              /\ marked'[d] = marked[d] /\ behind'[d] = behind[d]
  BY DEF Reload, Restart, Load, TypeOK
<1>4. ca'[c].id = newest /\ marked'[c] = ShownChildren(rows[newest])
  BY DEF Reload, Restart, Load, TypeOK
<1>5. CASE Reload(c)
  <2>1. /\ held' = held /\ task' = task /\ held[c].op \in {"none", "manage"}
        /\ old'[c] = IF Free(c) THEN old[c] ELSE Used(c)
    BY <1>5 DEF Reload, TypeOK
  <2>2. ~Free(c) => Used(c)' = Used(c)
    <3>1. Used(c) # NoObject
      BY UsedType, SmallFacts DEF NoObject, CA
    <3> QED
      BY <2>1, <3>1 DEF Used
  <2>3. /\ held[c].op = "none" => held[c] = NoList
        /\ Free(c) => held[c].op = "none" /\ task[c].phase = "none" /\ old[c] = NoObject
    BY <1>1, FreeFacts DEF Idle
  <2>4. Idle(c)'
    BY <1>1, <2>1, <2>3 DEF Idle, Free
  <2>5. Signed(c)'
    BY <1>1, <1>2, <2>1, <2>2, <2>3 DEF Signed, On
  <2>6. Copy(c)'
    BY <1>1, <1>2, <2>1, <2>2, <2>3, CopyKept
  <2>7. Marks(c)'
    BY <1>2, <1>4, <2>1 DEF Marks, ShownChildren, On
  <2> QED
    BY <1>2, <1>3, <2>4, <2>5, <2>6, <2>7, QuietStep
<1>6. CASE Restart(c)
  <2>1. held'[c] = NoList /\ task'[c] = NoTask /\ old'[c] = NoObject
    BY <1>6 DEF Restart, TypeOK
  <2>2. Idle(c)' /\ Signed(c)' /\ Copy(c)'
    BY <2>1, NothingHeld DEF Idle, Signed, Copy, Typed
  <2>3. Marks(c)'
    BY <1>2, <1>4, <2>1, NothingHeld DEF Marks, ShownChildren, On
  <2> QED
    BY <1>2, <1>3, <2>2, <2>3, QuietStep
<1> QED
  BY <1>2, <1>5, <1>6

\* The acting client when its list is written and it holds none any more.
LEMMA NothingLeft ==
  ASSUME NEW c \in Client, held'[c] = NoList, task'[c] = NoTask, old'[c] = NoObject
  PROVE  Idle(c)' /\ Copy(c)' /\ Signed(c)'
  BY NothingHeld DEF Idle, Copy, Signed, Typed

LEMMA RevokeWritesStep ==
  ASSUME TypeOK, Stored, Revocations, NEW c \in Client, RevokeWrites(c)
  PROVE  Revocations'
<1> DEFINE a == ca[c].id
           list == held[c].copy
           h == [held EXCEPT ![c] = NoList]
<1>1. /\ held[c].op = "revoke" /\ Used(c) = ca[c] /\ task[c] = NoTask /\ old[c] = NoObject
      /\ a \in CA /\ a <= newest /\ list \in Lists(Number) /\ Typed(list)
      /\ (~behind[c] => marked[c] = ShownChildren(list))
      /\ (calm /\ ~held[c].stale => Numbered(list, a))
  BY UsedType, HeldType DEF RevokeWrites, Revocations, Idle, Copy, Marks, Stored, Used
<1>2. /\ UNCHANGED <<newest, lastNo, issued, ca, old, marked, typed>>
  BY DEF RevokeWrites
<1>3. /\ h \in [Client -> Held] /\ h[c] = NoList /\ task \in [Client -> Task]
      /\ \A d \in Client \ {c} : h[d] = held[d]
  BY NothingTypes DEF TypeOK
<1>4. CASE /\ rows' = [rows EXCEPT ![a] = SqlUpdate(list, @)]
           /\ Outdate(c, a, h, task, behind[c]) /\ calm' = (calm /\ ~held[c].stale)
  <2>1. held'[c] = NoList /\ task'[c] = NoTask /\ behind'[c] = behind[c]
    BY <1>1, <1>3, <1>4 DEF Outdate
  <2>2. calm' => calm /\ ~held[c].stale
    <3>1. calm' = (calm /\ ~held[c].stale)
      BY <1>4
    <3> QED
      BY <3>1, Zenon
  <2>3. Idle(c)' /\ Copy(c)' /\ Signed(c)'
    BY <1>1, <1>2, <2>1, NothingLeft
  <2>4. On(rows'[a]) = On(list) => Marks(c)'
    BY <1>1, <1>2, <2>1, NothingHeld DEF Marks, ShownChildren, On
  <2>5. calm' => \A s \in Serial : \A i \in DOMAIN list[s] :
          list[s][i] # 0 => OnCrlsSince(a, s, list[s][i])
    BY <1>1, <2>2 DEF Numbered
  <2>6. Rewrites(a, list) /\ Outdate(c, a, h, task, behind[c])
    BY <1>4 DEF Rewrites
  <2>7. \A d \in Client \ {c} : /\ h[d] = held[d] /\ task[d] = task[d]
                                /\ old'[d] = old[d] /\ ca'[d] = ca[d] /\ marked'[d] = marked[d]
    BY <1>2, <1>3
  <2>8. a \in CA /\ a <= newest /\ list \in Lists(Number) /\ Typed(list)
    BY <1>1
  <2>9. On(rows'[a]) = On(list) => Idle(c)' /\ Copy(c)' /\ Signed(c)' /\ Marks(c)'
    BY <2>3, <2>4
  <2>10. UNCHANGED <<newest, issued, typed>> /\ (calm' => calm)
    BY <1>2, <2>2
  <2> HIDE DEF a, list, h
  <2> QED
    BY <1>3, <2>5, <2>6, <2>7, <2>8, <2>9, <2>10, WriteStep
<1>5. CASE /\ held' = [held EXCEPT ![c] = NoList] /\ behind' = [behind EXCEPT ![c] = TRUE]
           /\ UNCHANGED <<rows, task, calm>>
  <2>1. held'[c] = NoList /\ task'[c] = NoTask /\ behind'[c] /\ old'[c] = NoObject
    BY <1>1, <1>2, <1>5 DEF TypeOK
  <2>2. Idle(c)' /\ Copy(c)' /\ Signed(c)' /\ Marks(c)'
    BY <2>1, NothingLeft DEF Marks
  <2>3. \A d \in Client \ {c} : held'[d] = held[d] /\ behind'[d] = behind[d]
    BY <1>5 DEF TypeOK
  <2> QED
    BY <1>2, <1>5, <2>2, <2>3, QuietStep
<1> QED
  BY <1>4, <1>5 DEF RevokeWrites

\* setRevocations(), whether the dialog is closed or goes on to a CRL.
LEMMA SetRevocationsStep ==
  ASSUME TypeOK, Stored, Revocations, NEW c \in Client,
         NEW next \in Held, NEW t \in [Client -> Task],
         SetRevocations(c, next, t), held[c].op \in {"manage", "unrevoke"},
         \A d \in Client \ {c} : t[d] = task[d] /\ old'[d] = old[d],
         \/ next = NoList /\ t[c] = NoTask /\ old'[c] = NoObject
         \/ /\ held[c].op = "manage" /\ next.op = "manage" /\ next.copy = held[c].copy
            /\ next.removed = {} /\ t[c].phase = "open" /\ old'[c] = old[c]
  PROVE  Revocations'
<1> DEFINE a == Used(c).id
           list == held[c].copy
           h == [held EXCEPT ![c] = next]
           shown == old[c] = NoObject
           b == IF shown THEN FALSE ELSE behind[c] \/ ca[c].id = a
<1>1. /\ a \in CA /\ a <= newest /\ list \in Lists(Number) /\ Typed(list)
      /\ (calm /\ ~held[c].stale => Numbered(list, a))
      /\ (shown => a = ca[c].id) /\ (~shown => held[c].op = "manage")
      /\ (~shown /\ ~behind[c] => marked[c] = ShownChildren(rows[ca[c].id]))
      /\ ca[c].id \in CA
  BY UsedType, HeldType DEF Revocations, Idle, Copy, Marks, Stored, Used
<1>2. UNCHANGED <<newest, issued, ca, typed>>
  BY DEF SetRevocations
<1>3. \A d \in Client \ {c} : marked'[d] = marked[d]
  BY DEF SetRevocations, TypeOK
<1>4. /\ shown => marked'[c] = ShownChildren(list)
      /\ ~shown => marked'[c] = marked[c]
  BY DEF SetRevocations, TypeOK
<1>5. h \in [Client -> Held] /\ h[c] = next /\ \A d \in Client \ {c} : h[d] = held[d]
  BY DEF TypeOK
<1>6. CASE /\ rows' = [rows EXCEPT ![a] = SqlUpdate(list, @)]
           /\ Outdate(c, a, h, t, b) /\ calm' = (calm /\ ~held[c].stale)
  <2>1. held'[c] = next /\ task'[c] = t[c] /\ behind'[c] = b
    BY <1>5, <1>6 DEF Outdate
  <2>2. calm' => calm /\ ~held[c].stale
    <3>1. calm' = (calm /\ ~held[c].stale)
      BY <1>6
    <3> QED
      BY <3>1, Zenon
  <2>3. ASSUME On(rows'[a]) = On(list) PROVE Idle(c)' /\ Copy(c)' /\ Signed(c)'
    <3>1. CASE next = NoList /\ t[c] = NoTask /\ old'[c] = NoObject
      BY <2>1, <3>1, NothingLeft
    <3>2. CASE /\ held[c].op = "manage" /\ next.op = "manage" /\ next.copy = held[c].copy
               /\ next.removed = {} /\ t[c].phase = "open" /\ old'[c] = old[c]
      <4>1. Used(c)' = Used(c) /\ task'[c] # NoTask
        BY <1>2, <2>1, <3>2, NothingHeld DEF Used
      <4>2. Idle(c)' /\ Signed(c)'
        BY <2>1, <3>2, <4>1 DEF Idle, Signed
      <4>3. On(rows[a])' \ held'[c].removed \subseteq On(held'[c].copy)
        BY <2>1, <2>3, <3>2, <4>1 DEF On
      <4>4. calm' => Numbered(list, a)'
        <5>1. calm' => Numbered(list, a)
          BY <1>1, <2>2
        <5>2. \A s \in Serial : list[s] \in Seq(Number)
          BY <1>1 DEF Lists
        <5> HIDE DEF list
        <5>3. \A s \in Serial : \A i \in DOMAIN list[s] : s \in On(list)
          BY <5>2 DEF On
        <5>4. calm' => \A s \in Serial : \A i \in DOMAIN list[s] : list[s][i] # 0 =>
                         s \in On(rows'[a]) /\ OnCrlsSince(a, s, list[s][i])
          BY <2>3, <5>1, <5>3 DEF Numbered
        <5>5. list' = list
          BY <2>1, <3>2 DEF list
        <5> QED
          BY <1>2, <4>1, <5>4, <5>5 DEF Numbered, On, OnCrlsSince
      <4>5. Typed(list)'
        BY <1>1, <1>2, <2>1, <3>2 DEF Typed
      <4>6. held'[c].copy = list /\ Used(c)'.id = a
        BY <2>1, <3>2, <4>1
      <4> QED
        BY <4>2, <4>3, <4>4, <4>5, <4>6 DEF Copy, On
    <3> QED
      BY <3>1, <3>2
  <2>4. ASSUME On(rows'[a]) = On(list) PROVE Marks(c)'
    <3>1. held'[c].op \in {"none", "manage"}
      BY <2>1, NothingHeld
    <3>2. ~shown /\ ca[c].id # a => rows'[ca[c].id] = rows[ca[c].id]
      BY <1>1, <1>6 DEF TypeOK
    <3>3. CASE shown
      BY <1>1, <1>2, <1>4, <2>4, <3>1, <3>3 DEF Marks, ShownChildren, On
    <3>4. CASE ~shown
      BY <1>1, <1>2, <1>4, <2>1, <3>1, <3>2, <3>4 DEF Marks, ShownChildren, On
    <3> QED
      BY <3>3, <3>4
  <2>5. calm' => \A s \in Serial : \A i \in DOMAIN list[s] :
          list[s][i] # 0 => OnCrlsSince(a, s, list[s][i])
    BY <1>1, <2>2 DEF Numbered
  <2>6. Rewrites(a, list) /\ Outdate(c, a, h, t, b)
    BY <1>6 DEF Rewrites
  <2>7. \A d \in Client \ {c} : /\ h[d] = held[d] /\ t[d] = task[d]
                                /\ old'[d] = old[d] /\ ca'[d] = ca[d] /\ marked'[d] = marked[d]
    BY <1>2, <1>3, <1>5
  <2>8. a \in CA /\ a <= newest /\ list \in Lists(Number) /\ Typed(list)
    BY <1>1
  <2>9. On(rows'[a]) = On(list) => Idle(c)' /\ Copy(c)' /\ Signed(c)' /\ Marks(c)'
    BY <2>3, <2>4
  <2>10. UNCHANGED <<newest, issued, typed>> /\ (calm' => calm)
    BY <1>2, <2>2
  <2> HIDE DEF a, list, h, b
  <2> QED
    BY <1>5, <2>5, <2>6, <2>7, <2>8, <2>9, <2>10, WriteStep
<1>7. CASE /\ held' = [held EXCEPT ![c] = IF @.op = "manage" /\ next # NoList THEN @ ELSE next]
           /\ task' = t /\ behind' = [behind EXCEPT ![c] = @ \/ shown]
           /\ UNCHANGED <<rows, calm>>
  <2>1. /\ \A d \in Client \ {c} : held'[d] = held[d] /\ behind'[d] = behind[d]
        /\ behind'[c] = (behind[c] \/ shown) /\ task'[c] = t[c]
        /\ held'[c] = IF held[c].op = "manage" /\ next # NoList THEN held[c] ELSE next
    BY <1>7 DEF TypeOK
  <2>2. Idle(c)' /\ Copy(c)' /\ Signed(c)'
    <3>1. CASE next = NoList /\ t[c] = NoTask /\ old'[c] = NoObject
      BY <2>1, <3>1, NothingLeft
    <3>2. CASE /\ held[c].op = "manage" /\ next.op = "manage"
               /\ t[c].phase = "open" /\ old'[c] = old[c]
      <4>1. Used(c)' = Used(c) /\ task'[c] # NoTask /\ held'[c] = held[c]
        BY <1>2, <2>1, <3>2, NothingHeld DEF Used
      <4>2. Idle(c)' /\ Signed(c)'
        BY <2>1, <3>2, <4>1 DEF Idle, Signed
      <4>3. Copy(c)'
        BY <1>2, <1>7, <4>1, CopyKept DEF Revocations
      <4> QED
        BY <4>2, <4>3
    <3> QED
      BY <3>1, <3>2
  <2>3. Marks(c)'
    <3>1. held'[c].op \in {"none", "manage"}
      BY <2>1, NothingHeld
    <3> QED
      BY <1>1, <1>2, <1>4, <1>7, <2>1, <3>1 DEF Marks, ShownChildren, On
  <2>4. \A d \in Client \ {c} : task'[d] = task[d] /\ ca'[d] = ca[d]
    BY <1>2, <1>7
  <2> QED
    BY <1>2, <1>3, <1>7, <2>1, <2>2, <2>3, <2>4, QuietStep
<1> QED
  BY <1>6, <1>7 DEF SetRevocations

LEMMA WriteSteps ==
  ASSUME TypeOK, Stored, Revocations, NEW c \in Client,
         UnRevokeWrites(c) \/ ManageOk(c) \/ GenerateFromManage(c)
  PROVE  Revocations'
<1>1. /\ task \in [Client -> Task] /\ NoList \in Held /\ Idle(c)
  BY NothingTypes DEF TypeOK, Revocations
<1>2. CASE UnRevokeWrites(c)
  <2>1. /\ SetRevocations(c, NoList, task) /\ held[c].op = "unrevoke" /\ old' = old
        /\ task[c] = NoTask /\ old[c] = NoObject
    BY <1>1, <1>2 DEF UnRevokeWrites, Idle
  <2> QED
    BY <1>1, <2>1, SetRevocationsStep
<1>3. CASE ManageOk(c)
  <2>1. /\ SetRevocations(c, NoList, task) /\ held[c].op = "manage" /\ task[c] = NoTask
        /\ old'[c] = NoObject /\ \A d \in Client \ {c} : old'[d] = old[d]
    BY <1>3 DEF ManageOk, Managing, TypeOK
  <2> QED
    BY <1>1, <2>1, SetRevocationsStep
<1>4. CASE GenerateFromManage(c)
  <2> DEFINE next == [held[c] EXCEPT !.removed = {}, !.stale = FALSE]
             t == [task EXCEPT ![c] = NewTask(c)]
  <2>1. /\ next \in Held /\ next.op = held[c].op /\ next.copy = held[c].copy
        /\ next.removed = {}
    BY HeldType DEF Held
  <2>2. NewTask(c) \in Task /\ NewTask(c).phase = "open"
    BY <1>4, NewTaskType DEF GenerateFromManage
  <2>3. /\ t \in [Client -> Task] /\ t[c].phase = "open"
        /\ \A d \in Client \ {c} : t[d] = task[d]
    BY <1>1, <2>2
  <2>4. SetRevocations(c, next, t) /\ held[c].op = "manage" /\ old' = old
    BY <1>4 DEF GenerateFromManage, Managing
  <2> HIDE DEF next, t
  <2> QED
    BY <2>1, <2>3, <2>4, SetRevocationsStep
<1> QED
  BY <1>2, <1>3, <1>4

LEMMA ImportStep ==
  ASSUME TypeOK, Stored, Revocations, NEW c \in Client, NEW S \in SUBSET Serial, ImportCrl(c, S)
  PROVE  Revocations'
<1> DEFINE a == ca[c].id
           read == FromSql(rows[a])
           list == Merge(read, S)
<1>1. /\ held[c] = NoList /\ held[c].op = "none" /\ task[c] = NoTask /\ task[c].phase = "none"
      /\ old[c] = NoObject /\ a \in CA /\ a <= newest
      /\ (~behind[c] => marked[c] = ShownChildren(rows[a]))
  BY FreeFacts DEF ImportCrl, Stored
<1>2. /\ read \in Lists(Number) /\ On(read) = On(rows[a])
      /\ Typed(read) /\ (calm => Numbered(read, a))
  BY <1>1, ReadFacts DEF Revocations
<1>3. /\ list \in Lists(Number) /\ On(list) = On(rows[a]) \cup S
      /\ Typed(list) /\ (calm => Numbered(list, a))
  BY <1>2, MergeFacts, MergeKeeps
<1>4. /\ UNCHANGED <<newest, lastNo, issued, ca, old, typed, calm>>
      /\ \A d \in Client \ {c} : marked'[d] = marked[d]
      /\ marked'[c] = marked[c] \cup (S \cap Child)
  BY DEF ImportCrl, TypeOK
<1>5. CASE S \subseteq On(read) /\ UNCHANGED <<rows, held, task, behind>>
  <2>1. Idle(c)' /\ Copy(c)' /\ Signed(c)'
    BY <1>1, <1>4, <1>5, NothingLeft
  <2>2. Marks(c)'
    BY <1>1, <1>2, <1>4, <1>5 DEF Marks, ShownChildren, On
  <2> QED
    BY <1>4, <1>5, <2>1, <2>2, QuietStep
<1>6. CASE rows' = [rows EXCEPT ![a] = SqlUpdate(list, @)] /\ Outdate(c, a, held, task, behind[c])
  <2>1. held'[c] = NoList /\ task'[c] = NoTask /\ behind'[c] = behind[c]
    BY <1>1, <1>6 DEF Outdate
  <2>2. Idle(c)' /\ Copy(c)' /\ Signed(c)'
    BY <1>1, <1>4, <2>1, NothingLeft
  <2>3. On(rows'[a]) = On(list) => Marks(c)'
    BY <1>1, <1>3, <1>4, <2>1, NothingHeld DEF Marks, ShownChildren, On
  <2>4. held \in [Client -> Held] /\ task \in [Client -> Task]
    BY DEF TypeOK
  <2>5. Rewrites(a, list) /\ Outdate(c, a, held, task, behind[c])
    BY <1>6 DEF Rewrites
  <2>6. calm' => \A s \in Serial : \A i \in DOMAIN list[s] :
          list[s][i] # 0 => OnCrlsSince(a, s, list[s][i])
    BY <1>3, <1>4 DEF Numbered
  <2>7. On(rows'[a]) = On(list) => Idle(c)' /\ Copy(c)' /\ Signed(c)' /\ Marks(c)'
    BY <2>2, <2>3
  <2>8. \A d \in Client \ {c} : /\ held[d] = held[d] /\ task[d] = task[d]
                                /\ old'[d] = old[d] /\ ca'[d] = ca[d] /\ marked'[d] = marked[d]
    BY <1>4
  <2>9. a \in CA /\ a <= newest /\ list \in Lists(Number) /\ Typed(list)
        /\ UNCHANGED <<newest, issued, typed>> /\ (calm' => calm)
    BY <1>1, <1>3, <1>4
  <2> HIDE DEF a, list
  <2> QED
    BY <2>4, <2>5, <2>6, <2>7, <2>8, <2>9, WriteStep
<1> QED
  BY <1>5, <1>6 DEF ImportCrl

LEMMA RenewStep ==
  ASSUME TypeOK, Stored, Revocations, NEW c \in Client, Renew(c)
  PROVE  Revocations'
<1> DEFINE a == newest + 1
<1>1. /\ newest \in CA /\ newest \in Nat /\ a \in CA /\ newest' = a /\ a # newest
      /\ \A e \in CA : e <= newest => e # a
      /\ \A e \in CA : e > a => e > newest /\ e # a
  BY BoundsAssumption DEF TypeOK, Renew, CA
<1>2. /\ held[c] = NoList /\ task[c] = NoTask /\ old[c] = NoObject
  BY FreeFacts DEF Renew
<1>3. /\ Inherited \in Lists(Number)
      /\ \A s \in Serial : ~(Len(Inherited[s]) > 1)
      /\ \A s \in Serial : \A i \in DOMAIN Inherited[s] :
           \E e \in 1..newest : /\ e \in CA /\ rows[e][s] # <<>>
                                /\ Inherited[s][i] \in {rows[e][s][1], 0}
  <2>1. \A s \in Serial : Len(Inherited[s]) \in Nat /\ Len(Inherited[s]) <= 1
    BY InheritedFacts DEF Lists
  <2> QED
    BY <2>1, InheritedFacts
<1>4. /\ rows' = [rows EXCEPT ![a] = SqlUpdate(Inherited, @)]
      /\ UNCHANGED <<issued, old, held, task, behind, typed, calm>>
      /\ ca'[c].id = a /\ marked'[c] = ShownChildren(Inherited)
      /\ \A d \in Client \ {c} : ca'[d] = ca[d] /\ marked'[d] = marked[d]
  BY DEF Renew, TypeOK, history
<1>5. ASSUME calm, NEW s \in Serial, NEW i \in DOMAIN Inherited[s], Inherited[s][i] # 0
      PROVE  OnCrlsSince(a, s, Inherited[s][i])
  <2>1. PICK e \in 1..newest : /\ e \in CA /\ rows[e][s] # <<>>
                               /\ Inherited[s][i] \in {rows[e][s][1], 0}
    BY <1>3
  <2>2. Inherited[s][i] = rows[e][s][1] /\ Inherited[s][i] \in Number
    <3>1. Inherited[s] \in Seq(Number)
      BY <1>3 DEF Lists
    <3> QED
      BY <1>5, <2>1, <3>1
  <2>3. 1 \in DOMAIN rows[e][s]
    <3>1. rows[e][s] \in Seq(Number \cup {Null})
      BY <2>1, RowsType DEF Lists
    <3> QED
      BY <2>1, <3>1
  <2>4. OnCrlsSince(e, s, rows[e][s][1])
    BY <1>5, <2>1, <2>2, <2>3, SmallFacts DEF Revocations, OnEveryCrlSince, OnCrlsSince
  <2>5. \A k \in issued : k.ca \in CA /\ k.ca # a
    BY <1>1 DEF TypeOK, Stored
  <2>6. e \in Nat /\ e <= a /\ \A j \in CA : j <= e => j <= a
    BY <1>1, <2>1, SmallFacts
  <2> QED
    BY <2>2, <2>4, <2>5, <2>6 DEF OnCrlsSince
<1>6. /\ DuplicatesAreTyped' /\ OnEveryCrlSince'
      /\ On(rows'[a]) = On(Inherited) /\ \A e \in CA \ {a} : rows'[e] = rows[e]
  <2>1. Typed(Inherited)
    BY <1>3 DEF Typed
  <2>2. a \in CA /\ DuplicatesAreTyped /\ OnEveryCrlSince
    BY <1>1 DEF Revocations
  <2> HIDE DEF a
  <2> QED
    BY <1>3, <1>4, <1>5, <2>1, <2>2, WriteFacts
<1>7. NotYet'
  BY <1>1, <1>6 DEF Revocations, NotYet
<1>8. \A e \in CA : \A s \in On(rows[e]) : \A n \in Number :
        OnCrlsSince(e, s, n) => OnCrlsSince(e, s, n)'
  BY <1>4 DEF OnCrlsSince
<1>9. ASSUME NEW d \in Client \ {c} PROVE Idle(d)' /\ Copy(d)' /\ Signed(d)' /\ Marks(d)'
  <2>1. /\ Used(d)' = Used(d) /\ ca'[d] = ca[d] /\ Used(d).id \in CA \ {a} /\ ca[d].id \in CA \ {a}
    BY <1>1, <1>4, UsedType DEF Used, Stored
  <2>2. Idle(d) /\ Copy(d) /\ Signed(d) /\ Marks(d)
    BY DEF Revocations
  <2>3. rows'[Used(d).id] = rows[Used(d).id] /\ rows'[ca[d].id] = rows[ca[d].id]
    BY <1>6, <2>1
  <2>4. Idle(d)' /\ Copy(d)' /\ Signed(d)'
    BY <1>4, <1>8, <2>1, <2>2, <2>3, Frame
  <2>5. Marks(d)'
    BY <1>4, <2>1, <2>2, <2>3, MarksFrame
  <2> QED
    BY <2>4, <2>5
<1>10. Idle(c)' /\ Copy(c)' /\ Signed(c)'
  BY <1>2, <1>4, NothingLeft
<1>11. Marks(c)'
  BY <1>2, <1>4, <1>6, NothingHeld DEF Marks, ShownChildren, On
<1> QED
  BY <1>6, <1>7, <1>9, <1>10, <1>11 DEF Revocations

LEMMA CommitStep ==
  ASSUME TypeOK, Numbers, Revocations, NEW c \in Client, CommitCrl(c)
  PROVE  Revocations' /\ \A e \in CA : On(rows'[e]) = On(rows[e])
<1> DEFINE a == Used(c).id
           no == task[c].no
           crl == [ca |-> a, no |-> no, serials |-> task[c].serials]
<1>1. /\ a \in CA /\ no \in Number /\ no \in Nat /\ lastNo[a] \in Nat /\ task[c].phase = "signed"
      /\ Idle(c) /\ Copy(c) /\ Signed(c) /\ Marks(c)
  BY UsedType, HeldType, SmallFacts DEF CommitCrl, TypeOK, Revocations
<1>2. /\ \A e \in CA : On(rows'[e]) = On(rows[e])
      /\ \A e \in CA, s \in Serial :
           /\ Len(rows'[e][s]) = Len(rows[e][s])
           /\ DOMAIN rows'[e][s] = DOMAIN rows[e][s]
           /\ \A i \in DOMAIN rows[e][s] :
                \/ rows'[e][s][i] = rows[e][s][i] /\ (e = a => rows[e][s][i] # Null)
                \/ e = a /\ rows'[e][s][i] = no
  BY NumberRowsFacts DEF CommitCrl
<1>3. /\ UNCHANGED <<newest, marked, held, behind, typed>>
      /\ task'[c] = NoTask /\ \A d \in Client \ {c} : task'[d] = task[d]
      /\ issued' = IF no = 0 THEN issued ELSE issued \cup {crl}
  BY DEF CommitCrl, TypeOK
<1>4. calm' => calm /\ Used(c).fresh /\ ~task[c].stale
  <2>1. calm' = (calm /\ Used(c).fresh /\ ~task[c].stale)
    BY DEF CommitCrl
  <2> QED
    BY <2>1, Zenon
<1>5. calm' => task[c].serials = On(rows[a])
  BY <1>1, <1>4 DEF Signed
<1>6. calm' => \A e \in CA : \A s \in On(rows[e]) : \A n \in Number :
                 OnCrlsSince(e, s, n) => OnCrlsSince(e, s, n)'
  <2> SUFFICES ASSUME calm', NEW e \in CA, NEW s \in On(rows[e]), NEW n \in Number,
                      OnCrlsSince(e, s, n)
               PROVE  OnCrlsSince(e, s, n)'
    OBVIOUS
  <2>1. \A k \in issued' : k \in issued \/ (k.ca = a /\ k.serials = On(rows[a]))
    BY <1>3, <1>5
  <2>2. issued \subseteq issued'
    BY <1>3
  <2> HIDE DEF a
  <2> QED
    BY <2>1, <2>2 DEF OnCrlsSince
<1>7. \A d \in Client : /\ ca'[d].id = ca[d].id
                        /\ d # c => (old[d] = NoObject <=> old'[d] = NoObject)
                        /\ d # c => Used(d)'.id = Used(d).id
  <2> SUFFICES ASSUME NEW d \in Client
               PROVE  /\ ca'[d].id = ca[d].id
                      /\ d # c => (old[d] = NoObject <=> old'[d] = NoObject)
                      /\ d # c => Used(d)'.id = Used(d).id
    OBVIOUS
  <2>1. ca[d] \in Object /\ (old[d] # NoObject => old[d] \in Object) /\ NoObject.id # a
    BY <1>1, SmallFacts DEF TypeOK, NoObject, CA
  <2>2. /\ ca'[d] = IF (d # c \/ old[c] # NoObject) /\ ca[d].id = a
                    THEN [ca[d] EXCEPT !.fresh = FALSE] ELSE ca[d]
        /\ d # c => old'[d] = IF old[d].id = a THEN [old[d] EXCEPT !.fresh = FALSE] ELSE old[d]
    BY DEF CommitCrl
  <2>3. ca'[d].id = ca[d].id
    BY <2>1, <2>2 DEF Object
  <2>4. ASSUME d # c, old[d] # NoObject PROVE old'[d] # NoObject /\ old'[d].id = old[d].id
    <3>1. [old[d] EXCEPT !.fresh = FALSE].id = old[d].id /\ ~[old[d] EXCEPT !.fresh = FALSE].fresh
      BY <2>1, <2>4 DEF Object
    <3>2. NoObject.fresh
      BY DEF NoObject
    <3>3. old'[d] \in {old[d], [old[d] EXCEPT !.fresh = FALSE]}
      BY <2>2, <2>4
    <3> QED
      BY <2>4, <3>1, <3>2, <3>3
  <2>5. d # c /\ old[d] = NoObject => old'[d] = NoObject
    BY <2>1, <2>2
  <2> QED
    BY <2>3, <2>4, <2>5 DEF Used
<1>8. ASSUME NEW d \in Client \ {c} PROVE Idle(d)' /\ Copy(d)' /\ Signed(d)' /\ Marks(d)'
  <2>1. Idle(d) /\ Copy(d) /\ Signed(d) /\ Marks(d) /\ ca[d].id \in CA /\ Used(d).id \in CA
    BY UsedType DEF Revocations
  <2>2. On(rows'[Used(d).id]) = On(rows[Used(d).id]) /\ On(rows'[ca[d].id]) = On(rows[ca[d].id])
    BY <1>2, <2>1
  <2>3. calm' => calm
    BY <1>4
  <2>4. Idle(d)' /\ Copy(d)' /\ Signed(d)'
    BY <1>3, <1>6, <1>7, <2>1, <2>2, <2>3, Frame
  <2>5. Marks(d)'
    BY <1>3, <1>7, <2>1, <2>2, MarksFrame
  <2> QED
    BY <2>4, <2>5
<1>9. Idle(c)' /\ Copy(c)' /\ Signed(c)' /\ Marks(c)'
  <2>1. /\ task[c] # NoTask /\ task'[c].phase = "none"
        /\ old'[c] = IF held[c].op = "manage" THEN old[c] ELSE NoObject
    BY <1>1, <1>3, NothingHeld DEF CommitCrl
  <2>2. (held[c].op = "none" /\ held[c] = NoList) \/ held[c].op = "manage"
    BY <1>1, <2>1, HeldType DEF Idle, Held
  <2>3. Idle(c)' /\ Signed(c)'
    BY <1>3, <2>1, <2>2 DEF Idle, Signed
  <2>4. held[c].op # "none" => Used(c)'.id = Used(c).id
    BY <1>7, <2>1, <2>2 DEF Used
  <2>5. On(rows'[Used(c).id]) = On(rows[Used(c).id]) /\ On(rows'[ca[c].id]) = On(rows[ca[c].id])
    BY <1>2, UsedType
  <2>6. calm' => calm
    BY <1>4
  <2>7. Copy(c)'
    BY <1>1, <1>3, <1>6, <2>4, <2>5, <2>6, FrameCopy
  <2>8. Marks(c)'
    BY <1>1, <1>3, <1>7, <2>5, MarksFrame
  <2> QED
    BY <2>3, <2>7, <2>8
<1>10. DuplicatesAreTyped'
  BY <1>2, <1>3 DEF Revocations, DuplicatesAreTyped
<1>11. OnEveryCrlSince'
  <2> SUFFICES ASSUME calm', NEW e \in CA, NEW s \in Serial, NEW i \in DOMAIN rows'[e][s],
                      NEW n, n = rows'[e][s][i], n \notin {Null, 0}
               PROVE  OnCrlsSince(e, s, n)'
    BY DEF OnEveryCrlSince, OnCrlsSince
  <2>1. /\ i \in DOMAIN rows[e][s] /\ rows[e][s] \in Seq(Number \cup {Null})
    BY <1>2, RowsType DEF Lists
  <2>2. s \in On(rows[e]) /\ rows[e][s][i] \in Number \cup {Null}
    BY <2>1 DEF On
  <2>3. CASE rows'[e][s][i] = rows[e][s][i]
    <3>1. OnCrlsSince(e, s, rows[e][s][i]) /\ rows[e][s][i] \in Number
      BY <1>4, <2>1, <2>2, <2>3 DEF Revocations, OnEveryCrlSince, OnCrlsSince
    <3>2. OnCrlsSince(e, s, n) /\ n \in Number
      BY <2>3, <3>1
    <3> QED
      BY <1>6, <2>2, <3>2
  <2>4. CASE e = a /\ rows'[e][s][i] = no
    <3>1. no # 0 /\ crl \in issued' /\ \A k \in issued' : k \in issued \/ k = crl
      BY <1>3, <2>4
    <3>2. lastNo[a] < no
      BY <1>1, <1>4, <3>1 DEF Numbers, TasksAreNext
    <3>3. \A k \in issued : k.no \in Nat /\ (k.ca = a => k.no <= lastNo[a])
      BY <1>4, SmallFacts DEF Numbers, LastNumber, TypeOK
    <3>4. s \in crl.serials /\ crl.ca = a /\ crl.no = no
      BY <1>5, <2>2, <2>4
    <3>5. e <= e /\ n = no /\ e = a
      <4>1. e \in Nat
        BY SmallFacts
      <4> QED
        BY <2>4, <4>1
    <3> HIDE DEF crl
    <3>6. \A k \in issued' : k.ca = a /\ k.no >= no => k = crl
      BY <1>1, <3>1, <3>2, <3>3
    <3> HIDE DEF a, no
    <3> QED
      BY <3>1, <3>4, <3>5, <3>6 DEF OnCrlsSince
  <2> QED
    BY <1>2, <2>1, <2>3, <2>4
<1>12. NotYet'
  <2> SUFFICES ASSUME NEW e \in CA, e > newest PROVE rows'[e] = EmptyList
    BY <1>3 DEF NotYet
  <2>1. e # a
    <3>1. a <= newest /\ newest \in Nat /\ a \in Nat /\ e \in Nat
      BY <1>1, SmallFacts DEF Numbers, Stored, TypeOK
    <3> QED
      BY <3>1
  <2> QED
    BY <2>1 DEF CommitCrl, NumberRows, Revocations, NotYet, TypeOK
<1> QED
  BY <1>2, <1>8, <1>9, <1>10, <1>11, <1>12 DEF Revocations

LEMMA RevocationsNext == TypeOK /\ Numbers /\ Revocations /\ [Next]_vars => Revocations'
<1> SUFFICES ASSUME TypeOK, Numbers, Revocations, [Next]_vars PROVE Revocations'
  OBVIOUS
<1>1. Stored
  BY DEF Numbers
<1>2. CASE UNCHANGED vars
  <2>1. UNCHANGED <<newest, rows, issued, held, task, old, ca, marked, behind, typed, calm>>
    BY <1>2 DEF vars, db, memory, history
  <2>2. NotYet' /\ DuplicatesAreTyped' /\ OnEveryCrlSince'
    BY <2>1 DEF Revocations, NotYet, DuplicatesAreTyped, OnEveryCrlSince
  <2>3. \A e \in CA : \A s \in On(rows[e]) : \A n \in Number :
          OnCrlsSince(e, s, n) => OnCrlsSince(e, s, n)'
    BY <2>1 DEF OnCrlsSince
  <2>4. ASSUME NEW d \in Client PROVE Idle(d)' /\ Copy(d)' /\ Signed(d)' /\ Marks(d)'
    <3>1. Used(d)' = Used(d) /\ Idle(d) /\ Copy(d) /\ Signed(d) /\ Marks(d)
      BY <2>1 DEF Used, Revocations
    <3>2. Idle(d)' /\ Copy(d)' /\ Signed(d)'
      BY <2>1, <2>3, <3>1, Frame
    <3>3. Marks(d)'
      BY <2>1, <3>1, MarksFrame
    <3> QED
      BY <3>2, <3>3
  <2> QED
    BY <2>2, <2>4 DEF Revocations
<1>3. CASE Next
  <2>1. PICK c \in Client : NextBy(c)
    BY <1>3 DEF Next, NextBy
  <2>2. CASE (\E S \in SUBSET Child : Revoke(c, S) \/ UnRevoke(c, S)) \/ OpenManage(c)
    BY <2>2, ReadSteps
  <2>3. CASE \E s \in Serial : AddRev(c, s) \/ DelRev(c, s) \/ EditRev(c, s)
    BY <2>3, EditSteps
  <2>4. CASE \/ ManageCancel(c) \/ OpenCrl(c) \/ DropCrl(c)
             \/ \E n \in 0..MaxNo : SignCrl(c, n)
    BY <2>4, TaskSteps
  <2>5. CASE Reload(c) \/ Restart(c)
    BY <2>5, LoadSteps
  <2>6. CASE RevokeWrites(c)
    BY <1>1, <2>6, RevokeWritesStep
  <2>7. CASE UnRevokeWrites(c) \/ ManageOk(c) \/ GenerateFromManage(c)
    BY <1>1, <2>7, WriteSteps
  <2>8. CASE \E S \in SUBSET Serial : ImportCrl(c, S)
    BY <1>1, <2>8, ImportStep
  <2>9. CASE Renew(c)
    BY <1>1, <2>9, RenewStep
  <2>10. CASE CommitCrl(c)
    BY <2>10, CommitStep
  <2> QED
    BY <2>1, <2>2, <2>3, <2>4, <2>5, <2>6, <2>7, <2>8, <2>9, <2>10 DEF NextBy
<1> QED
  BY <1>2, <1>3

\* The invariant of the proofs that follow.
Invariant == TypeOK /\ Numbers /\ Revocations

LEMMA Invariance == Spec => []Invariant
<1>1. Init => Invariant
  BY TypeInit, NumbersInit, RevocationsInit DEF Invariant
<1>2. Invariant /\ [Next]_vars => Invariant'
  BY TypeNext, NumbersNext, RevocationsNext DEF Invariant
<1> QED
  BY <1>1, <1>2, PTL DEF Spec

\* What is shown as revoked is what is on the list, unless something changed
\* the list behind the client, in every instance.
THEOREM MarksMatchList == Spec => []MarkedIffListed
<1>1. Invariant => MarkedIffListed
  BY DEF Invariant, Revocations, Marks, MarkedIffListed
<1> QED
  BY <1>1, Invariance, PTL

\* Nothing but the user puts a serial on a list twice, in every instance.
THEOREM ListsHaveNoDuplicates == Spec => []DuplicatesAreTyped
<1>1. Invariant => DuplicatesAreTyped
  BY DEF Invariant, Revocations
<1> QED
  BY <1>1, Invariance, PTL

\* A revocation on a CRL is on every later CRL of the CA, in every instance,
\* as long as nobody wrote what others had changed.
THEOREM LaterCrlsHaveIt == Spec => []OnEveryCrlSince
<1>1. Invariant => OnEveryCrlSince
  BY DEF Invariant, Revocations
<1> QED
  BY <1>1, Invariance, PTL

\* Writing the copy of a client.
LEMMA WrittenStays ==
  ASSUME TypeOK, Revocations, NEW c \in Client, held[c].op # "none", ~held[c].stale,
         NEW a \in CA, a = Used(c).id, rows' = [rows EXCEPT ![a] = SqlUpdate(held[c].copy, @)],
         held'[c] = NoList \/ held'[c].removed = {}
  PROVE  \A s \in Serial : RevocationStays(s)
<1>1. /\ On(rows[a]) \ held[c].removed \subseteq On(held[c].copy)
      /\ held[c].copy \in Lists(Number) /\ held[c].removed \in SUBSET Serial
  BY HeldType DEF Revocations, Copy
<1>2. On(rows'[a]) = On(held[c].copy) /\ \A e \in CA \ {a} : rows'[e] = rows[e]
  <2>1. rows'[a] = SqlUpdate(held[c].copy, rows[a]) /\ \A e \in CA \ {a} : rows'[e] = rows[e]
    BY DEF TypeOK
  <2> DEFINE was == rows[a]
             new == SqlUpdate(held[c].copy, was)
  <2>2. was \in Lists(Number \cup {Null})
    BY RowsType
  <2> HIDE DEF was
  <2>3. On(new) = On(held[c].copy)
    BY <1>1, <2>2, SqlUpdateFacts
  <2> QED
    BY <2>1, <2>3 DEF was
<1>3. ASSUME NEW s \in Serial, NEW e \in CA, s \in On(rows[e]) \ On(rows'[e])
      PROVE  Used(c).id = e /\ s \in held[c].removed /\ held'[c] # held[c]
  <2>1. e = a /\ s \in held[c].removed
    BY <1>1, <1>2, <1>3
  <2>2. held'[c] # held[c]
    BY <2>1, NothingHeld
  <2> QED
    BY <2>1, <2>2
<1> QED
  BY <1>3 DEF RevocationStays

LEMMA StaysNext ==
  TypeOK /\ Numbers /\ Revocations /\ [Next]_vars =>
    (calm' => \A s \in Serial : RevocationStays(s))
<1> SUFFICES ASSUME TypeOK, Numbers, Revocations, [Next]_vars, calm'
             PROVE  \A s \in Serial : RevocationStays(s)
  OBVIOUS
<1>1. (\A e \in CA : On(rows[e]) \subseteq On(rows'[e])) => \A s \in Serial : RevocationStays(s)
  BY DEF RevocationStays
<1>2. rows' = rows => \A s \in Serial : RevocationStays(s)
  BY <1>1
<1>3. CASE UNCHANGED vars
  BY <1>2, <1>3 DEF vars, db
<1>4. CASE Next
  <2>1. PICK c \in Client : NextBy(c)
    BY <1>4 DEF Next, NextBy
  <2>2. CASE \/ \E S \in SUBSET Child : Revoke(c, S) \/ UnRevoke(c, S)
             \/ OpenManage(c) \/ ManageCancel(c) \/ OpenCrl(c) \/ DropCrl(c)
             \/ \E s \in Serial : AddRev(c, s) \/ DelRev(c, s) \/ EditRev(c, s)
             \/ \E n \in 0..MaxNo : SignCrl(c, n)
             \/ Reload(c) \/ Restart(c)
    <3>1. rows' = rows
      BY <2>2, ReadSteps, EditSteps, TaskSteps, LoadSteps
    <3> QED
      BY <1>2, <3>1
  <2>3. CASE CommitCrl(c)
    BY <1>1, <2>3, CommitStep
  <2>4. ASSUME NEW S \in SUBSET Serial, ImportCrl(c, S)
        PROVE  \A s \in Serial : RevocationStays(s)
    <3> DEFINE a == ca[c].id
               read == FromSql(rows[a])
    <3>1. a \in CA /\ read \in Lists(Number) /\ On(read) = On(rows[a])
      BY UsedType, RowsType, FromSqlFacts
    <3>2. Merge(read, S) \in Lists(Number) /\ On(Merge(read, S)) = On(read) \cup S
      BY <3>1, MergeFacts
    <3>3. rows' = rows \/ rows' = [rows EXCEPT ![a] = SqlUpdate(Merge(read, S), @)]
      BY <2>4 DEF ImportCrl
    <3> HIDE DEF a, read
    <3>4. ASSUME rows' = [rows EXCEPT ![a] = SqlUpdate(Merge(read, S), @)], NEW e \in CA
          PROVE  On(rows[e]) \subseteq On(rows'[e])
      <4>1. rows'[e] = IF e = a THEN SqlUpdate(Merge(read, S), rows[a]) ELSE rows[e]
        BY <3>4 DEF TypeOK
      <4>2. On(SqlUpdate(Merge(read, S), rows[a])) = On(Merge(read, S))
        BY <3>1, <3>2, RowsType, SqlUpdateFacts
      <4> QED
        BY <3>1, <3>2, <4>1, <4>2
    <3> QED
      BY <1>1, <1>2, <3>3, <3>4
  <2>5. CASE Renew(c)
    <3>1. /\ newest + 1 \in CA /\ newest + 1 > newest
          /\ rows' = [rows EXCEPT ![newest + 1] = SqlUpdate(Inherited, @)]
      BY <2>5, BoundsAssumption DEF Renew, TypeOK, CA
    <3>2. rows[newest + 1] = EmptyList
      BY <3>1 DEF Revocations, NotYet
    <3>3. \A e \in CA : On(rows[e]) \subseteq On(rows'[e])
      BY <3>1, <3>2, NothingHeld DEF TypeOK
    <3> QED
      BY <1>1, <3>3
  <2>6. CASE RevokeWrites(c)
    <3>1. held[c].op = "revoke" /\ Used(c) = ca[c] /\ Used(c).id \in CA
      BY <2>6, UsedType DEF RevokeWrites, Revocations, Idle, Used
    <3>2. CASE /\ rows' = [rows EXCEPT ![ca[c].id] = SqlUpdate(held[c].copy, @)]
               /\ Outdate(c, ca[c].id, [held EXCEPT ![c] = NoList], task, behind[c])
               /\ calm' = (calm /\ ~held[c].stale)
      <4>1. held'[c] = NoList
        BY <3>2 DEF Outdate, TypeOK
      <4>2. ~held[c].stale
        BY <3>2
      <4> QED
        BY <3>1, <3>2, <4>1, <4>2, WrittenStays
    <3>3. CASE rows' = rows
      BY <1>2, <3>3
    <3> QED
      BY <2>6, <3>2, <3>3 DEF RevokeWrites
  <2>7. ASSUME NEW next, NEW t, NEW b, held[c].op # "none", next = NoList \/ next.removed = {},
               /\ rows' = [rows EXCEPT ![Used(c).id] = SqlUpdate(held[c].copy, @)]
               /\ Outdate(c, Used(c).id, [held EXCEPT ![c] = next], t, b)
               /\ calm' = (calm /\ ~held[c].stale)
        PROVE  \A s \in Serial : RevocationStays(s)
    <3>1. held'[c] = next /\ ~held[c].stale
      BY <2>7 DEF Outdate, TypeOK
    <3> QED
      BY <2>7, <3>1, UsedType, WrittenStays
  <2>8. CASE UnRevokeWrites(c) \/ ManageOk(c)
    <3>1. SetRevocations(c, NoList, task) /\ held[c].op # "none"
      BY <2>8 DEF UnRevokeWrites, ManageOk, Managing
    <3> QED
      BY <1>2, <2>7, <3>1 DEF SetRevocations
  <2>9. CASE GenerateFromManage(c)
    <3> DEFINE next == [held[c] EXCEPT !.removed = {}, !.stale = FALSE]
               t == [task EXCEPT ![c] = NewTask(c)]
    <3>1. SetRevocations(c, next, t) /\ held[c].op # "none" /\ next.removed = {}
      BY <2>9, HeldType DEF GenerateFromManage, Managing, Held
    <3> HIDE DEF next, t
    <3> QED
      BY <1>2, <2>7, <3>1 DEF SetRevocations
  <2> QED
    BY <2>1, <2>2, <2>3, <2>4, <2>5, <2>6, <2>8, <2>9 DEF NextBy
<1> QED
  BY <1>3, <1>4

\* No revocation leaves a list unless the user removed it, in every instance,
\* as long as nobody wrote what others had changed.
THEOREM OnlyUsersUnrevoke == Spec => RevocationsStay
<1>1. Invariant /\ [Next]_vars => [calm' => \A s \in Serial : RevocationStays(s)]_vars
  BY StaysNext DEF Invariant
<1> QED
  BY <1>1, Invariance, PTL DEF Spec, RevocationsStay

=============================================================================

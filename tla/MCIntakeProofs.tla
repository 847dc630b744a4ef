--------------------------- MODULE MCIntakeProofs ---------------------------
(* What a project that fills and empties guarantees, for every number of   *)
(* importers, pruners, freezers, agents, clicks and cases.                 *)
EXTENDS MCIntake, Integers, SequenceTheorems, FiniteSetTheorems, FunctionTheorems, TLAPS

\* The order of the insert is strict and total.
LEMMA BeforeIsAnOrder ==
    /\ \A r \in Records!Record : ~Records!Before(r, r)
    /\ \A r, s, t \in Records!Record : Records!Before(r, s) /\ Records!Before(s, t)
          => Records!Before(r, t)
    /\ \A r, s \in Records!Record : r = s \/ Records!Before(r, s) \/ Records!Before(s, r)
<1>1. \A r \in Records!Record : ~Records!Before(r, r)
  BY DEF Records!Record, Records!Before, Records!Kinds
<1>2. ASSUME NEW r \in Records!Record, NEW s \in Records!Record, NEW t \in Records!Record,
             Records!Before(r, s), Records!Before(s, t)
      PROVE  Records!Before(r, t)
  BY <1>2 DEF Records!Record, Records!Before, Records!Kinds
<1>3. ASSUME NEW r \in Records!Record, NEW s \in Records!Record, r # s
      PROVE  Records!Before(r, s) \/ Records!Before(s, r)
  <2>1. r.kind # s.kind \/ r.decision # s.decision \/ r.content # s.content
    BY <1>3 DEF Records!Record
  <2> QED BY <2>1 DEF Records!Record, Records!Before, Records!Kinds
<1> QED BY <1>1, <1>2, <1>3

Sorted(s) == \A i, j \in DOMAIN s : i < j => Records!Before(s[i], s[j])

\* The size of a set is the same in the component.
LEMMA SameSize == \A S : Records!Cardinality(S) = Cardinality(S)
  BY DEF Records!Cardinality, Cardinality

\* A finite set of records can be listed in that order: a record is put
\* where the number of the records before it says.
LEMMA Sortable ==
    ASSUME NEW R, IsFiniteSet(R), R \subseteq Records!Record
    PROVE  \E s \in Records!SetToSeqs(R) : Sorted(s)
<1> DEFINE n == Cardinality(R)
           Below(r) == {x \in R : Records!Before(x, r)}
           rank == [r \in R |-> Cardinality(Below(r)) + 1]
<1>1. n \in Nat /\ IsFiniteSet(1 .. n) /\ Cardinality(1 .. n) = n
  <2>1. n \in Nat
    BY FS_CardinalityType
  <2> HIDE DEF n
  <2> QED BY <2>1, FS_Interval
<1>2. ASSUME NEW r \in R PROVE rank[r] \in 1 .. n
  <2>1. Below(r) \subseteq R \ {r}
    BY BeforeIsAnOrder
  <2>2. IsFiniteSet(R \ {r}) /\ Cardinality(R \ {r}) = n - 1
    BY FS_RemoveElement
  <2>3. IsFiniteSet(Below(r)) /\ Cardinality(Below(r)) <= n - 1
    BY <2>1, <2>2, FS_Subset
  <2>4. Cardinality(Below(r)) \in Nat
    BY <2>3, FS_CardinalityType
  <2>5. rank[r] = Cardinality(Below(r)) + 1
    OBVIOUS
  <2> HIDE DEF Below, rank, n
  <2> QED BY <1>1, <2>3, <2>4, <2>5
<1>3. ASSUME NEW r \in R, NEW s \in R, Records!Before(r, s) PROVE rank[r] < rank[s]
  <2>1. Below(r) \subseteq Below(s)
    BY <1>3, BeforeIsAnOrder
  <2>2. r \in Below(s) /\ r \notin Below(r)
    BY <1>3, BeforeIsAnOrder
  <2>3. IsFiniteSet(Below(s)) /\ IsFiniteSet(Below(r))
    BY FS_Subset
  <2>4. Cardinality(Below(r)) <= Cardinality(Below(s)) /\ Cardinality(Below(r)) # Cardinality(Below(s))
    BY <2>1, <2>2, <2>3, FS_Subset
  <2>5. Cardinality(Below(r)) \in Nat /\ Cardinality(Below(s)) \in Nat
    BY <2>3, FS_CardinalityType
  <2>6. rank[r] = Cardinality(Below(r)) + 1 /\ rank[s] = Cardinality(Below(s)) + 1
    OBVIOUS
  <2> HIDE DEF Below, rank
  <2> QED BY <2>4, <2>5, <2>6
<1>4. rank \in [R -> 1 .. n]
  BY <1>2
<1> HIDE DEF rank, n, Below
<1>5. \A r, s \in R : rank[r] = rank[s] => r = s
  <2> SUFFICES ASSUME NEW r \in R, NEW s \in R, rank[r] = rank[s] PROVE r = s
    OBVIOUS
  <2>1. ~(rank[r] < rank[s]) /\ ~(rank[s] < rank[r])
    BY <1>1, <1>4
  <2> QED BY <1>3, <2>1, BeforeIsAnOrder
<1>6. rank \in Surjection(R, 1 .. n)
  <2>1. rank \in Injection(R, 1 .. n)
    BY <1>4, <1>5, Fun_IsInj
  <2> QED BY <1>1, <2>1, FS_Injection DEF n
<1>7. \A i \in 1 .. n : \E r \in R : rank[r] = i
  BY <1>6, Fun_SurjectionProperties
<1> DEFINE s == [i \in 1 .. n |-> CHOOSE r \in R : rank[r] = i]
<1>8. \A i \in 1 .. n : s[i] \in R /\ rank[s[i]] = i
  BY <1>7
<1>9. s \in [1 .. n -> R] /\ DOMAIN s = 1 .. n
  BY <1>8
<1> HIDE DEF s
<1>10. s \in Records!SetToSeqs(R)
  BY <1>8, <1>9, SameSize DEF Records!SetToSeqs, n
<1>11. ASSUME NEW i \in 1 .. n, NEW j \in 1 .. n, i < j PROVE Records!Before(s[i], s[j])
  <2>1. s[i] \in R /\ s[j] \in R /\ rank[s[i]] = i /\ rank[s[j]] = j
    BY <1>8
  <2>2. s[i] # s[j]
    BY <1>11, <2>1
  <2>3. ~Records!Before(s[j], s[i])
    BY <1>1, <1>3, <1>11, <2>1
  <2> QED BY <2>1, <2>2, <2>3, BeforeIsAnOrder
<1> QED BY <1>9, <1>10, <1>11 DEF Sorted

\* Every record of a batch is inserted, once and in that order.
LEMMA InsertsInOrder ==
    ASSUME Records!BatchesAssumption, NEW b \in Batches
    PROVE  /\ Records!InsertOrder(b) \in Seq(Records!Record) /\ Sorted(Records!InsertOrder(b))
           /\ Records!ToSet(Records!InsertOrder(b)) = Records!ToSet(b)
                 /\ Records!ToSet(b) \subseteq Records!Record
<1> DEFINE R == Records!ToSet(b)
           n == Cardinality(R)
           s == Records!InsertOrder(b)
<1>1. b \in Seq(Records!Record) /\ Len(b) \in Nat /\ DOMAIN b = 1 .. Len(b)
         /\ b \in [1 .. Len(b) -> Records!Record]
  <2>1. b \in Seq(Records!Record)
    BY DEF Records!BatchesAssumption
  <2> QED BY <2>1, LenProperties, ElementOfSeq
<1>2. R \subseteq Records!Record /\ b \in [1 .. Len(b) -> R]
         /\ \A r \in R : \E i \in 1 .. Len(b) : b[i] = r
  BY <1>1 DEF Records!ToSet
<1>3. IsFiniteSet(R)
  <2>1. b \in Surjection(1 .. Len(b), R)
    BY <1>2, Fun_IsSurj
  <2>2. IsFiniteSet(1 .. Len(b))
    BY <1>1, FS_Interval
  <2> QED BY <2>1, <2>2, FS_Surjection
<1>4. s \in Records!SetToSeqs(R) /\ Sorted(s)
  BY <1>2, <1>3, Sortable DEF Records!InsertOrder, Sorted
<1> HIDE DEF s, R
<1>5. n \in Nat /\ IsFiniteSet(1 .. n) /\ Cardinality(1 .. n) = n
  <2>1. n \in Nat
    BY <1>3, FS_CardinalityType
  <2> HIDE DEF n
  <2> QED BY <2>1, FS_Interval
<1> HIDE DEF n
<1>6. s \in [1 .. n -> R] /\ \A i, j \in 1 .. n : s[i] = s[j] => i = j
  BY <1>4, SameSize DEF Records!SetToSeqs, n
<1>7. s \in Surjection(1 .. n, R)
  <2>1. s \in Injection(1 .. n, R)
    BY <1>6, Fun_IsInj
  <2> QED BY <1>3, <1>5, <2>1, FS_Injection DEF n
<1>8. \A r \in R : \E i \in 1 .. n : s[i] = r
  BY <1>7 DEF Surjection
<1>9. s \in Seq(Records!Record)
  BY <1>2, <1>5, <1>6, SeqDef
<1>10. Records!ToSet(s) = R
  <2>1. DOMAIN s = 1 .. n
    BY <1>6
  <2> QED BY <1>6, <1>8, <2>1 DEF Records!ToSet
<1> QED BY <1>2, <1>4, <1>9, <1>10 DEF s, R

-----------------------------------------------------------------------------
(* The inductive invariant.                                                *)

RecordsAssumptions == Records!BatchesAssumption /\ Records!BoundsAssumption

AppendPlaces == {"idle", "authenticated", "begun", "locked", "keyed", "insert", "checked", "stored",
   "refused"}
Appends == [pc : AppendPlaces, key : IngestKeys \cup {Records!None},
            batch : Batches \cup {<<>>}, at : 0 .. MaxTime,
            in : SUBSET Records!Row, rest : Seq(Records!Record)]
Commands == [pc : {"idle", "locked", "deleted", "done"}, op : {Records!None, "erase", "purge"},
             arg : IngestKeys \cup Records!DecisionsOf(Records!BatchRecords) \cup {Records!None},
             del : SUBSET Records!Row]
Sweeps == [pc : {"idle", "deleted"}, del : SUBSET Records!Row]

RecordsTypes ==
    /\ rows \subseteq Records!Row /\ tombs \subseteq Records!DecisionsOf(Records!BatchRecords)
    /\ revoked \subseteq IngestKeys /\ purged \subseteq revoked
    /\ days \in Periods /\ clock \in 0 .. MaxTime
    /\ req \in [AppendRequests -> Appends] /\ taken \in [AppendRequests -> SUBSET Records!BatchRecords]
    /\ cmd \in [RecordOwners -> Commands] /\ sweep \in [RecordSweepers -> Sweeps]
    /\ resends \in 0 .. MaxResends /\ recordsFaults \in 0 .. RecordFaults

\* The record lock is shared by appends or held by one command, and one
\* sweep deletes at a time.
RecordsLocking ==
    /\ Records!InTransaction = {} \/ Records!Exclusive = {}
    /\ \A o, p \in Records!Exclusive : o = p
    /\ \A v, w \in RecordSweepers : sweep[v].pc = "deleted" /\ sweep[w].pc = "deleted" => v = w

\* What is being deleted is there, and is deleted by one.
DeletesAreApart ==
    /\ \A o \in RecordOwners : cmd[o].del \subseteq rows /\ (cmd[o].pc # "deleted" => cmd[o].del = {})
    /\ \A w \in RecordSweepers : sweep[w].del \subseteq rows
          /\ (sweep[w].pc # "deleted" => sweep[w].del = {})
    /\ \A o \in RecordOwners, w \in RecordSweepers : cmd[o].del \cap sweep[w].del = {}

\* A command that has the lock names what it may delete, and past its
\* delete nothing else matches.
Commanding(o) ==
    /\ o \in Records!Exclusive =>
         \/ cmd[o].op = "erase" /\ cmd[o].arg \in Records!DecisionsOf(Records!BatchRecords)
         \/ cmd[o].op = "purge" /\ cmd[o].arg \in revoked
    /\ cmd[o].pc = "deleted" => \A x \in rows : Records!Matches(o, x) => x \in cmd[o].del

\* What an append still relies on: its key is not purged and its decisions
\* are not erased, since it shares the lock from before it looked.
Admitted(q) ==
    /\ req[q].pc # "idle" => req[q].key \in IngestKeys /\ req[q].batch \in Batches
    /\ req[q].pc \in {"keyed", "insert", "checked"} => req[q].key \notin purged
    /\ req[q].pc \in {"insert", "checked"}
          => Records!DecisionsOf(Records!ToSet(req[q].batch)) \cap tombs = {}
    /\ req[q].in # {} => req[q].pc \in {"insert", "checked"}
    /\ \A x \in req[q].in : x.by = req[q].key /\ x.rec \in Records!ToSet(req[q].batch)

\* What is left to insert comes in order, after what was inserted.
InOrder(q) ==
    req[q].pc = "insert" =>
      /\ Sorted(req[q].rest) /\ Records!ToSet(req[q].rest) \subseteq Records!ToSet(req[q].batch)
      /\ \A x \in req[q].in : \A i \in DOMAIN req[q].rest : Records!Before(x.rec, req[q].rest[i])

\* Of each record that an append is past, it is known where it is.
Placed(q, r) ==
    \/ \E x \in req[q].in : x.rec = r
    \/ \E t \in taken[q] : Records!Collide(t, r)

Accounted(q) ==
    /\ req[q].pc = "insert" =>
         \A r \in Records!ToSet(req[q].batch) : \/ Placed(q, r)
                                                \/ r \in Records!ToSet(req[q].rest)
                                                \/ \E x \in rows : Records!Collide(x.rec, r)
    /\ req[q].pc = "checked" =>
         \A r \in Records!ToSet(req[q].batch) : Placed(q, r) \/ \E x \in rows : x.rec = r

\* Two appends never hold rows under one unique key.
NoTwins ==
    \A q, b \in AppendRequests : q # b =>
      \A x \in req[q].in, y \in req[b].in : ~Records!Collide(x.rec, y.rec)

Appending(q) == Admitted(q) /\ InOrder(q) /\ Accounted(q)

RecordsInductive ==
    /\ RecordsTypes /\ RecordsLocking /\ DeletesAreApart /\ NoTwins
    /\ \A o \in RecordOwners : Commanding(o)
    /\ \A q \in AppendRequests : Appending(q)
    /\ Records!ErasedStaysErased /\ Records!PurgedSendsNothing

-----------------------------------------------------------------------------
(* Keeping it.                                                             *)

AppendHeld == {"locked", "keyed", "insert", "checked"}

\* The invariant, spelled out for the steps that follow.
LEMMA RecordsTyped ==
    ASSUME RecordsInductive
    PROVE  /\ RecordsTypes /\ req \in [AppendRequests -> Appends]
                 /\ taken \in [AppendRequests -> SUBSET Records!BatchRecords]
           /\ \A q \in AppendRequests : req[q] \in Appends /\ taken[q] \subseteq Records!BatchRecords
                 /\ Appending(q)
           /\ cmd \in [RecordOwners -> Commands]
                 /\ \A o \in RecordOwners : cmd[o] \in Commands /\ Commanding(o)
           /\ sweep \in [RecordSweepers -> Sweeps] /\ \A w \in RecordSweepers : sweep[w] \in Sweeps
           /\ rows \subseteq Records!Row
                 /\ \A x \in rows : x.rec \in Records!BatchRecords /\ x.by \in IngestKeys
           /\ resends \in 0 .. MaxResends /\ recordsFaults \in 0 .. RecordFaults
           /\ \A q \in AppendRequests : q \in Records!InTransaction <=> req[q].pc \in AppendHeld
  BY DEF RecordsInductive, RecordsTypes, Records!Row, Records!InTransaction, AppendHeld

\* Unique keys are a matter of two.
LEMMA CollideIsSymmetric ==
    \A r, s : (Records!Collide(r, s) <=> Records!Collide(s, r)) /\ Records!Collide(r, r)
  BY DEF Records!Collide

\* An append that does not move keeps what it relies on, if what leaves the
\* table meanwhile is noted for it.
LEMMA StaysAppending ==
    ASSUME RecordsInductive, NEW q \in AppendRequests, req'[q] = req[q], taken[q] \subseteq taken'[q],
           req[q].pc \in AppendHeld => /\ tombs' = tombs /\ purged' = purged
                                       /\ \A x \in rows : x \in rows' \/ x.rec \in taken'[q]
    PROVE  Appending(q)'
<1>1. Appending(q)
  BY RecordsTyped
<1>2. Admitted(q)'
  BY <1>1 DEF Appending, Admitted, AppendHeld
<1>3. InOrder(q)'
  BY <1>1 DEF Appending, InOrder
<1>4. \A r : Placed(q, r) => Placed(q, r)'
  BY DEF Placed
<1>5. req[q].pc \in AppendHeld =>
        \A r, x : x \in rows /\ Records!Collide(x.rec, r) => x \in rows' \/ Placed(q, r)'
  BY DEF Placed
<1>6. Accounted(q)'
  <2>1. CASE req[q].pc = "insert"
    BY <1>1, <1>4, <1>5, <2>1 DEF Appending, Accounted, AppendHeld
  <2>2. CASE req[q].pc = "checked"
    BY <1>1, <1>4, <1>5, <2>2, CollideIsSymmetric DEF Appending, Accounted, AppendHeld
  <2> QED BY <2>1, <2>2 DEF Accounted
<1> QED BY <1>2, <1>3, <1>6 DEF Appending

\* A step of one append that stores nothing yet.
LEMMA AppendMoves ==
    ASSUME RecordsInductive, NEW q \in AppendRequests,
           req' \in [AppendRequests -> Appends], taken' \in [AppendRequests -> SUBSET Records!BatchRecords],
           \A b \in AppendRequests : b # q => req'[b] = req[b] /\ taken'[b] = taken[b],
           UNCHANGED <<Records!table, Records!time, cmd, sweep>>,
           resends' \in 0 .. MaxResends, recordsFaults' \in 0 .. RecordFaults,
           req'[q].pc \in AppendHeld => req[q].pc \in AppendHeld \/ Records!Exclusive = {},
           \A b \in AppendRequests : b # q =>
               \A x \in req'[q].in, y \in req[b].in : ~Records!Collide(x.rec, y.rec),
           Appending(q)'
    PROVE  RecordsInductive'
<1>1. UNCHANGED <<rows, tombs, revoked, purged, days, clock>>
  BY DEF Records!table, Records!time
<1>2. RecordsTypes'
  BY <1>1, RecordsTyped DEF RecordsTypes
<1>3. RecordsLocking'
  <2>1. Records!Exclusive' = Records!Exclusive
    BY DEF Records!Exclusive
  <2>2. Records!Exclusive # {} => Records!InTransaction' = {}
    BY DEF RecordsInductive, RecordsLocking, Records!InTransaction, AppendHeld
  <2> QED BY <2>1, <2>2 DEF RecordsInductive, RecordsLocking
<1>4. DeletesAreApart' /\ Records!ErasedStaysErased' /\ Records!PurgedSendsNothing'
  BY <1>1
     DEF RecordsInductive, DeletesAreApart, Records!ErasedStaysErased, Records!PurgedSendsNothing
<1>5. NoTwins'
  <2> SUFFICES ASSUME NEW a \in AppendRequests, NEW b \in AppendRequests, a # b,
                      NEW x \in req'[a].in, NEW y \in req'[b].in
               PROVE  ~Records!Collide(x.rec, y.rec)
    BY DEF NoTwins
  <2>1. CASE a = q
    BY <2>1
  <2>2. CASE b = q
    BY <2>2, CollideIsSymmetric
  <2>3. CASE a # q /\ b # q
    BY <2>3 DEF RecordsInductive, NoTwins
  <2> QED BY <2>1, <2>2, <2>3
<1>6. \A o \in RecordOwners : Commanding(o)'
  BY <1>1 DEF RecordsInductive, Commanding, Records!Exclusive, Records!Matches
<1>7. ASSUME NEW b \in AppendRequests PROVE Appending(b)'
  BY <1>1, StaysAppending
<1> QED BY <1>2, <1>3, <1>4, <1>5, <1>6, <1>7 DEF RecordsInductive

\* An append that has not looked at the table relies on nothing.
LEMMA OutsideAppends ==
    ASSUME NEW q \in AppendRequests, req'[q] \in Appends, req'[q].in = {},
           req'[q].pc \in AppendPlaces \ {"keyed", "insert", "checked"},
           req'[q].pc # "idle" => req'[q].key \in IngestKeys /\ req'[q].batch \in Batches
    PROVE  Appending(q)'
  BY DEF Appending, Admitted, InOrder, Accounted

\* A key that is known is authenticated before the transaction.
LEMMA AuthenticateKeeps ==
    ASSUME RecordsAssumptions, RecordsInductive, NEW q \in AppendRequests, NEW k \in IngestKeys,
           NEW b \in Batches, Records!Authenticate(q, k, b)
    PROVE  RecordsInductive'
<1> DEFINE v == [Records!Idle EXCEPT !.pc = "authenticated", !.key = k, !.batch = b]
<1>1. req' = [req EXCEPT ![q] = v]
         /\ UNCHANGED <<Records!table, Records!time, taken, cmd, sweep, resends, recordsFaults>>
  BY DEF Records!Authenticate
<1>2. /\ v \in Appends /\ v.pc = "authenticated" /\ v.key = k /\ v.batch = b /\ v.in = {}
  <2>1. Records!Idle \in Appends /\ Records!Idle.in = {}
    <3>1. 0 \in 0 .. MaxTime /\ <<>> \in Seq(Records!Record)
      BY EmptySeq DEF RecordsAssumptions, Records!BoundsAssumption
    <3> QED BY <3>1 DEF Records!Idle, Appends, AppendPlaces
  <2>2. \A f \in Appends : LET g == [f EXCEPT !.pc = "authenticated", !.key = k, !.batch = b] IN
          g \in Appends /\ g.pc = "authenticated" /\ g.key = k /\ g.batch = b /\ g.in = f.in
    BY DEF Appends, AppendPlaces
  <2> QED BY <2>1, <2>2
<1> HIDE DEF v
<1>3. req' \in [AppendRequests -> Appends] /\ req'[q] = v /\ \A c \in AppendRequests : c # q => req'[c] = req[c]
  BY <1>1, <1>2, RecordsTyped
<1>4. Appending(q)'
  BY <1>2, <1>3, OutsideAppends DEF AppendPlaces
<1> QED BY <1>1, <1>2, <1>3, <1>4, RecordsTyped, AppendMoves DEF AppendHeld

\* The transaction begins, and nothing is taken from it yet.
LEMMA BeginKeeps ==
    ASSUME RecordsAssumptions, RecordsInductive, NEW q \in AppendRequests, Records!Begin(q)
    PROVE  RecordsInductive'
<1>1. /\ req[q].pc = "authenticated" /\ req' = [req EXCEPT ![q].pc = "begun", ![q].at = clock]
      /\ taken' = [taken EXCEPT ![q] = {}]
            /\ UNCHANGED <<Records!table, Records!time, cmd, sweep, resends, recordsFaults>>
  BY DEF Records!Begin
<1>2. clock \in 0 .. MaxTime
  BY RecordsTyped DEF RecordsTypes
<1>3. /\ req' \in [AppendRequests -> Appends] /\ \A c \in AppendRequests : c # q => req'[c] = req[c]
      /\ req'[q].pc = "begun" /\ req'[q].key = req[q].key /\ req'[q].batch = req[q].batch
      /\ req'[q].in = req[q].in
  BY <1>1, <1>2, RecordsTyped, ZenonT(40) DEF Appends, AppendPlaces
<1>4. req[q].in = {} /\ req[q].key \in IngestKeys /\ req[q].batch \in Batches
  BY <1>1, RecordsTyped DEF Appending, Admitted
<1>5. Appending(q)'
  BY <1>3, <1>4, OutsideAppends DEF AppendPlaces
<1>6. taken' \in [AppendRequests -> SUBSET Records!BatchRecords]
         /\ \A c \in AppendRequests : c # q => taken'[c] = taken[c]
  BY <1>1, RecordsTyped
<1> QED BY <1>1, <1>3, <1>4, <1>5, <1>6, RecordsTyped, AppendMoves DEF AppendHeld

\* A refusal rolls back.
LEMMA RollsBack ==
    ASSUME RecordsInductive, NEW q \in AppendRequests, req[q].pc \in AppendHeld,
           req' = [req EXCEPT ![q] = [@ EXCEPT !.pc = "refused", !.in = {}, !.rest = <<>>]],
           UNCHANGED <<Records!table, Records!time, taken, cmd, sweep, resends>>,
              recordsFaults' \in 0 .. RecordFaults
    PROVE  RecordsInductive'
<1>1. /\ req' \in [AppendRequests -> Appends] /\ \A c \in AppendRequests : c # q => req'[c] = req[c]
      /\ req'[q].pc = "refused" /\ req'[q].key = req[q].key /\ req'[q].batch = req[q].batch
      /\ req'[q].in = {}
  <2>1. [req[q] EXCEPT !.pc = "refused", !.in = {}, !.rest = <<>>] \in Appends
    BY RecordsTyped, EmptySeq DEF Appends, AppendPlaces
  <2> QED BY <2>1, RecordsTyped DEF Appends
<1>2. req[q].key \in IngestKeys /\ req[q].batch \in Batches
  BY RecordsTyped DEF Appending, Admitted, AppendHeld
<1>3. Appending(q)'
  BY <1>1, <1>2, OutsideAppends DEF AppendPlaces
<1> QED BY <1>1, <1>3, RecordsTyped, AppendMoves DEF AppendHeld

\* The lock is shared once no command has it.
LEMMA LockKeeps ==
    ASSUME RecordsInductive, NEW q \in AppendRequests, Records!Lock(q) PROVE RecordsInductive'
<1>1. /\ req[q].pc = "begun" /\ Records!Exclusive = {} /\ req' = [req EXCEPT ![q].pc = "locked"]
      /\ UNCHANGED <<Records!table, Records!time, taken, cmd, sweep, resends, recordsFaults>>
  BY DEF Records!Lock
<1>2. /\ req' \in [AppendRequests -> Appends] /\ \A c \in AppendRequests : c # q => req'[c] = req[c]
      /\ req'[q].pc = "locked" /\ req'[q].key = req[q].key /\ req'[q].batch = req[q].batch
      /\ req'[q].in = req[q].in
  BY <1>1, RecordsTyped, ZenonT(40) DEF Appends, AppendPlaces
<1>3. req[q].in = {} /\ req[q].key \in IngestKeys /\ req[q].batch \in Batches
  BY <1>1, RecordsTyped DEF Appending, Admitted
<1>4. Appending(q)'
  BY <1>2, <1>3, OutsideAppends DEF AppendPlaces
<1> QED BY <1>1, <1>2, <1>3, <1>4, RecordsTyped, AppendMoves

\* A key that is not revoked now is not purged.
LEMMA CheckKeyKeeps ==
    ASSUME RecordsInductive, NEW q \in AppendRequests, Records!CheckKey(q) PROVE RecordsInductive'
<1>1. req[q].pc = "locked"
  BY DEF Records!CheckKey
<1>2. CASE Records!Refuse(q)
  BY <1>1, <1>2, RecordsTyped, RollsBack DEF Records!Refuse, AppendHeld
<1>3. CASE /\ req[q].key \notin revoked /\ req' = [req EXCEPT ![q].pc = "keyed"]
           /\ UNCHANGED <<Records!table, Records!time, taken, cmd, sweep, resends, recordsFaults>>
  <2>1. /\ req' \in [AppendRequests -> Appends] /\ \A c \in AppendRequests : c # q => req'[c] = req[c]
        /\ req'[q].pc = "keyed" /\ req'[q].key = req[q].key /\ req'[q].batch = req[q].batch
        /\ req'[q].in = req[q].in
    BY <1>3, RecordsTyped DEF Appends, AppendPlaces
  <2>2. req[q].in = {} /\ req[q].key \in IngestKeys /\ req[q].batch \in Batches
    BY <1>1, RecordsTyped DEF Appending, Admitted
  <2>3. req[q].key \notin purged'
    BY <1>3, RecordsTyped DEF RecordsTypes, Records!table
  <2>4. Appending(q)'
    BY <2>1, <2>2, <2>3 DEF Appending, Admitted, InOrder, Accounted
  <2> QED BY <1>1, <1>3, <2>1, <2>2, <2>4, RecordsTyped, AppendMoves DEF AppendHeld
<1> QED BY <1>2, <1>3 DEF Records!CheckKey

\* No decision of the batch is erased, and the lock keeps it so.
LEMMA CheckErasedKeeps ==
    ASSUME RecordsAssumptions, RecordsInductive, NEW q \in AppendRequests, Records!CheckErased(q)
    PROVE  RecordsInductive'
<1>1. req[q].pc = "keyed"
  BY DEF Records!CheckErased
<1>2. CASE Records!Refuse(q)
  BY <1>1, <1>2, RecordsTyped, RollsBack DEF Records!Refuse, AppendHeld
<1>3. CASE /\ Records!DecisionsOf(Records!ToSet(req[q].batch)) \cap tombs = {}
           /\ req' = [req EXCEPT ![q].pc = "insert", ![q].rest = Records!InsertOrder(req[q].batch)]
           /\ UNCHANGED <<Records!table, Records!time, taken, cmd, sweep, resends, recordsFaults>>
  <2>1. /\ req[q].in = {} /\ req[q].key \in IngestKeys /\ req[q].batch \in Batches
              /\ req[q].key \notin purged
        /\ tombs' = tombs /\ purged' = purged
    BY <1>1, <1>3, RecordsTyped DEF Appending, Admitted, Records!table
  <2> DEFINE s == Records!InsertOrder(req[q].batch)
  <2>2. s \in Seq(Records!Record) /\ Sorted(s) /\ Records!ToSet(s) = Records!ToSet(req[q].batch)
    BY <2>1, InsertsInOrder DEF RecordsAssumptions
  <2> HIDE DEF s
  <2>3. /\ req' \in [AppendRequests -> Appends] /\ \A c \in AppendRequests : c # q => req'[c] = req[c]
        /\ req'[q].pc = "insert" /\ req'[q].key = req[q].key /\ req'[q].batch = req[q].batch
        /\ req'[q].in = req[q].in /\ req'[q].rest = s
    <3>1. req' = [req EXCEPT ![q].pc = "insert", ![q].rest = s]
      BY <1>3 DEF s
    <3> QED BY <2>2, <3>1, RecordsTyped, ZenonT(40) DEF Appends, AppendPlaces
  <2>4. Admitted(q)'
    BY <1>3, <2>1, <2>3 DEF Admitted
  <2>5. InOrder(q)' /\ Accounted(q)'
    BY <2>1, <2>2, <2>3 DEF InOrder, Accounted
  <2>6. Appending(q)'
    BY <2>4, <2>5 DEF Appending
  <2> QED BY <1>1, <1>3, <2>1, <2>3, <2>6, RecordsTyped, AppendMoves DEF AppendHeld
<1> QED BY <1>2, <1>3 DEF Records!CheckErased

\* One record is inserted, or found: whoever holds its key must have ended.
LEMMA InsertRowKeeps ==
    ASSUME RecordsAssumptions, RecordsInductive, NEW q \in AppendRequests, Records!InsertRow(q)
    PROVE  RecordsInductive'
<1> DEFINE s == req[q].rest
           r == Head(s)
           stored == {x \in rows : Records!Collide(x.rec, r)}
           row == [rec |-> r, by |-> req[q].key, at |-> req[q].at]
           in == IF stored = {} THEN req[q].in \cup {row} ELSE req[q].in
<1>1. /\ req[q].pc = "insert" /\ s # <<>> /\ \A b \in AppendRequests : ~Records!WaitsFor(q, b)
      /\ \/ Records!Refuse(q)
         \/ /\ req' = [req EXCEPT ![q].rest = Tail(@),
                  ![q].in = IF stored = {} THEN @ \cup {row} ELSE @]
            /\ UNCHANGED <<Records!table, Records!time, taken, cmd, sweep, resends, recordsFaults>>
  BY DEF Records!InsertRow
<1>2. CASE Records!Refuse(q)
  BY <1>1, <1>2, RecordsTyped, RollsBack DEF Records!Refuse, AppendHeld
<1>3. CASE /\ req' = [req EXCEPT ![q].rest = Tail(@), ![q].in = IF stored = {} THEN @ \cup {row} ELSE @]
           /\ UNCHANGED <<Records!table, Records!time, taken, cmd, sweep, resends, recordsFaults>>
  <2>1. /\ req[q].in \subseteq Records!Row /\ req[q].key \in IngestKeys /\ req[q].batch \in Batches
        /\ req[q].key \notin purged /\ Records!DecisionsOf(Records!ToSet(req[q].batch)) \cap tombs = {}
        /\ req[q].at \in 0 .. MaxTime
        /\ \A x \in req[q].in : x.by = req[q].key /\ x.rec \in Records!ToSet(req[q].batch)
    BY <1>1, RecordsTyped DEF Appending, Admitted, Appends
  <2>2. /\ s \in Seq(Records!Record) /\ Sorted(s)
              /\ Records!ToSet(s) \subseteq Records!ToSet(req[q].batch)
        /\ \A x \in req[q].in : \A i \in DOMAIN s : Records!Before(x.rec, s[i])
    BY <1>1, RecordsTyped DEF Appending, InOrder, Appends
  <2>3. /\ r = s[1] /\ Tail(s) \in Seq(Records!Record) /\ Len(s) \in Nat \ {0} /\ DOMAIN s = 1 .. Len(s)
        /\ DOMAIN Tail(s) = 1 .. Len(s) - 1 /\ \A i \in 1 .. Len(s) - 1 : Tail(s)[i] = s[i + 1]
    BY <1>1, <2>2, HeadTailProperties, LenProperties, EmptySeq
  <2>4. /\ req' = [req EXCEPT ![q] = [[req[q] EXCEPT !.rest = Tail(s)] EXCEPT !.in = in]]
        /\ UNCHANGED <<Records!table, Records!time, taken, cmd, sweep, resends, recordsFaults>>
    BY <1>3, RecordsTyped DEF Appends
  <2>5. r \in Records!ToSet(req[q].batch) /\ r \in Records!BatchRecords
    <3>1. 1 \in DOMAIN s
      BY <2>3
    <3>2. r \in Records!ToSet(s)
      BY <2>3, <3>1 DEF Records!ToSet
    <3>3. r \in Records!ToSet(req[q].batch)
      BY <2>2, <3>2
    <3>4. Records!ToSet(req[q].batch) \subseteq Records!BatchRecords
      BY <2>1 DEF Records!BatchRecords
    <3> QED BY <3>3, <3>4
  <2>6. in \subseteq Records!Row /\ \A x \in in : x \in req[q].in \/ (x = row /\ stored = {})
    BY <2>1, <2>5 DEF Records!Row
  <2>7. row.rec = r /\ row.by = req[q].key
    OBVIOUS
  <2>8. stored = {} => row \in in
    OBVIOUS
  <2>9. req[q].in \subseteq in
    OBVIOUS
  <2>10. ASSUME NEW b \in AppendRequests, b # q, NEW y \in req[b].in PROVE ~Records!Collide(y.rec, r)
    BY <1>1, <2>10 DEF Records!WaitsFor, Records!Holds
  <2>11. stored # {} => \E x \in rows : Records!Collide(x.rec, r)
    OBVIOUS
  <2> HIDE DEF in, stored, row, r, s
  <2>12. /\ req' \in [AppendRequests -> Appends] /\ \A c \in AppendRequests : c # q => req'[c] = req[c]
         /\ req'[q].pc = "insert" /\ req'[q].key = req[q].key /\ req'[q].batch = req[q].batch
         /\ req'[q].in = in /\ req'[q].rest = Tail(s)
    <3>1. [req[q] EXCEPT !.rest = Tail(s)] \in Appends
      BY <2>3, RecordsTyped, ZenonT(40) DEF Appends
    <3>2. \A f \in Appends : [f EXCEPT !.in = in] \in Appends
      BY <2>6 DEF Appends
    <3>3. [[req[q] EXCEPT !.rest = Tail(s)] EXCEPT !.in = in] \in Appends
      BY <3>1, <3>2
    <3> QED BY <1>1, <2>4, <3>3, RecordsTyped DEF Appends
  <2>13. \A x \in in : x.by = req[q].key /\ x.rec \in Records!ToSet(req[q].batch)
    BY <2>1, <2>5, <2>6, <2>7
  <2>14. Admitted(q)'
    BY <2>1, <2>4, <2>12, <2>13 DEF Admitted, Records!table
  <2>15. InOrder(q)'
    <3>1. \A i, j \in 1 .. Len(s) - 1 : i < j => Records!Before(Tail(s)[i], Tail(s)[j])
      BY <2>2, <2>3 DEF Sorted
    <3>2. \A i \in 1 .. Len(s) - 1 : Records!Before(r, Tail(s)[i])
      <4>1. \A i \in 1 .. Len(s) - 1 : i + 1 \in DOMAIN s /\ 1 \in DOMAIN s /\ 1 < i + 1
        BY <2>3
      <4> QED BY <2>2, <2>3, <4>1 DEF Sorted
    <3>3. \A x \in in : \A i \in 1 .. Len(s) - 1 : Records!Before(x.rec, Tail(s)[i])
      <4>1. \A x \in req[q].in : \A i \in 1 .. Len(s) - 1 : Records!Before(x.rec, Tail(s)[i])
        BY <2>2, <2>3
      <4> QED BY <2>6, <2>7, <3>2, <4>1
    <3>4. Records!ToSet(Tail(s)) \subseteq Records!ToSet(req[q].batch)
      <4>1. Records!ToSet(Tail(s)) \subseteq Records!ToSet(s)
        BY <2>3 DEF Records!ToSet
      <4> QED BY <2>2, <4>1
    <3> QED BY <2>3, <2>12, <3>1, <3>3, <3>4 DEF InOrder, Sorted
  <2>16. Accounted(q)'
    <3> SUFFICES ASSUME NEW p \in Records!ToSet(req[q].batch)
                 PROVE  Placed(q, p)' \/ p \in Records!ToSet(Tail(s))
                           \/ \E x \in rows : Records!Collide(x.rec, p)
      BY <2>4, <2>12 DEF Accounted, Records!table
    <3>1. Placed(q, p) \/ p \in Records!ToSet(s) \/ \E x \in rows : Records!Collide(x.rec, p)
      BY <1>1, RecordsTyped DEF Appending, Accounted, s
    <3>2. Placed(q, p) => Placed(q, p)'
      BY <2>4, <2>9, <2>12 DEF Placed
    <3>3. p \in Records!ToSet(s) => p = r \/ p \in Records!ToSet(Tail(s))
      <4> SUFFICES ASSUME NEW i \in 1 .. Len(s), p = s[i], i # 1 PROVE p \in Records!ToSet(Tail(s))
        BY <2>3 DEF Records!ToSet
      <4>1. i - 1 \in 1 .. Len(s) - 1 /\ Tail(s)[i - 1] = s[i - 1 + 1] /\ i - 1 + 1 = i
        BY <2>3
      <4> QED BY <2>3, <4>1 DEF Records!ToSet
    <3>4. p = r => Placed(q, p)' \/ \E x \in rows : Records!Collide(x.rec, p)
      BY <2>7, <2>8, <2>11, <2>12 DEF Placed
    <3> QED BY <3>1, <3>2, <3>3, <3>4
  <2>17. Appending(q)'
    BY <2>14, <2>15, <2>16 DEF Appending
  <2>18. \A b \in AppendRequests : b # q
            => \A x \in req'[q].in, y \in req[b].in : ~Records!Collide(x.rec, y.rec)
    <3> SUFFICES ASSUME NEW b \in AppendRequests, b # q, NEW x \in in, NEW y \in req[b].in
                 PROVE  ~Records!Collide(x.rec, y.rec)
      BY <2>12
    <3>1. CASE x \in req[q].in
      BY <3>1 DEF RecordsInductive, NoTwins
    <3>2. CASE x = row
      BY <2>7, <2>10, <3>2, CollideIsSymmetric
    <3> QED BY <2>6, <3>1, <3>2
  <2> QED BY <1>1, <2>4, <2>12, <2>17, <2>18, RecordsTyped, AppendMoves DEF AppendHeld
<1> QED BY <1>1, <1>2, <1>3

\* What is stored under a key of the batch is the very record.
LEMMA CheckConflictsKeeps ==
    ASSUME RecordsInductive, NEW q \in AppendRequests, Records!CheckConflicts(q) PROVE RecordsInductive'
<1>1. req[q].pc = "insert" /\ req[q].rest = <<>>
  BY DEF Records!CheckConflicts
<1>2. CASE Records!Refuse(q)
  BY <1>1, <1>2, RecordsTyped, RollsBack DEF Records!Refuse, AppendHeld
<1>3. CASE /\ \A r \in Records!ToSet(req[q].batch), x \in rows : Records!Collide(x.rec, r) => x.rec = r
           /\ req' = [req EXCEPT ![q].pc = "checked"]
           /\ UNCHANGED <<Records!table, Records!time, taken, cmd, sweep, resends, recordsFaults>>
  <2>1. /\ req' \in [AppendRequests -> Appends] /\ \A c \in AppendRequests : c # q => req'[c] = req[c]
        /\ req'[q].pc = "checked" /\ req'[q].key = req[q].key /\ req'[q].batch = req[q].batch
        /\ req'[q].in = req[q].in
    BY <1>3, RecordsTyped DEF Appends, AppendPlaces
  <2>2. Admitted(q)' /\ InOrder(q)'
    BY <1>1, <1>3, <2>1, RecordsTyped DEF Appending, Admitted, InOrder, Records!table
  <2>3. Records!ToSet(req[q].rest) = {}
    BY <1>1 DEF Records!ToSet
  <2>4. \A r : Placed(q, r) => Placed(q, r)'
    BY <1>3, <2>1 DEF Placed
  <2>5. \A r \in Records!ToSet(req[q].batch) : Placed(q, r)' \/ \E x \in rows : x.rec = r
    BY <1>1, <1>3, <2>3, <2>4, RecordsTyped DEF Appending, Accounted
  <2>6. Appending(q)'
    BY <1>3, <2>1, <2>2, <2>5 DEF Appending, Accounted, Records!table
  <2>7. \A b \in AppendRequests : b # q
           => \A x \in req'[q].in, y \in req[b].in : ~Records!Collide(x.rec, y.rec)
    BY <2>1 DEF RecordsInductive, NoTwins
  <2> QED BY <1>1, <1>3, <2>1, <2>6, <2>7, RecordsTyped, AppendMoves DEF AppendHeld
<1> QED BY <1>2, <1>3 DEF Records!CheckConflicts

\* A batch that is sent again starts over.
LEMMA ResendKeeps ==
    ASSUME RecordsAssumptions, RecordsInductive, NEW q \in AppendRequests, Records!Resend(q)
    PROVE  RecordsInductive'
<1>1. /\ req[q].pc \in {"stored", "refused"} /\ resends < MaxResends /\ resends' = resends + 1
      /\ req' = [req EXCEPT ![q] = [@ EXCEPT !.pc = "authenticated", !.at = 0]]
      /\ UNCHANGED <<Records!table, Records!time, taken, cmd, sweep, recordsFaults>>
  BY DEF Records!Resend
<1>2. /\ req' \in [AppendRequests -> Appends] /\ \A c \in AppendRequests : c # q => req'[c] = req[c]
      /\ req'[q].pc = "authenticated" /\ req'[q].key = req[q].key /\ req'[q].batch = req[q].batch
      /\ req'[q].in = req[q].in
  <2>1. 0 \in 0 .. MaxTime
    BY DEF RecordsAssumptions, Records!BoundsAssumption
  <2>2. [req[q] EXCEPT !.pc = "authenticated", !.at = 0] \in Appends
    BY <2>1, RecordsTyped DEF Appends, AppendPlaces
  <2> QED BY <1>1, <2>2, RecordsTyped DEF Appends
<1>3. req[q].in = {} /\ req[q].key \in IngestKeys /\ req[q].batch \in Batches
  BY <1>1, RecordsTyped DEF Appending, Admitted
<1>4. Appending(q)'
  BY <1>2, <1>3, OutsideAppends DEF AppendPlaces
<1>5. resends' \in 0 .. MaxResends
  BY <1>1, RecordsTyped DEF RecordsAssumptions, Records!BoundsAssumption
<1> QED BY <1>1, <1>2, <1>3, <1>4, <1>5, RecordsTyped, AppendMoves DEF AppendHeld

\* What is stored was admitted under the lock, and no command is deleting.
LEMMA CommitAppendKeeps ==
    ASSUME RecordsInductive, NEW q \in AppendRequests, Records!CommitAppend(q) PROVE RecordsInductive'
<1>1. /\ req[q].pc = "checked" /\ rows' = rows \cup req[q].in
      /\ req' = [req EXCEPT ![q] = [@ EXCEPT !.pc = "stored", !.in = {}]]
      /\ UNCHANGED <<tombs, revoked, purged, days, clock, taken, cmd, sweep, resends, recordsFaults>>
  BY DEF Records!CommitAppend, Records!time
<1>2. /\ req' \in [AppendRequests -> Appends] /\ \A c \in AppendRequests : c # q => req'[c] = req[c]
      /\ req'[q].pc = "stored" /\ req'[q].key = req[q].key /\ req'[q].batch = req[q].batch
      /\ req'[q].in = {}
  BY <1>1, RecordsTyped, ZenonT(40) DEF Appends, AppendPlaces
<1>3. /\ req[q].key \in IngestKeys /\ req[q].batch \in Batches /\ req[q].in \subseteq Records!Row
      /\ req[q].key \notin purged /\ Records!DecisionsOf(Records!ToSet(req[q].batch)) \cap tombs = {}
      /\ \A x \in req[q].in : x.by = req[q].key /\ x.rec \in Records!ToSet(req[q].batch)
  BY <1>1, RecordsTyped DEF Appending, Admitted, Appends
<1>4. Records!Exclusive = {}
  BY <1>1 DEF RecordsInductive, RecordsLocking, Records!InTransaction
<1>5. RecordsTypes'
  BY <1>1, <1>2, <1>3, RecordsTyped DEF RecordsTypes
<1>6. RecordsLocking' /\ DeletesAreApart'
  <2>1. Records!Exclusive' = {}
    BY <1>1, <1>4 DEF Records!Exclusive
  <2> QED BY <1>1, <2>1 DEF RecordsInductive, RecordsLocking, DeletesAreApart
<1>7. NoTwins'
  BY <1>2 DEF RecordsInductive, NoTwins
<1>8. \A o \in RecordOwners : Commanding(o)'
  BY <1>1, <1>4 DEF Commanding, Records!Exclusive
<1>9. ASSUME NEW b \in AppendRequests PROVE Appending(b)'
  <2>1. CASE b = q
    BY <1>2, <1>3, <2>1, OutsideAppends DEF AppendPlaces
  <2>2. CASE b # q
    BY <1>1, <1>2, <2>2, StaysAppending
  <2> QED BY <2>1, <2>2
<1>10. Records!ErasedStaysErased'
  <2>1. \A x \in req[q].in : x.rec.decision \notin tombs
    BY <1>3 DEF Records!DecisionsOf
  <2> QED BY <1>1, <2>1 DEF RecordsInductive, Records!ErasedStaysErased
<1>11. Records!PurgedSendsNothing'
  BY <1>1, <1>3 DEF RecordsInductive, Records!PurgedSendsNothing
<1> QED BY <1>5, <1>6, <1>7, <1>8, <1>9, <1>10, <1>11 DEF RecordsInductive

\* A step of one command that commits nothing yet.
LEMMA CommandMoves ==
    ASSUME RecordsInductive, NEW o \in RecordOwners, cmd' \in [RecordOwners -> Commands],
           \A p \in RecordOwners : p # o => cmd'[p] = cmd[p],
           UNCHANGED <<Records!table, Records!time, req, taken, sweep, resends>>,
              recordsFaults' \in 0 .. RecordFaults,
           cmd'[o].pc \in {"locked", "deleted"}
              => o \in Records!Exclusive \/ Records!InTransaction \cup Records!Exclusive = {},
           cmd'[o].del \subseteq rows, cmd'[o].pc # "deleted" => cmd'[o].del = {},
           \A w \in RecordSweepers : cmd'[o].del \cap sweep[w].del = {},
           Commanding(o)'
    PROVE  RecordsInductive'
<1>1. UNCHANGED <<rows, tombs, revoked, purged, days, clock, req, taken, sweep, resends>>
  BY DEF Records!table, Records!time
<1>2. RecordsTypes'
  BY <1>1, RecordsTyped DEF RecordsTypes
<1>3. RecordsLocking'
  <2>1. Records!InTransaction' = Records!InTransaction
    BY DEF Records!InTransaction
  <2>2. Records!Exclusive' \subseteq Records!Exclusive \cup {o}
    BY DEF Records!Exclusive
  <2>3. o \in Records!Exclusive'
           => o \in Records!Exclusive \/ Records!InTransaction \cup Records!Exclusive = {}
    BY DEF Records!Exclusive
  <2> QED BY <1>1, <2>1, <2>2, <2>3 DEF RecordsInductive, RecordsLocking
<1>4. DeletesAreApart'
  BY <1>1 DEF RecordsInductive, DeletesAreApart
<1>5. NoTwins' /\ Records!ErasedStaysErased' /\ Records!PurgedSendsNothing'
  BY <1>1 DEF RecordsInductive, NoTwins, Records!ErasedStaysErased, Records!PurgedSendsNothing
<1>6. ASSUME NEW p \in RecordOwners, p # o PROVE Commanding(p)'
  BY <1>1, <1>6 DEF RecordsInductive, Commanding, Records!Exclusive, Records!Matches
<1>7. \A b \in AppendRequests : Appending(b)'
  BY <1>1, StaysAppending
<1> QED BY <1>2, <1>3, <1>4, <1>5, <1>6, <1>7 DEF RecordsInductive

\* A command takes the lock when no append and no command has it.
LEMMA LockToDeleteKeeps ==
    ASSUME RecordsInductive, NEW o \in RecordOwners, Records!LockAlone(o),
           NEW op, NEW arg, \/ op = "erase" /\ arg \in Records!DecisionsOf(Records!BatchRecords)
                            \/ op = "purge" /\ arg \in revoked,
           cmd' = [cmd EXCEPT ![o] = [pc |-> "locked", op |-> op, arg |-> arg, del |-> {}]],
           UNCHANGED <<Records!table, Records!time, req, taken, sweep, resends, recordsFaults>>
    PROVE  RecordsInductive'
<1> DEFINE v == [pc |-> "locked", op |-> op, arg |-> arg, del |-> {}]
<1>1. v \in Commands /\ v.pc = "locked" /\ v.op = op /\ v.arg = arg /\ v.del = {}
  BY RecordsTyped DEF Commands, RecordsTypes
<1>2. cmd' = [cmd EXCEPT ![o] = v]
  OBVIOUS
<1> HIDE DEF v
<1>3. cmd' \in [RecordOwners -> Commands] /\ cmd'[o] = v
         /\ \A p \in RecordOwners : p # o => cmd'[p] = cmd[p]
  BY <1>1, <1>2, RecordsTyped
<1>4. Commanding(o)'
  BY <1>1, <1>3 DEF Commanding, Records!table
<1>5. Records!InTransaction \cup Records!Exclusive = {}
  BY DEF Records!LockAlone
<1>6. recordsFaults' \in 0 .. RecordFaults
  BY RecordsTyped
<1> QED BY <1>1, <1>3, <1>4, <1>5, <1>6, CommandMoves

\* A command deletes all that it names.
LEMMA DeleteKeeps ==
    ASSUME RecordsInductive, NEW o \in RecordOwners, Records!Delete(o) PROVE RecordsInductive'
<1> DEFINE del == {x \in rows : Records!Matches(o, x)}
<1>1. /\ cmd[o].pc = "locked" /\ del \cap Records!Deleting = {}
      /\ cmd' = [cmd EXCEPT ![o].pc = "deleted", ![o].del = del]
      /\ UNCHANGED <<Records!table, Records!time, req, taken, sweep, resends, recordsFaults>>
  BY DEF Records!Delete
<1>2. del \subseteq rows /\ \A x \in rows : Records!Matches(o, x) => x \in del
  OBVIOUS
<1> HIDE DEF del
<1>3. /\ cmd' \in [RecordOwners -> Commands] /\ \A p \in RecordOwners : p # o => cmd'[p] = cmd[p]
      /\ cmd'[o].pc = "deleted" /\ cmd'[o].del = del
      /\ cmd'[o].op = cmd[o].op /\ cmd'[o].arg = cmd[o].arg
  BY <1>1, <1>2, RecordsTyped DEF Commands
<1>4. o \in Records!Exclusive
  BY <1>1 DEF Records!Exclusive
<1>5. Commanding(o)'
  BY <1>1, <1>2, <1>3, <1>4, RecordsTyped DEF Commanding, Records!Matches, Records!table
<1>6. \A w \in RecordSweepers : del \cap sweep[w].del = {}
  <2> SUFFICES ASSUME NEW w \in RecordSweepers, NEW x \in del, x \in sweep[w].del PROVE FALSE
    OBVIOUS
  <2>1. sweep[w].del \in {sweep[u].del : u \in RecordSweepers}
    OBVIOUS
  <2>2. x \in UNION {sweep[u].del : u \in RecordSweepers}
    BY <2>1, Zenon
  <2>3. x \in Records!Deleting
    BY <2>2 DEF Records!Deleting
  <2> QED BY <1>1, <2>3
<1>7. recordsFaults' \in 0 .. RecordFaults
  BY <1>1, RecordsTyped
<1> QED BY <1>1, <1>2, <1>3, <1>4, <1>5, <1>6, <1>7, CommandMoves

\* What a command commits is all there was, since nothing was appended
\* meanwhile.
LEMMA CommitDeleteKeeps ==
    ASSUME RecordsInductive, NEW o \in RecordOwners, Records!CommitDelete(o) PROVE RecordsInductive'
<1>1. /\ cmd[o].pc = "deleted" /\ rows' = rows \ cmd[o].del
      /\ tombs' = IF cmd[o].op = "erase" THEN tombs \cup {cmd[o].arg} ELSE tombs
      /\ purged' = IF cmd[o].op = "purge" THEN purged \cup {cmd[o].arg} ELSE purged
      /\ cmd' = [cmd EXCEPT ![o].pc = "done", ![o].del = {}]
      /\ UNCHANGED <<revoked, days, clock, req, taken, sweep, resends, recordsFaults>>
  BY DEF Records!CommitDelete, Records!time
<1>2. /\ cmd' \in [RecordOwners -> Commands] /\ \A p \in RecordOwners : p # o => cmd'[p] = cmd[p]
      /\ cmd'[o].pc = "done" /\ cmd'[o].del = {}
  BY <1>1, RecordsTyped, ZenonT(40) DEF Commands
<1>3. o \in Records!Exclusive /\ Records!InTransaction = {}
         /\ \A p \in RecordOwners : p # o => p \notin Records!Exclusive
  BY <1>1 DEF Records!Exclusive, RecordsInductive, RecordsLocking
<1>4. /\ \/ cmd[o].op = "erase" /\ cmd[o].arg \in Records!DecisionsOf(Records!BatchRecords)
         \/ cmd[o].op = "purge" /\ cmd[o].arg \in revoked
      /\ \A x \in rows' : ~Records!Matches(o, x)
  BY <1>1, <1>3, RecordsTyped DEF Commanding
<1>5. RecordsTypes'
  BY <1>1, <1>2, <1>4, RecordsTyped DEF RecordsTypes
<1>6. RecordsLocking'
  <2>1. Records!InTransaction' = {}
    BY <1>1, <1>3 DEF Records!InTransaction
  <2>2. Records!Exclusive' = {}
    BY <1>2, <1>3 DEF Records!Exclusive
  <2> QED BY <1>1, <2>1, <2>2 DEF RecordsInductive, RecordsLocking
<1>7. DeletesAreApart'
  <2>1. \A p \in RecordOwners : cmd'[p].del = {}
    BY <1>2, <1>3 DEF RecordsInductive, DeletesAreApart, Records!Exclusive
  <2>2. \A w \in RecordSweepers : sweep[w].del \subseteq rows'
    BY <1>1 DEF RecordsInductive, DeletesAreApart
  <2> QED BY <1>1, <2>1, <2>2 DEF RecordsInductive, DeletesAreApart
<1>8. NoTwins'
  BY <1>1 DEF RecordsInductive, NoTwins
<1>9. \A p \in RecordOwners : Commanding(p)'
  BY <1>2, <1>3 DEF Commanding, Records!Exclusive
<1>10. ASSUME NEW b \in AppendRequests PROVE Appending(b)'
  BY <1>1, <1>3, StaysAppending, RecordsTyped
<1>11. Records!ErasedStaysErased' /\ Records!PurgedSendsNothing'
  BY <1>1, <1>4
     DEF RecordsInductive, Records!ErasedStaysErased, Records!PurgedSendsNothing, Records!Matches
<1> QED BY <1>5, <1>6, <1>7, <1>8, <1>9, <1>10, <1>11 DEF RecordsInductive

\* A sweep that begins or gives up deletes rows that are there.
LEMMA SweepMoves ==
    ASSUME RecordsInductive, NEW w \in RecordSweepers, NEW p \in {"idle", "deleted"},
           NEW del \in SUBSET rows,
           sweep' = [sweep EXCEPT ![w] = [pc |-> p, del |-> del]],
           UNCHANGED <<Records!table, Records!time, req, taken, cmd, resends>>,
              recordsFaults' \in 0 .. RecordFaults,
           p = "idle" => del = {},
           p = "deleted" => \A v \in RecordSweepers : sweep[v].pc = "idle",
           \A o \in RecordOwners : cmd[o].del \cap del = {}
    PROVE  RecordsInductive'
<1>1. UNCHANGED <<rows, tombs, revoked, purged, days, clock, req, taken, cmd, resends>>
  BY DEF Records!table, Records!time
<1> DEFINE v == [pc |-> p, del |-> del]
<1>2. v \in Sweeps /\ v.pc = p /\ v.del = del
  BY RecordsTyped DEF Sweeps
<1> HIDE DEF v
<1>3. sweep' \in [RecordSweepers -> Sweeps] /\ sweep'[w] = v
         /\ \A u \in RecordSweepers : u # w => sweep'[u] = sweep[u]
  BY <1>2, RecordsTyped DEF v
<1>4. RecordsTypes'
  BY <1>1, <1>3, RecordsTyped DEF RecordsTypes
<1>5. RecordsLocking'
  BY <1>1, <1>2, <1>3 DEF RecordsInductive, RecordsLocking, Records!InTransaction, Records!Exclusive
<1>6. DeletesAreApart'
  BY <1>1, <1>2, <1>3 DEF RecordsInductive, DeletesAreApart
<1>7. NoTwins' /\ Records!ErasedStaysErased' /\ Records!PurgedSendsNothing'
  BY <1>1 DEF RecordsInductive, NoTwins, Records!ErasedStaysErased, Records!PurgedSendsNothing
<1>8. \A o \in RecordOwners : Commanding(o)'
  BY <1>1 DEF RecordsInductive, Commanding, Records!Exclusive, Records!Matches
<1>9. \A b \in AppendRequests : Appending(b)'
  BY <1>1, StaysAppending
<1> QED BY <1>4, <1>5, <1>6, <1>7, <1>8, <1>9 DEF RecordsInductive

\* A sweep deletes rows that no command is deleting.
LEMMA SweepDeleteKeeps ==
    ASSUME RecordsInductive, NEW w \in RecordSweepers, Records!SweepDelete(w)
    PROVE  RecordsInductive'
<1>1. Records!Expired \subseteq rows
  BY DEF Records!Expired
<1>2. \A o \in RecordOwners : cmd[o].del \cap Records!Expired = {}
  BY DEF Records!SweepDelete, Records!Deleting
<1>3. /\ sweep' = [sweep EXCEPT ![w] = [pc |-> "deleted", del |-> Records!Expired]]
      /\ \A v \in RecordSweepers : sweep[v].pc = "idle"
      /\ UNCHANGED <<Records!table, Records!time, req, taken, cmd, resends, recordsFaults>>
  BY DEF Records!SweepDelete
<1>4. recordsFaults' \in 0 .. RecordFaults
  BY <1>3, RecordsTyped
<1> HIDE DEF Records!Expired
<1> QED BY <1>1, <1>2, <1>3, <1>4, SweepMoves

\* What a sweep takes while an append is in its transaction is noted.
LEMMA SweepCommitKeeps ==
    ASSUME RecordsInductive, NEW w \in RecordSweepers, Records!SweepCommit(w)
    PROVE  RecordsInductive'
<1>1. /\ sweep[w].pc = "deleted" /\ rows' = rows \ sweep[w].del
      /\ taken' = [q \in AppendRequests |->
           IF q \in Records!InTransaction THEN taken[q] \cup {x.rec : x \in sweep[w].del} ELSE taken[q]]
      /\ sweep' = [sweep EXCEPT ![w] = [pc |-> "idle", del |-> {}]]
      /\ UNCHANGED <<tombs, revoked, purged, days, clock, req, cmd, resends, recordsFaults>>
  BY DEF Records!SweepCommit, Records!time
<1>2. /\ sweep' \in [RecordSweepers -> Sweeps]
            /\ \A u \in RecordSweepers : u # w => sweep'[u] = sweep[u]
      /\ sweep'[w].pc = "idle" /\ sweep'[w].del = {}
  BY <1>1, RecordsTyped DEF Sweeps
<1>3. sweep[w].del \subseteq rows
         /\ \A u \in RecordSweepers : u # w => sweep[u].del = {} /\ sweep[u].pc # "deleted"
  BY <1>1 DEF RecordsInductive, DeletesAreApart, RecordsLocking
<1>4. \A q \in AppendRequests :
        /\ taken'[q] \subseteq Records!BatchRecords /\ taken[q] \subseteq taken'[q]
        /\ q \in Records!InTransaction => \A x \in sweep[w].del : x.rec \in taken'[q]
  BY <1>1, <1>3, RecordsTyped
<1>5. taken' \in [AppendRequests -> SUBSET Records!BatchRecords]
  BY <1>1, <1>4
<1>6. RecordsTypes'
  BY <1>1, <1>2, <1>5, RecordsTyped DEF RecordsTypes
<1>7. RecordsLocking'
  BY <1>1, <1>2, <1>3 DEF RecordsInductive, RecordsLocking, Records!InTransaction, Records!Exclusive
<1>8. DeletesAreApart'
  BY <1>1, <1>2, <1>3 DEF RecordsInductive, DeletesAreApart
<1>9. NoTwins' /\ Records!ErasedStaysErased' /\ Records!PurgedSendsNothing'
  BY <1>1 DEF RecordsInductive, NoTwins, Records!ErasedStaysErased, Records!PurgedSendsNothing
<1>10. \A o \in RecordOwners : Commanding(o)'
  BY <1>1 DEF RecordsInductive, Commanding, Records!Exclusive, Records!Matches
<1>11. ASSUME NEW b \in AppendRequests PROVE Appending(b)'
  BY <1>1, <1>4, StaysAppending, RecordsTyped
<1> QED BY <1>6, <1>7, <1>8, <1>9, <1>10, <1>11 DEF RecordsInductive

\* A key is revoked, a period set, the clock moves: the table stays.
LEMMA WorldKeeps ==
    ASSUME RecordsInductive, UNCHANGED <<rows, tombs, purged, req, taken, cmd, sweep, resends,
           recordsFaults>>,
           revoked \subseteq revoked', revoked' \subseteq IngestKeys, days' \in Periods,
              clock' \in 0 .. MaxTime
    PROVE  RecordsInductive'
<1>1. RecordsTypes'
  BY RecordsTyped DEF RecordsTypes
<1>2. RecordsLocking' /\ DeletesAreApart' /\ NoTwins' /\ Records!ErasedStaysErased'
         /\ Records!PurgedSendsNothing'
  BY DEF RecordsInductive, RecordsLocking, DeletesAreApart, NoTwins, Records!ErasedStaysErased,
         Records!PurgedSendsNothing, Records!InTransaction, Records!Exclusive
<1>3. \A o \in RecordOwners : Commanding(o)'
  BY DEF RecordsInductive, Commanding, Records!Exclusive, Records!Matches
<1>4. \A b \in AppendRequests : Appending(b)'
  BY StaysAppending
<1> QED BY <1>1, <1>2, <1>3, <1>4 DEF RecordsInductive

\* A transaction that is rolled back leaves what it locked.
LEMMA FaultKeeps ==
    ASSUME RecordsAssumptions, RecordsInductive, Records!Fault
    PROVE  RecordsInductive'
<1>1. recordsFaults' \in 0 .. RecordFaults /\ UNCHANGED <<Records!table, Records!time, taken, resends>>
  <2>1. recordsFaults < RecordFaults /\ recordsFaults' = recordsFaults + 1
           /\ UNCHANGED <<Records!table, Records!time, taken, resends>>
    BY DEF Records!Fault
  <2>2. recordsFaults \in 0 .. RecordFaults /\ RecordFaults \in Nat
    BY RecordsTyped DEF RecordsAssumptions, Records!BoundsAssumption
  <2> QED BY <2>1, <2>2
<1>2. ASSUME NEW q \in Records!InTransaction, UNCHANGED <<cmd, sweep>>,
             req' = [req EXCEPT ![q] = [@ EXCEPT !.pc = "refused", !.in = {}, !.rest = <<>>]]
      PROVE  RecordsInductive'
  <2>1. q \in AppendRequests /\ req[q].pc \in AppendHeld
    BY RecordsTyped DEF Records!InTransaction
  <2> QED BY <1>1, <1>2, <2>1, RollsBack
<1>3. ASSUME NEW o \in Records!Exclusive, UNCHANGED <<req, sweep>>,
             cmd' = [cmd EXCEPT ![o].pc = "done", ![o].del = {}]
      PROVE  RecordsInductive'
  <2>1. o \in RecordOwners
    BY DEF Records!Exclusive
  <2>2. /\ cmd' \in [RecordOwners -> Commands] /\ \A p \in RecordOwners : p # o => cmd'[p] = cmd[p]
        /\ cmd'[o].pc = "done" /\ cmd'[o].del = {}
    BY <1>3, <2>1, RecordsTyped, ZenonT(40) DEF Commands
  <2>3. Commanding(o)'
    BY <2>2 DEF Commanding, Records!Exclusive
  <2> QED BY <1>1, <1>3, <2>1, <2>2, <2>3, CommandMoves
<1>4. ASSUME NEW w \in RecordSweepers, UNCHANGED <<req, cmd>>,
             sweep' = [sweep EXCEPT ![w] = [pc |-> "idle", del |-> {}]]
      PROVE  RecordsInductive'
  <2>1. {} \in SUBSET rows /\ "idle" \in {"idle", "deleted"}
           /\ \A o \in RecordOwners : cmd[o].del \cap {} = {}
    OBVIOUS
  <2> QED BY <1>1, <1>4, <2>1, SweepMoves
<1> QED BY <1>2, <1>3, <1>4 DEF Records!Fault

\* An empty project satisfies the invariant.
LEMMA RecordsInitially == ASSUME RecordsAssumptions, Records!Init PROVE RecordsInductive
<1>1. Records!Idle \in Appends /\ Records!Idle.pc = "idle" /\ Records!Idle.in = {}
  <2>1. 0 \in 0 .. MaxTime /\ <<>> \in Seq(Records!Record)
    BY EmptySeq DEF RecordsAssumptions, Records!BoundsAssumption
  <2> QED BY <2>1 DEF Records!Idle, Appends, AppendPlaces
<1>2. req \in [AppendRequests -> Appends] /\ \A q \in AppendRequests : req[q].pc = "idle" /\ req[q].in = {}
  BY <1>1 DEF Records!Init
<1>3. cmd \in [RecordOwners -> Commands]
         /\ \A o \in RecordOwners : cmd[o].pc = "idle" /\ cmd[o].del = {}
  BY DEF Records!Init, Commands
<1>4. sweep \in [RecordSweepers -> Sweeps]
         /\ \A w \in RecordSweepers : sweep[w].pc = "idle" /\ sweep[w].del = {}
  BY DEF Records!Init, Sweeps
<1>5. RecordsTypes
  <2>1. /\ rows \subseteq Records!Row /\ tombs \subseteq Records!DecisionsOf(Records!BatchRecords)
        /\ revoked \subseteq IngestKeys /\ purged \subseteq revoked /\ days \in Periods
    BY DEF Records!Init
  <2>2. clock \in 0 .. MaxTime /\ resends \in 0 .. MaxResends /\ recordsFaults \in 0 .. RecordFaults
    BY DEF Records!Init, RecordsAssumptions, Records!BoundsAssumption
  <2>3. taken \in [AppendRequests -> SUBSET Records!BatchRecords]
    BY DEF Records!Init
  <2> QED BY <1>2, <1>3, <1>4, <2>1, <2>2, <2>3 DEF RecordsTypes
<1>6. RecordsLocking /\ DeletesAreApart
  BY <1>2, <1>3, <1>4 DEF RecordsLocking, DeletesAreApart, Records!InTransaction, Records!Exclusive
<1>7. NoTwins
  BY <1>2 DEF NoTwins
<1>8. \A o \in RecordOwners : Commanding(o)
  BY <1>3 DEF Commanding, Records!Exclusive
<1>9. \A q \in AppendRequests : Appending(q)
  BY <1>2 DEF Appending, Admitted, InOrder, Accounted
<1>10. Records!ErasedStaysErased /\ Records!PurgedSendsNothing
  BY DEF Records!Init, Records!ErasedStaysErased, Records!PurgedSendsNothing
<1> QED BY <1>5, <1>6, <1>7, <1>8, <1>9, <1>10 DEF RecordsInductive

\* Every step keeps the table and whoever is about to change it.
LEMMA RecordsStep ==
    ASSUME RecordsAssumptions, RecordsInductive, [Records!Next]_(Records!vars)
    PROVE  RecordsInductive'
<1>1. ASSUME NEW q \in AppendRequests, Records!AppendRecords(q) \/ Records!Resend(q)
      PROVE  RecordsInductive'
  BY <1>1, BeginKeeps, LockKeeps, CheckKeyKeeps, CheckErasedKeeps, InsertRowKeeps,
     CheckConflictsKeeps, CommitAppendKeeps, ResendKeeps
     DEF Records!AppendRecords
<1>2. ASSUME NEW q \in AppendRequests, NEW k \in IngestKeys, NEW b \in Batches, Records!Authenticate(q, k, b)
      PROVE  RecordsInductive'
  BY <1>2, AuthenticateKeeps
<1>3. ASSUME NEW k \in IngestKeys, Records!RevokeApiKey(k) PROVE RecordsInductive'
  <2>1. UNCHANGED <<rows, tombs, purged, days, clock, req, taken, cmd, sweep, resends, recordsFaults>>
        /\ revoked' = revoked \cup {k}
    BY <1>3 DEF Records!RevokeApiKey, Records!time
  <2> QED BY <2>1, RecordsTyped, WorldKeeps DEF RecordsTypes
<1>4. ASSUME NEW n \in Periods, Records!SetRetentionDays(n) PROVE RecordsInductive'
  <2>1. UNCHANGED <<rows, tombs, revoked, purged, clock, req, taken, cmd, sweep, resends,
           recordsFaults>> /\ days' = n
    BY <1>4 DEF Records!SetRetentionDays, Records!table
  <2> QED BY <2>1, RecordsTyped, WorldKeeps DEF RecordsTypes
<1>5. ASSUME NEW o \in RecordOwners, NEW d \in Records!DecisionsOf(Records!BatchRecords),
             Records!LockToErase(o, d)
      PROVE  RecordsInductive'
  BY <1>5, LockToDeleteKeeps DEF Records!LockToErase
<1>6. ASSUME NEW o \in RecordOwners, NEW k \in IngestKeys, Records!LockToPurge(o, k)
      PROVE  RecordsInductive'
  BY <1>6, LockToDeleteKeeps DEF Records!LockToPurge
<1>7. ASSUME NEW o \in RecordOwners, Records!Delete(o) \/ Records!CommitDelete(o)
      PROVE  RecordsInductive'
  BY <1>7, DeleteKeeps, CommitDeleteKeeps
<1>8. ASSUME NEW w \in RecordSweepers, Records!Retain(w) PROVE RecordsInductive'
  BY <1>8, SweepDeleteKeeps, SweepCommitKeeps DEF Records!Retain
<1>9. CASE Records!Tick
  <2>1. UNCHANGED <<rows, tombs, revoked, purged, days, req, taken, cmd, sweep, resends, recordsFaults>>
        /\ clock' = clock + 1 /\ clock < MaxTime
    BY <1>9 DEF Records!Tick, Records!table
  <2>2. clock' \in 0 .. MaxTime
    BY <2>1, RecordsTyped DEF RecordsTypes, RecordsAssumptions, Records!BoundsAssumption
  <2> QED BY <2>1, <2>2, RecordsTyped, WorldKeeps DEF RecordsTypes
<1>10. CASE UNCHANGED Records!vars
  <2>1. UNCHANGED <<rows, tombs, revoked, purged, days, clock, req, taken, cmd, sweep, resends,
           recordsFaults>>
    BY <1>10 DEF Records!vars
  <2> QED BY <2>1, RecordsTyped, WorldKeeps DEF RecordsTypes
<1> QED BY <1>1, <1>2, <1>3, <1>4, <1>5, <1>6, <1>7, <1>8, <1>9, <1>10, FaultKeeps DEF Records!Next

-----------------------------------------------------------------------------
(* What follows.                                                           *)

\* The invariant is about what the variables hold.
LEMMA RecordsAreTyped == ASSUME RecordsInductive PROVE Records!TypeOK
<1>1. \A q \in AppendRequests : \A x \in req[q].in : x.by = req[q].key /\ q \in Records!InTransaction
  BY RecordsTyped DEF Appending, Admitted, AppendHeld
<1>2. \A q \in AppendRequests : req[q].in \subseteq Records!Row /\ taken[q] \subseteq Records!BatchRecords
  BY RecordsTyped DEF Appends
<1>3. Records!Deleting \subseteq rows
  <2> DEFINE owned == UNION {cmd[o].del : o \in RecordOwners}
             swept == UNION {sweep[w].del : w \in RecordSweepers}
  <2>1. owned \subseteq rows
    BY DEF RecordsInductive, DeletesAreApart
  <2>2. swept \subseteq rows
    BY DEF RecordsInductive, DeletesAreApart
  <2>3. Records!Deleting = owned \cup swept
    BY Zenon DEF Records!Deleting
  <2> HIDE DEF owned, swept
  <2> QED BY <2>1, <2>2, <2>3
<1> QED BY <1>1, <1>2, <1>3, RecordsTyped DEF RecordsTypes, Records!TypeOK

\* Two appends that wait for each other hold rows of the same decision, or
\* wait against the order in which both insert.
LEMMA AppendsWaitInOrder ==
    ASSUME RecordsAssumptions, RecordsInductive
    PROVE  Records!AppendsDoNotDeadlock
<1> SUFFICES ASSUME NEW q \in AppendRequests, NEW b \in AppendRequests, Records!WaitsFor(q, b),
                    Records!WaitsFor(b, q) PROVE FALSE
  BY DEF Records!AppendsDoNotDeadlock
<1> DEFINE f == Head(req[q].rest)
           g == Head(req[b].rest)
<1>1. /\ q # b /\ req[q].pc = "insert" /\ req[b].pc = "insert"
      /\ req[q].rest # <<>> /\ req[b].rest # <<>>
  BY DEF Records!WaitsFor
<1>2. PICK x \in req[b].in, y \in req[q].in : Records!Collide(x.rec, f) /\ Records!Collide(y.rec, g)
  BY DEF Records!WaitsFor, Records!Holds
<1>3. f \in Records!Record /\ g \in Records!Record /\ Records!Before(y.rec, f)
         /\ Records!Before(x.rec, g)
  <2>1. ASSUME NEW a \in AppendRequests, req[a].pc = "insert", req[a].rest # <<>>
        PROVE  Head(req[a].rest) \in Records!Record
                  /\ \A z \in req[a].in : Records!Before(z.rec, Head(req[a].rest))
    <3> DEFINE s == req[a].rest
    <3>1. s \in Seq(Records!Record)
             /\ \A z \in req[a].in : \A i \in DOMAIN s : Records!Before(z.rec, s[i])
      BY <2>1, RecordsTyped DEF Appending, InOrder, Appends
    <3> HIDE DEF s
    <3>2. Head(s) = s[1] /\ 1 \in DOMAIN s /\ s[1] \in Records!Record
      BY <2>1, <3>1, HeadTailProperties, LenProperties, EmptySeq DEF s
    <3> QED BY <3>1, <3>2 DEF s
  <2> QED BY <1>1, <1>2, <2>1
<1>4. x.rec \in Records!Record /\ y.rec \in Records!Record
  <2>1. ASSUME NEW a \in AppendRequests, req[a].pc = "insert", NEW z \in req[a].in
        PROVE  z.rec \in Records!Record
    <3>1. req[a].batch \in Batches /\ z.rec \in Records!ToSet(req[a].batch)
      BY <2>1, RecordsTyped DEF Appending, Admitted
    <3> QED BY <3>1, InsertsInOrder DEF RecordsAssumptions
  <2> QED BY <1>1, <1>2, <2>1
<1>5. ~Records!Collide(x.rec, y.rec)
  BY <1>1, <1>2 DEF RecordsInductive, NoTwins
<1> HIDE DEF f, g
<1> DEFINE c == x.rec
           d == y.rec
<1> HIDE DEF c, d
<1>6. /\ c \in Records!Record /\ d \in Records!Record /\ f \in Records!Record /\ g \in Records!Record
      /\ Records!Collide(c, f) /\ Records!Collide(d, g) /\ Records!Before(d, f) /\ Records!Before(c, g)
            /\ ~Records!Collide(c, d)
  BY <1>2, <1>3, <1>4, <1>5 DEF c, d
<1>7. c.kind = f.kind /\ c.decision = f.decision /\ d.kind = g.kind /\ d.decision = g.decision
  BY <1>6 DEF Records!Collide
<1>8. CASE c.kind = "decision" /\ d.kind = "decision"
  <2>1. c.decision # d.decision
    BY <1>6, <1>8 DEF Records!Collide
  <2>2. d.decision <= c.decision /\ c.decision <= d.decision
    BY <1>6, <1>7, <1>8 DEF Records!Before, Records!Record
  <2> QED BY <1>6, <2>1, <2>2 DEF Records!Record
<1>9. CASE c.kind = "decision" /\ d.kind # "decision"
  BY <1>6, <1>7, <1>9 DEF Records!Before
<1>10. CASE c.kind # "decision" /\ d.kind = "decision"
  BY <1>6, <1>7, <1>10 DEF Records!Before
<1>11. CASE c.kind # "decision" /\ d.kind # "decision"
  <2>1. c = f /\ d = g
    BY <1>6, <1>11 DEF Records!Collide
  <2> QED BY <1>6, <2>1, BeforeIsAnOrder
<1> QED BY <1>8, <1>9, <1>10, <1>11

\* The commit of an append stores what it is past.
LEMMA AppendsAnswer ==
    ASSUME RecordsInductive, [Records!Next]_(Records!vars), NEW q \in AppendRequests, Records!Answered(q),
           NEW r \in Records!ToSet(req[q].batch)
    PROVE  (\E x \in rows' : x.rec = r) \/ \E t \in taken[q] : Records!Collide(t, r)
<1>1. Records!CommitAppend(q)
  <2>1. req[q].pc = "checked" /\ req'[q].pc = "stored"
    BY DEF Records!Answered
  <2>2. ASSUME NEW b \in AppendRequests, b # q, Records!AppendRecords(b) \/ Records!Resend(b)
                  \/ \E k \in IngestKeys, c \in Batches : Records!Authenticate(b, k, c)
        PROVE  req'[q] = req[q]
    BY <2>2, RecordsTyped
       DEF Records!AppendRecords, Records!Begin, Records!Lock, Records!CheckKey,
           Records!CheckErased, Records!InsertRow, Records!CheckConflicts, Records!CommitAppend,
           Records!Resend, Records!Refuse, Records!Authenticate
  <2>3. \/ \E k \in IngestKeys : Records!RevokeApiKey(k)
        \/ \E n \in Periods : Records!SetRetentionDays(n)
        \/ \E o \in RecordOwners :
              \/ \E d \in Records!DecisionsOf(Records!BatchRecords) : Records!LockToErase(o, d)
              \/ \E k \in IngestKeys : Records!LockToPurge(o, k)
              \/ Records!Delete(o) \/ Records!CommitDelete(o)
        \/ \E w \in RecordSweepers : Records!Retain(w)
        \/ Records!Tick \/ UNCHANGED Records!vars
        => req' = req
    BY DEF Records!RevokeApiKey, Records!SetRetentionDays, Records!LockToErase, Records!LockToPurge,
           Records!Delete, Records!CommitDelete, Records!Retain, Records!SweepDelete,
           Records!SweepCommit, Records!Tick, Records!vars
  <2>4. Records!Fault => req'[q] = req[q] \/ req'[q].pc = "refused"
    BY RecordsTyped DEF Records!Fault, Appends
  <2>5. ~Records!Begin(q) /\ ~Records!Lock(q) /\ ~Records!CheckKey(q) /\ ~Records!CheckErased(q)
           /\ ~Records!InsertRow(q) /\ ~Records!CheckConflicts(q)
        /\ ~Records!Resend(q) /\ \A k \in IngestKeys, c \in Batches : ~Records!Authenticate(q, k, c)
    BY <2>1
       DEF Records!Begin, Records!Lock, Records!CheckKey, Records!CheckErased, Records!InsertRow,
           Records!CheckConflicts, Records!Resend, Records!Authenticate
  <2> QED BY <2>1, <2>2, <2>3, <2>4, <2>5 DEF Records!Next, Records!AppendRecords
<1>2. rows' = rows \cup req[q].in /\ req[q].pc = "checked"
  BY <1>1 DEF Records!CommitAppend
<1>3. Placed(q, r) \/ \E x \in rows : x.rec = r
  BY <1>2, RecordsTyped DEF Appending, Accounted
<1> QED BY <1>2, <1>3 DEF Placed

-----------------------------------------------------------------------------
(* The suite.                                                              *)

IntakeInvariant == Retention!Inductive /\ Setup!Inductive

\* What the components assume of their constants is what the suite assumes.
LEMMA IntakeAssumptions ==
    Retention!Assumptions /\ Setup!Assumptions /\ RecordsAssumptions
  BY ConstantsAssumption DEF Retention!Assumptions, Setup!Assumptions, RecordsAssumptions

\* The components start as their invariants say.
LEMMA IntakeInitially ==
    ASSUME Init PROVE IntakeInvariant /\ RecordsInductive
  BY IntakeAssumptions, Retention!InitInductive, Setup!InitInductive, RecordsInitially
     DEF Init, IntakeInvariant

\* A step of the suite is a step of a component or leaves it alone.
LEMMA IntakeSteps ==
    ASSUME [Next]_vars
    PROVE  /\ [Retention!Next]_(Retention!vars) /\ [Setup!Next]_(Setup!vars)
           /\ [Records!Next]_(Records!vars)
<1>1. [Retention!Next]_(Retention!vars) /\ [Setup!Next]_(Setup!vars)
  BY DEF Next, Step, Others, vars, retentionVars, setupVars, Retention!vars, Setup!vars
<1>2. [Records!Next]_(Records!vars)
  BY DEF Next, Step, Others, vars, recordsVars, Records!vars
<1> QED BY <1>1, <1>2

\* A step of the suite keeps both invariants.
LEMMA IntakeStep ==
    ASSUME IntakeInvariant, [Next]_vars PROVE IntakeInvariant'
<1>1. Retention!Inductive'
  BY IntakeAssumptions, IntakeSteps, Retention!StepInductive DEF IntakeInvariant
<1>2. Setup!Inductive'
  BY IntakeAssumptions, IntakeSteps, Setup!StepInductive DEF IntakeInvariant
<1> QED BY <1>1, <1>2 DEF IntakeInvariant

\* A project's counter is the number of its live cases, evidence outlives
\* retention, it has one live connection, an agent configures the untouched
\* project only, and a completed connection has configured it; for any
\* number of transactions and requests.
THEOREM ProjectCounts ==
    Spec => []ProjectHoldsWhatItCounts
<1>1. Init => IntakeInvariant
  BY IntakeInitially
<1>2. IntakeInvariant /\ [Next]_vars => IntakeInvariant'
  BY IntakeStep
<1>3. IntakeInvariant => ProjectHoldsWhatItCounts
  BY DEF IntakeInvariant, Retention!Inductive, Setup!Inductive, ProjectHoldsWhatItCounts
<1> QED BY <1>1, <1>2, <1>3, PTL DEF Spec

\* An answer of the suite's step, as the action property of the component
\* has it.
StoredWhenAnswered ==
    \A q \in AppendRequests : Records!Answered(q) =>
      \A r \in Records!ToSet(req[q].batch) : \/ \E x \in rows' : x.rec = r
                                            \/ \E t \in taken[q] : Records!Collide(t, r)

\* An erased decision has no record and a purged key stores none, whatever
\* was under way; two appends never wait for each other; and a batch is
\* answered only when its records are stored or retention took them meanwhile;
\* for any requests, batches, owners, sweepers and bounds.
THEOREM RecordsAnswerable ==
    Spec => RecordsStayAnswerable
<1>1. Init => RecordsInductive
  BY IntakeInitially
<1>2. RecordsInductive /\ [Next]_vars => RecordsInductive'
  BY IntakeAssumptions, IntakeSteps, RecordsStep
<1>3. RecordsInductive => /\ Records!TypeOK /\ Records!ErasedStaysErased
                          /\ Records!PurgedSendsNothing /\ Records!AppendsDoNotDeadlock
  BY IntakeAssumptions, RecordsAreTyped, AppendsWaitInOrder DEF RecordsInductive
<1>4. RecordsInductive /\ [Next]_vars => [StoredWhenAnswered]_(Records!vars)
  <2> SUFFICES ASSUME RecordsInductive, [Next]_vars PROVE StoredWhenAnswered
    OBVIOUS
  <2>1. [Records!Next]_(Records!vars)
    BY IntakeSteps
  <2> QED BY <2>1, AppendsAnswer DEF StoredWhenAnswered
<1> QED BY <1>1, <1>2, <1>3, <1>4, PTL
           DEF Spec, RecordsStayAnswerable, Records!AnsweredIsStored, StoredWhenAnswered

=============================================================================

------------------------- MODULE TraceRetentionProofs -------------------------
(***************************************************************************)
(* What holds of the cases of a project for every number of imports,       *)
(* prunings, freezings and cases.  Three locks carry it: the identity that *)
(* an import looked up stays absent until it commits, an insert shares the *)
(* project's row, and a pruning or a freezing has that row alone, so that  *)
(* what it read is still there when it writes.                             *)
(***************************************************************************)
EXTENDS TraceRetention, SequenceTheorems, FiniteSetTheorems, TLAPS

Assumptions == KindsAssumption /\ NamesAssumption /\ BoundsAssumption

Projects == [alive : BOOLEAN, retention : BOOLEAN, imported : 0 .. MaxCases, recent : BOOLEAN]
Locks == [exclusive : {None} \cup Pruners \cup Freezers, writer : {None} \cup Importers,
          share : SUBSET Importers]
Rows == [identity : Identities, live : BOOLEAN, old : BOOLEAN]
Stages == {"idle", "asked", "locked", "absent", "inserted", "counted"}
Deliveries == [pc : Stages, identity : Identities \cup {None}]
Prunings == [pc : {"idle", "locked", "deleted", "recounted"}, deletes : SUBSET CaseIds, count : 0 .. MaxCases]
Freezings == [pc : {"idle", "locked", "read"}, case : 0 .. MaxCases]
Runs == [status : {"none", "running", "ended"}, total : 0 .. MaxCases, finished : 0 .. MaxCases]

Pending == {c \in CaseIds : items[c] = "pending"}

\* What an import holds: the lock of its identity, of which no case lives
\* once it looked, and a share of the project's row.
Importing(p) ==
    /\ importer[p].pc # "idle" => importer[p].identity \in Identities
    /\ importer[p].pc \notin {"idle", "asked"} => identity[importer[p].identity] = p
    /\ importer[p].pc \in {"absent", "inserted", "counted"} =>
           \A c \in Live : cases[c].identity # importer[p].identity
    /\ importer[p].pc \in {"inserted", "counted"} => p \in lock.share /\ project.alive

\* What a pruning holds: the project's row, so that the cases it deletes and
\* counted stay what they were.
Pruning(p) ==
    /\ pruner[p].pc # "idle" => lock.exclusive = p /\ project.alive
    /\ pruner[p].pc \in {"deleted", "recounted"} =>
           /\ pruner[p].deletes \subseteq Live /\ pruner[p].deletes \cap frozen = {}
           /\ \A c \in pruner[p].deletes : cases[c].identity \notin Evidence
    /\ pruner[p].pc = "recounted" => pruner[p].count = Cardinality(Counted(Live \ pruner[p].deletes))

Freezing(f) ==
    /\ freezer[f].pc # "idle" => lock.exclusive = f /\ project.alive
    /\ freezer[f].pc = "read" => freezer[f].case \in Live

Inductive ==
    /\ TypeOK /\ lock \in Locks /\ Len(cases) <= MaxCases
    /\ lock.exclusive # None => lock.share = {}
    /\ \A p \in Importers : Importing(p)
    /\ \A p \in Pruners : Pruning(p)
    /\ \A f \in Freezers : Freezing(f)
    /\ ~project.alive => Live = {}
    /\ evalRun.finished + Cardinality(Pending) <= MaxCases
    /\ ImportsAreCountedOnce /\ EvidenceIsKept

\* The types, spelled out for the steps that follow.
LEMMA Typed ==
    ASSUME Assumptions, Inductive
    PROVE  /\ project \in Projects /\ lock \in Locks /\ identity \in [Identities -> {None} \cup Importers]
           /\ cases \in Seq(Rows) /\ Len(cases) \in 0 .. MaxCases /\ frozen \subseteq Live
           /\ items \in [CaseIds -> {"none", "pending", "done"}] /\ evalRun \in Runs
           /\ importer \in [Importers -> Deliveries] /\ pruner \in [Pruners -> Prunings]
           /\ freezer \in [Freezers -> Freezings] /\ prunes \in 0 .. MaxPrunes
           /\ \A c \in 1 .. Len(cases) : cases[c] \in Rows
           /\ Live \subseteq 1 .. Len(cases) /\ Live \subseteq CaseIds
           /\ MaxCases \in Nat /\ MaxPrunes \in Nat
           /\ \A p \in Importers : Importing(p) /\ importer[p] \in Deliveries
           /\ \A p \in Pruners : Pruning(p) /\ pruner[p] \in Prunings
           /\ \A f \in Freezers : Freezing(f) /\ freezer[f] \in Freezings
<1>1. cases \in Seq(Rows)
  BY DEF Inductive, TypeOK, Rows
<1>2. MaxCases \in Nat /\ MaxPrunes \in Nat
  BY DEF Assumptions, BoundsAssumption
<1>3. Len(cases) \in 0 .. MaxCases /\ \A c \in 1 .. Len(cases) : cases[c] \in Rows
  BY <1>1, <1>2 DEF Inductive
<1>4. Live \subseteq 1 .. Len(cases) /\ Live \subseteq CaseIds
  BY <1>2, <1>3 DEF Live, CaseIds
<1> QED BY <1>1, <1>2, <1>3, <1>4 DEF Inductive, TypeOK, EvidenceIsKept, Projects, Stages, Deliveries,
           Prunings, Freezings, Runs

\* A set of numbers up to n has at most n members.
LEMMA SmallSets ==
    ASSUME NEW n \in Nat, NEW S \in SUBSET (1 .. n)
    PROVE  IsFiniteSet(S) /\ Cardinality(S) \in Nat /\ Cardinality(S) <= n
<1>1. IsFiniteSet(1 .. n) /\ Cardinality(1 .. n) = n
  BY FS_Interval
<1> QED BY <1>1, FS_Subset, FS_CardinalityType

\* What is counted is finite, and no more than there are cases.
LEMMA Countable ==
    ASSUME Assumptions, Inductive, NEW S \in SUBSET Live
    PROVE  /\ IsFiniteSet(S) /\ IsFiniteSet(Counted(S))
           /\ Cardinality(Counted(S)) \in 0 .. MaxCases /\ Cardinality(S) \in 0 .. MaxCases
<1>1. Counted(S) \subseteq CaseIds /\ S \subseteq CaseIds /\ MaxCases \in Nat
  BY Typed DEF Counted
<1>2. Counted(S) \in SUBSET (1 .. MaxCases) /\ S \in SUBSET (1 .. MaxCases)
  BY <1>1 DEF CaseIds
<1> QED BY <1>1, <1>2, SmallSets

\* The pending items are finitely many, and no more than there are cases.
LEMMA PendingIsFinite ==
    ASSUME Assumptions, NEW S \in SUBSET CaseIds
    PROVE  IsFiniteSet(S) /\ Cardinality(S) \in Nat /\ Cardinality(S) <= MaxCases
  BY SmallSets DEF CaseIds, Assumptions, BoundsAssumption

\* The same cases, of the same identities, but maybe older.
SameCases ==
    /\ cases' \in Seq(Rows) /\ Len(cases') = Len(cases)
    /\ \A c \in 1 .. Len(cases) : cases'[c].live = cases[c].live /\ cases'[c].identity = cases[c].identity

\* Cases that only grow older are counted as before.
LEMMA SameCounts ==
    ASSUME Assumptions, Inductive, SameCases
    PROVE  /\ Live' = Live
           /\ \A S \in SUBSET Live : {c \in S : cases'[c].identity \notin Scaffolding} = Counted(S)
           /\ \A c \in Live : cases'[c].identity = cases[c].identity
<1>1. Live' = Live
  BY DEF SameCases, Live
<1>2. \A c \in Live : cases'[c].identity = cases[c].identity
  BY DEF SameCases, Live
<1> QED BY <1>1, <1>2 DEF Counted

\* Cases that stay as they are.
LEMMA UnchangedCases ==
    ASSUME Assumptions, Inductive, cases' = cases PROVE SameCases
  BY Typed DEF SameCases

\* A step that neither adds nor deletes a case.
LEMMA Quiet ==
    ASSUME Assumptions, Inductive, SameCases, frozen' \subseteq Live,
           project' \in Projects, project'.alive = project.alive, project'.imported = project.imported,
           lock' \in Locks, lock'.exclusive # None => lock'.share = {},
           identity' \in [Identities -> {None} \cup Importers],
           items' \in [CaseIds -> {"none", "pending", "done"}], evalRun' \in Runs,
           evalRun'.finished + Cardinality(Pending') <= MaxCases,
           importer' \in [Importers -> Deliveries], pruner' \in [Pruners -> Prunings],
           freezer' \in [Freezers -> Freezings], prunes' \in 0 .. MaxPrunes,
           \A p \in Importers : Importing(p)', \A p \in Pruners : Pruning(p)', \A f \in Freezers : Freezing(f)'
    PROVE  Inductive'
<1>1. Live' = Live /\ Counted(Live)' = Counted(Live) /\ \A c \in Live : cases'[c].identity = cases[c].identity
  BY SameCounts DEF Counted
<1>2. cases' \in Seq(Rows) /\ Len(cases') = Len(cases)
  BY DEF SameCases
<1>3. frozen' \subseteq CaseIds
  BY Typed
<1>4. TypeOK'
  BY <1>2, <1>3 DEF TypeOK, Projects, Locks, Rows, Stages, Deliveries, Prunings, Freezings, Runs
<1>5. ImportsAreCountedOnce'
  BY <1>1 DEF Inductive, ImportsAreCountedOnce
<1>6. EvidenceIsKept'
  BY <1>1, Typed DEF Inductive, EvidenceIsKept, SameCases
<1>7. ~project'.alive => Live' = {}
  BY <1>1 DEF Inductive
<1>8. Len(cases') <= MaxCases
  BY <1>2 DEF Inductive
<1> QED BY <1>4, <1>5, <1>6, <1>7, <1>8 DEF Inductive

\* An import keeps what it holds through a step of somebody else.
LEMMA StaysImporting ==
    ASSUME Assumptions, Inductive, SameCases, NEW p \in Importers, importer'[p] = importer[p],
           project'.alive = project.alive, p \in lock.share => p \in lock'.share,
           \A i \in Identities : identity[i] = p => identity'[i] = p
    PROVE  Importing(p)'
  BY Typed, SameCounts DEF Importing

\* A pruning keeps what it holds through a step of somebody else.
LEMMA StaysPruning ==
    ASSUME Assumptions, Inductive, SameCases, NEW p \in Pruners, pruner'[p] = pruner[p],
           project'.alive = project.alive, lock.exclusive = p => lock'.exclusive = p,
           lock.exclusive = p => frozen' = frozen
    PROVE  Pruning(p)'
<1>1. Live' = Live /\ Pruning(p) /\ \A c \in Live : cases'[c].identity = cases[c].identity
  BY Typed, SameCounts
<1>2. {c \in Live \ pruner[p].deletes : cases'[c].identity \notin Scaffolding} = Counted(Live \ pruner[p].deletes)
  BY SameCounts
<1>3. Counted(Live \ pruner[p].deletes)' = Counted(Live \ pruner[p].deletes)
  BY <1>1, <1>2 DEF Counted
<1> QED BY <1>1, <1>3 DEF Pruning

\* A freezing keeps what it holds through a step of somebody else.
LEMMA StaysFreezing ==
    ASSUME Assumptions, Inductive, SameCases, NEW f \in Freezers, freezer'[f] = freezer[f],
           project'.alive = project.alive, lock.exclusive = f => lock'.exclusive = f
    PROVE  Freezing(f)'
  BY Typed, SameCounts DEF Freezing

-----------------------------------------------------------------------------
(* Imports. *)

\* An import moves, with the lock of its identity and its share of the row.
LEMMA ImportMoves ==
    ASSUME Assumptions, Inductive, NEW p \in Importers,
           UNCHANGED <<project, cases, frozen, items, evalRun, pruner, freezer, prunes>>,
           importer' \in [Importers -> Deliveries], \A q \in Importers : q # p => importer'[q] = importer[q],
           identity' \in [Identities -> {None} \cup Importers],
           \A q \in Importers : q # p => \A i \in Identities : identity[i] = q => identity'[i] = q,
           lock' \in Locks, lock'.exclusive = lock.exclusive,
           \A q \in Importers : q # p /\ q \in lock.share => q \in lock'.share,
           lock.exclusive # None => lock'.share = {},
           Importing(p)'
    PROVE  Inductive'
<1>1. SameCases
  BY UnchangedCases
<1>2. ASSUME NEW q \in Importers PROVE Importing(q)'
  <2>1. CASE q = p
    BY <2>1
  <2>2. CASE q # p
    BY <1>1, <2>2, StaysImporting
  <2> QED BY <2>1, <2>2
<1>3. ASSUME NEW q \in Pruners PROVE Pruning(q)'
  BY <1>1, StaysPruning
<1>4. ASSUME NEW f \in Freezers PROVE Freezing(f)'
  BY <1>1, StaysFreezing
<1>5. Pending' = Pending
  BY DEF Pending
<1>6. /\ project' \in Projects /\ frozen' \subseteq Live /\ items' \in [CaseIds -> {"none", "pending", "done"}]
      /\ evalRun' \in Runs /\ pruner' \in [Pruners -> Prunings] /\ freezer' \in [Freezers -> Freezings]
      /\ prunes' \in 0 .. MaxPrunes
  BY Typed
<1>7. evalRun'.finished + Cardinality(Pending') <= MaxCases
  BY <1>5 DEF Inductive
<1> QED BY <1>1, <1>2, <1>3, <1>4, <1>6, <1>7, Quiet

\* An import that goes on has its type, and the other imports stay.
LEMMA ImporterGoes ==
    ASSUME Assumptions, Inductive, NEW p \in Importers, NEW s \in Stages,
           importer' = [importer EXCEPT ![p].pc = s]
    PROVE  /\ importer' \in [Importers -> Deliveries]
           /\ importer'[p].pc = s /\ importer'[p].identity = importer[p].identity
           /\ \A q \in Importers : q # p => importer'[q] = importer[q]
<1>1. [importer[p] EXCEPT !.pc = s] \in Deliveries
  BY Typed DEF Deliveries
<1>2. importer' = [importer EXCEPT ![p] = [importer[p] EXCEPT !.pc = s]]
  BY Typed
<1> QED BY <1>1, <1>2, Typed DEF Deliveries

\* An import that ended holds nothing.
LEMMA ImporterRests ==
    ASSUME Assumptions, Inductive, NEW p \in Importers, importer' = [importer EXCEPT ![p] = IdleImport]
    PROVE  /\ importer' \in [Importers -> Deliveries] /\ importer'[p].pc = "idle" /\ Importing(p)'
           /\ \A q \in Importers : q # p => importer'[q] = importer[q]
<1>1. IdleImport \in Deliveries /\ IdleImport.pc = "idle"
  BY DEF IdleImport, Deliveries, Stages
<1>2. importer' \in [Importers -> Deliveries] /\ importer'[p] = IdleImport
  BY <1>1, Typed
<1> QED BY <1>1, <1>2 DEF Importing

\* Who commits or rolls back frees its own identities only.
LEMMA Unlocks ==
    ASSUME Assumptions, Inductive, NEW p \in Importers
    PROVE  /\ Unlock(p) \in [Identities -> {None} \cup Importers]
           /\ \A q \in Importers : q # p => \A i \in Identities : identity[i] = q => Unlock(p)[i] = q
  BY Typed DEF Unlock

\* Letting go of the project's row.
LEMMA LetsGo ==
    ASSUME Assumptions, Inductive, NEW p
    PROVE  /\ Released(p) \in Locks
           /\ Released(p).exclusive = IF lock.exclusive = p THEN None ELSE lock.exclusive
           /\ Released(p).share = lock.share \ {p}
  BY Typed DEF Released, Locks

\* An import is asked for.
LEMMA ImportAskedKeeps ==
    ASSUME Assumptions, Inductive, NEW p \in Importers, NEW i \in Identities, ImportAsked(p, i)
    PROVE  Inductive'
<1>1. /\ importer' = [importer EXCEPT ![p] = [pc |-> "asked", identity |-> i]]
      /\ UNCHANGED <<project, lock, identity, cases, frozen, items, evalRun, pruner, freezer, prunes>>
  BY DEF ImportAsked
<1>2. [pc |-> "asked", identity |-> i] \in Deliveries
  BY DEF Deliveries, Stages
<1>3. /\ importer' \in [Importers -> Deliveries] /\ importer'[p] = [pc |-> "asked", identity |-> i]
      /\ \A q \in Importers : q # p => importer'[q] = importer[q]
  BY <1>1, <1>2, Typed
<1>4. Importing(p)'
  BY <1>3 DEF Importing
<1>5. identity' \in [Identities -> {None} \cup Importers] /\ lock' \in Locks
  BY <1>1, Typed
<1>6. lock.exclusive # None => lock'.share = {}
  BY <1>1 DEF Inductive
<1> QED BY <1>1, <1>3, <1>4, <1>5, <1>6, ImportMoves

\* One import at a time holds an identity.
LEMMA LockIdentityKeeps ==
    ASSUME Assumptions, Inductive, NEW p \in Importers, LockIdentity(p) PROVE Inductive'
<1> DEFINE i == importer[p].identity
<1>1. /\ importer[p].pc = "asked" /\ identity[i] = None /\ identity' = [identity EXCEPT ![i] = p]
      /\ importer' = [importer EXCEPT ![p].pc = "locked"]
      /\ UNCHANGED <<project, lock, cases, frozen, items, evalRun, pruner, freezer, prunes>>
  BY DEF LockIdentity, IdentityIsFree
<1>2. i \in Identities
  BY <1>1, Typed DEF Importing
<1>3. /\ importer' \in [Importers -> Deliveries]
      /\ importer'[p].pc = "locked" /\ importer'[p].identity = i
      /\ \A q \in Importers : q # p => importer'[q] = importer[q]
  BY <1>1, ImporterGoes DEF Stages
<1> HIDE DEF i
<1>4. /\ identity' \in [Identities -> {None} \cup Importers] /\ identity'[i] = p
      /\ \A j \in Identities : j # i => identity'[j] = identity[j]
  BY <1>1, <1>2, Typed
<1>5. \A q \in Importers : q # p => \A j \in Identities : identity[j] = q => identity'[j] = q
  BY <1>1, <1>4 DEF Assumptions, NamesAssumption
<1>6. Importing(p)'
  BY <1>2, <1>3, <1>4 DEF Importing
<1>7. lock' \in Locks /\ (lock.exclusive # None => lock'.share = {})
  BY <1>1, Typed DEF Inductive
<1> QED BY <1>1, <1>3, <1>4, <1>5, <1>6, <1>7, ImportMoves

\* What the lookup did not find nobody else inserts meanwhile.
LEMMA LookupKeeps ==
    ASSUME Assumptions, Inductive, NEW p \in Importers, Lookup(p) PROVE Inductive'
<1> DEFINE same == {c \in Live : cases[c].identity = importer[p].identity}
<1>1. /\ importer[p].pc = "locked"
      /\ UNCHANGED <<project, lock, cases, frozen, items, evalRun, pruner, freezer, prunes>>
  BY DEF Lookup
<1>2. lock' \in Locks /\ (lock.exclusive # None => lock'.share = {})
  BY <1>1, Typed DEF Inductive
<1>3. CASE same = {} /\ importer' = [importer EXCEPT ![p].pc = "absent"] /\ UNCHANGED identity
  <2>1. /\ importer' \in [Importers -> Deliveries]
        /\ importer'[p].pc = "absent" /\ importer'[p].identity = importer[p].identity
        /\ \A q \in Importers : q # p => importer'[q] = importer[q]
    BY <1>3, ImporterGoes DEF Stages
  <2>2. \A c \in Live : cases[c].identity # importer[p].identity
    BY <1>3
  <2>3. Importing(p)'
    BY <1>1, <1>3, <2>1, <2>2, Typed DEF Importing, Live
  <2>4. identity' \in [Identities -> {None} \cup Importers]
    BY <1>3, Typed
  <2> QED BY <1>1, <1>2, <1>3, <2>1, <2>3, <2>4, ImportMoves
<1>4. CASE importer' = [importer EXCEPT ![p] = IdleImport] /\ identity' = Unlock(p)
  <2>1. /\ identity' \in [Identities -> {None} \cup Importers]
        /\ \A q \in Importers : q # p => \A i \in Identities : identity[i] = q => identity'[i] = q
    BY <1>4, Unlocks
  <2>2. /\ importer' \in [Importers -> Deliveries] /\ Importing(p)'
        /\ \A q \in Importers : q # p => importer'[q] = importer[q]
    BY <1>4, ImporterRests
  <2> QED BY <1>1, <1>2, <2>1, <2>2, ImportMoves
<1> QED BY <1>3, <1>4 DEF Lookup

\* The insert shares the row of the project.
LEMMA InsertKeeps ==
    ASSUME Assumptions, Inductive, NEW p \in Importers, Insert(p) PROVE Inductive'
<1>1. /\ importer[p].pc = "absent" /\ lock.exclusive = None
      /\ UNCHANGED <<project, cases, frozen, items, evalRun, pruner, freezer, prunes>>
  BY DEF Insert, KeyShare
<1>2. CASE importer' = [importer EXCEPT ![p] = IdleImport] /\ identity' = Unlock(p) /\ UNCHANGED lock
  <2>1. /\ identity' \in [Identities -> {None} \cup Importers]
        /\ \A q \in Importers : q # p => \A i \in Identities : identity[i] = q => identity'[i] = q
    BY <1>2, Unlocks
  <2>2. /\ importer' \in [Importers -> Deliveries] /\ Importing(p)'
        /\ \A q \in Importers : q # p => importer'[q] = importer[q]
    BY <1>2, ImporterRests
  <2>3. lock' \in Locks /\ (lock.exclusive # None => lock'.share = {})
    BY <1>2, Typed DEF Inductive
  <2> QED BY <1>1, <1>2, <2>1, <2>2, <2>3, ImportMoves
<1>3. CASE /\ project.alive /\ lock' = [lock EXCEPT !.share = @ \cup {p}] /\ UNCHANGED identity
           /\ importer' = [importer EXCEPT ![p].pc =
                     IF importer[p].identity \in Scaffolding THEN "counted" ELSE "inserted"]
  <2>1. PICK s \in {"counted", "inserted"} : importer' = [importer EXCEPT ![p].pc = s]
    BY <1>3
  <2>2. /\ importer' \in [Importers -> Deliveries]
        /\ importer'[p].pc = s /\ importer'[p].identity = importer[p].identity
        /\ \A q \in Importers : q # p => importer'[q] = importer[q]
    BY <2>1, ImporterGoes DEF Stages
  <2>3. lock' \in Locks /\ lock'.exclusive = lock.exclusive /\ lock'.share = lock.share \cup {p}
    BY <1>3, Typed DEF Locks
  <2>4. Importing(p)'
    BY <1>1, <1>3, <2>2, <2>3, Typed DEF Importing, Live
  <2>5. identity' \in [Identities -> {None} \cup Importers]
    BY <1>3, Typed
  <2> QED BY <1>1, <1>3, <2>2, <2>3, <2>4, <2>5, ImportMoves
<1> QED BY <1>2, <1>3 DEF Insert

\* The counter is taken, and nothing is visible of it.
LEMMA CountKeeps ==
    ASSUME Assumptions, Inductive, NEW p \in Importers, Count(p) PROVE Inductive'
<1>1. /\ importer[p].pc = "inserted" /\ lock.exclusive = None
      /\ importer' = [importer EXCEPT ![p].pc = "counted"] /\ lock' = [lock EXCEPT !.writer = p]
      /\ UNCHANGED <<project, identity, cases, frozen, items, evalRun, pruner, freezer, prunes>>
  BY DEF Count, Update
<1>2. /\ importer' \in [Importers -> Deliveries]
      /\ importer'[p].pc = "counted" /\ importer'[p].identity = importer[p].identity
      /\ \A q \in Importers : q # p => importer'[q] = importer[q]
  BY <1>1, ImporterGoes DEF Stages
<1>3. lock' \in Locks /\ lock'.exclusive = lock.exclusive /\ lock'.share = lock.share
  BY <1>1, Typed DEF Locks
<1>4. Importing(p)'
  BY <1>1, <1>2, <1>3, Typed DEF Importing, Live
<1>5. identity' \in [Identities -> {None} \cup Importers]
  BY <1>1, Typed
<1> QED BY <1>1, <1>2, <1>3, <1>4, <1>5, ImportMoves

\* An import that fails leaves nothing behind.
LEMMA FailImportKeeps ==
    ASSUME Assumptions, Inductive, NEW p \in Importers, FailImport(p) PROVE Inductive'
<1>1. /\ importer' = [importer EXCEPT ![p] = IdleImport] /\ lock' = Released(p) /\ identity' = Unlock(p)
      /\ UNCHANGED <<project, cases, frozen, items, evalRun, pruner, freezer, prunes>>
  BY DEF FailImport
<1>2. lock.exclusive # p
  BY Typed DEF Locks, Assumptions, NamesAssumption
<1>3. lock' \in Locks /\ lock'.exclusive = lock.exclusive /\ lock'.share = lock.share \ {p}
  BY <1>1, <1>2, LetsGo
<1>4. lock.exclusive # None => lock'.share = {}
  BY <1>3 DEF Inductive
<1>5. /\ identity' \in [Identities -> {None} \cup Importers]
      /\ \A q \in Importers : q # p => \A i \in Identities : identity[i] = q => identity'[i] = q
  BY <1>1, Unlocks
<1>6. /\ importer' \in [Importers -> Deliveries] /\ Importing(p)'
      /\ \A q \in Importers : q # p => importer'[q] = importer[q]
  BY <1>1, ImporterRests
<1>7. \A q \in Importers : q # p /\ q \in lock.share => q \in lock'.share
  BY <1>3
<1> QED BY <1>1, <1>3, <1>4, <1>5, <1>6, <1>7, ImportMoves

\* A new case: no case of its identity lives, whoever prunes or freezes
\* waits for the importer's share of the row, and the counter says so.
LEMMA CommitImportKeeps ==
    ASSUME Assumptions, Inductive, NEW p \in Importers, CommitImport(p) PROVE Inductive'
<1> DEFINE i == importer[p].identity
           n == Len(cases)
           row == [identity |-> i, live |-> TRUE, old |-> FALSE]
<1>1. /\ importer[p].pc = "counted" /\ n < MaxCases /\ cases' = Append(cases, row)
      /\ project' = [project EXCEPT !.imported = @ + Increment(i)]
      /\ importer' = [importer EXCEPT ![p] = IdleImport]
      /\ lock' = Released(p) /\ identity' = Unlock(p)
      /\ UNCHANGED <<frozen, items, evalRun, pruner, freezer, prunes>>
  BY DEF CommitImport
<1>2. /\ i \in Identities /\ identity[i] = p /\ p \in lock.share /\ project.alive
      /\ \A c \in Live : cases[c].identity # i
  BY <1>1, Typed DEF Importing
<1>3. lock.exclusive = None /\ lock.exclusive # p
  BY <1>2 DEF Inductive, Assumptions, NamesAssumption
<1>4. row \in Rows /\ row.identity = i /\ row.live = TRUE
  BY <1>2 DEF Rows
<1> HIDE DEF i, row
<1>5. /\ cases' \in Seq(Rows) /\ Len(cases') = n + 1 /\ cases'[n + 1] = row /\ n \in Nat
      /\ \A c \in 1 .. n : cases'[c] = cases[c]
      /\ \A c \in 1 .. n + 1 : c \in 1 .. n \/ c = n + 1
  BY <1>1, <1>4, Typed
<1>6. Live' = Live \cup {n + 1} /\ n + 1 \notin Live
  BY <1>4, <1>5, Typed DEF Live
<1>7. \A c \in Live : cases'[c] = cases[c]
  BY <1>5, Typed
<1>8. /\ importer' \in [Importers -> Deliveries] /\ importer'[p].pc = "idle" /\ Importing(p)'
      /\ \A q \in Importers : q # p => importer'[q] = importer[q]
  BY <1>1, ImporterRests
<1>9. /\ identity' \in [Identities -> {None} \cup Importers]
      /\ \A q \in Importers : q # p => \A j \in Identities : identity[j] = q => identity'[j] = q
  BY <1>1, Unlocks
<1>10. lock' \in Locks /\ lock'.exclusive = None /\ lock'.share = lock.share \ {p}
  BY <1>1, <1>3, LetsGo
<1>11. /\ Counted(Live) \subseteq Live /\ IsFiniteSet(Counted(Live)) /\ Cardinality(Counted(Live)) \in Nat
       /\ project.imported = Cardinality(Counted(Live))
  BY Countable DEF Counted, Inductive, ImportsAreCountedOnce
<1>12. Counted(Live)' = IF i \in Scaffolding THEN Counted(Live) ELSE Counted(Live) \cup {n + 1}
  BY <1>4, <1>5, <1>6, <1>7 DEF Counted
<1>13. Cardinality(Counted(Live)') = Cardinality(Counted(Live)) + Increment(i)
  <2>1. Cardinality(Counted(Live) \cup {n + 1}) = Cardinality(Counted(Live)) + 1
    BY <1>6, <1>11, FS_AddElement
  <2> QED BY <1>11, <1>12, <2>1 DEF Increment
<1>14. project'.imported = Cardinality(Counted(Live)') /\ project'.alive = project.alive
  BY <1>1, <1>11, <1>13, Typed DEF Projects
<1>15. project' \in Projects
  <2>1. Live' \subseteq 1 .. MaxCases
    BY <1>1, <1>5, <1>6, Typed DEF CaseIds
  <2>2. Counted(Live)' \in SUBSET (1 .. MaxCases) /\ MaxCases \in Nat
    BY <2>1, Typed DEF Counted
  <2>3. Cardinality(Counted(Live)') \in 0 .. MaxCases
    BY <2>2, SmallSets
  <2> QED BY <1>1, <1>11, <1>13, <2>3, Typed DEF Projects
<1>16. ASSUME NEW q \in Importers PROVE Importing(q)'
  <2>1. CASE q = p
    BY <1>8, <2>1
  <2>2. CASE q # p
    <3>1. importer'[q] = importer[q] /\ Importing(q)
      BY <1>8, <2>2, Typed
    <3>2. importer[q].pc \notin {"idle", "asked"} => importer[q].identity # i
      BY <1>2, <2>2, <3>1 DEF Importing
    <3> QED BY <1>4, <1>5, <1>6, <1>7, <1>9, <1>10, <1>14, <2>2, <3>1, <3>2 DEF Importing
  <2> QED BY <2>1, <2>2
<1>17. ASSUME NEW q \in Pruners PROVE Pruning(q)'
  <2>1. pruner[q].pc = "idle"
    BY <1>3, Typed DEF Pruning, Assumptions, NamesAssumption
  <2> QED BY <1>1, <2>1 DEF Pruning
<1>18. ASSUME NEW f \in Freezers PROVE Freezing(f)'
  <2>1. freezer[f].pc = "idle"
    BY <1>3, Typed DEF Freezing, Assumptions, NamesAssumption
  <2> QED BY <1>1, <2>1 DEF Freezing
<1>19. TypeOK'
  BY <1>1, <1>5, <1>8, <1>9, <1>10, <1>15, Typed DEF TypeOK, Projects, Locks, Rows, Stages, Deliveries,
     Prunings, Freezings, Runs
<1>20. ImportsAreCountedOnce'
  <2>1. \A c, d \in Live' : cases'[c].identity = cases'[d].identity => c = d
    BY <1>2, <1>4, <1>5, <1>6, <1>7 DEF Inductive, ImportsAreCountedOnce
  <2> QED BY <1>14, <2>1 DEF ImportsAreCountedOnce
<1>21. EvidenceIsKept'
  <2>1. frozen' \subseteq Live'
    BY <1>1, <1>6, Typed
  <2>2. \A c \in 1 .. n : cases[c].identity \in Evidence => cases[c].live
    BY <1>2 DEF Inductive, EvidenceIsKept
  <2> QED BY <1>4, <1>5, <2>1, <2>2 DEF EvidenceIsKept
<1>22. Pending' = Pending /\ evalRun' = evalRun
  BY <1>1 DEF Pending
<1>23. /\ lock'.exclusive # None => lock'.share = {}
       /\ ~project'.alive => Live' = {}
       /\ evalRun'.finished + Cardinality(Pending') <= MaxCases
       /\ Len(cases') <= MaxCases
  BY <1>1, <1>2, <1>5, <1>10, <1>14, <1>22, Typed DEF Inductive
<1> QED BY <1>10, <1>16, <1>17, <1>18, <1>19, <1>20, <1>21, <1>23 DEF Inductive

-----------------------------------------------------------------------------
(* Retention. *)

\* A pruning moves, with the project's row.
LEMMA PruneMoves ==
    ASSUME Assumptions, Inductive, NEW p \in Pruners,
           UNCHANGED <<project, identity, cases, frozen, items, evalRun, importer, freezer>>,
           prunes' \in 0 .. MaxPrunes,
           pruner' \in [Pruners -> Prunings], \A q \in Pruners : q # p => pruner'[q] = pruner[q],
           lock' \in Locks, lock'.share = lock.share,
           lock'.exclusive = lock.exclusive \/ (lock.exclusive = None /\ lock'.exclusive = p /\ lock.share = {}),
           Pruning(p)'
    PROVE  Inductive'
<1>1. SameCases
  BY UnchangedCases
<1>2. ASSUME NEW q \in Importers PROVE Importing(q)'
  BY <1>1, StaysImporting
<1>3. \A q \in Pruners \cup Freezers : lock.exclusive = q => lock'.exclusive = q
  BY DEF Assumptions, NamesAssumption
<1>4. ASSUME NEW q \in Pruners PROVE Pruning(q)'
  <2>1. CASE q = p
    BY <2>1
  <2>2. CASE q # p
    BY <1>1, <1>3, <2>2, StaysPruning
  <2> QED BY <2>1, <2>2
<1>5. ASSUME NEW f \in Freezers PROVE Freezing(f)'
  BY <1>1, <1>3, StaysFreezing
<1>6. Pending' = Pending
  BY DEF Pending
<1>7. /\ project' \in Projects /\ frozen' \subseteq Live /\ items' \in [CaseIds -> {"none", "pending", "done"}]
      /\ evalRun' \in Runs /\ importer' \in [Importers -> Deliveries] /\ freezer' \in [Freezers -> Freezings]
      /\ identity' \in [Identities -> {None} \cup Importers]
  BY Typed
<1>8. /\ evalRun'.finished + Cardinality(Pending') <= MaxCases
      /\ lock'.exclusive # None => lock'.share = {}
  BY <1>6 DEF Inductive
<1> QED BY <1>1, <1>2, <1>4, <1>5, <1>7, <1>8, Quiet

\* A pruning takes the row of the project alone.
LEMMA PruneLockKeeps ==
    ASSUME Assumptions, Inductive, NEW p \in Pruners, PruneLock(p) PROVE Inductive'
<1>1. /\ prunes < MaxPrunes /\ prunes' = prunes + 1 /\ lock.exclusive = None /\ lock.share = {}
      /\ UNCHANGED <<project, identity, cases, frozen, items, evalRun, importer, freezer>>
  BY DEF PruneLock, ForUpdate
<1>2. prunes' \in 0 .. MaxPrunes
  BY <1>1, Typed
<1>3. CASE UNCHANGED <<pruner, lock>>
  <2>1. SameCases /\ lock' \in Locks /\ pruner' \in [Pruners -> Prunings]
    BY <1>1, <1>3, UnchangedCases, Typed
  <2>2. Pruning(p)'
    BY <1>1, <1>3, <2>1, StaysPruning
  <2> QED BY <1>1, <1>2, <1>3, <2>1, <2>2, PruneMoves
<1>4. CASE project.alive /\ pruner' = [pruner EXCEPT ![p] = [IdlePrune EXCEPT !.pc = "locked"]] /\ lock' = Held(p)
  <2>1. [IdlePrune EXCEPT !.pc = "locked"] = [pc |-> "locked", deletes |-> {}, count |-> 0]
    BY DEF IdlePrune
  <2>2. [pc |-> "locked", deletes |-> {}, count |-> 0] \in Prunings
    BY Typed DEF Prunings
  <2>3. /\ pruner' \in [Pruners -> Prunings] /\ pruner'[p].pc = "locked"
        /\ \A q \in Pruners : q # p => pruner'[q] = pruner[q]
    BY <1>4, <2>1, <2>2, Typed
  <2>4. lock' \in Locks /\ lock'.exclusive = p /\ lock'.share = lock.share
    BY <1>4, Typed DEF Held, Locks
  <2>5. Pruning(p)'
    BY <1>1, <1>4, <2>3, <2>4 DEF Pruning
  <2> QED BY <1>1, <1>2, <2>3, <2>4, <2>5, PruneMoves
<1> QED BY <1>3, <1>4 DEF PruneLock

\* What is deleted is old, no evidence, and in no revision.
LEMMA PruneDeleteKeeps ==
    ASSUME Assumptions, Inductive, NEW p \in Pruners, PruneDelete(p) PROVE Inductive'
<1>1. /\ pruner[p].pc = "locked" /\ pruner' = [pruner EXCEPT ![p].pc = "deleted", ![p].deletes = Expired]
      /\ UNCHANGED <<project, lock, identity, cases, frozen, items, evalRun, importer, freezer, prunes>>
  BY DEF PruneDelete
<1>2. /\ Expired \subseteq Live /\ Expired \cap frozen = {} /\ Expired \subseteq CaseIds
      /\ \A c \in Expired : cases[c].identity \notin Evidence
  BY Typed DEF Expired
<1>3. [[pruner[p] EXCEPT !.pc = "deleted"] EXCEPT !.deletes = Expired] \in Prunings
  BY <1>2, Typed DEF Prunings
<1>4. pruner' = [pruner EXCEPT ![p] = [[pruner[p] EXCEPT !.pc = "deleted"] EXCEPT !.deletes = Expired]]
  BY <1>1, Typed
<1>5. /\ pruner' \in [Pruners -> Prunings] /\ pruner'[p].pc = "deleted" /\ pruner'[p].deletes = Expired
      /\ \A q \in Pruners : q # p => pruner'[q] = pruner[q]
  BY <1>3, <1>4, Typed DEF Prunings
<1>6. Live' = Live /\ lock.exclusive = p /\ project.alive
  BY <1>1, Typed DEF Live, Pruning
<1>7. Pruning(p)'
  BY <1>1, <1>2, <1>5, <1>6 DEF Pruning
<1>8. lock' \in Locks /\ prunes' \in 0 .. MaxPrunes
  BY <1>1, Typed
<1> QED BY <1>1, <1>5, <1>7, <1>8, PruneMoves

\* The recount is of the cases that will be left.
LEMMA PruneRecountKeeps ==
    ASSUME Assumptions, Inductive, NEW p \in Pruners, PruneRecount(p) PROVE Inductive'
<1> DEFINE left == Live \ pruner[p].deletes
           n == Recounted(left)
<1>1. /\ pruner[p].pc = "deleted"
      /\ pruner' = [pruner EXCEPT ![p].pc = "recounted", ![p].count = n]
      /\ UNCHANGED <<project, lock, identity, cases, frozen, items, evalRun, importer, freezer, prunes>>
  BY DEF PruneRecount
<1>2. n = Cardinality(Counted(left)) /\ n \in 0 .. MaxCases
  BY Countable DEF Recounted
<1>3. Live' = Live /\ \A S : Counted(S)' = Counted(S)
  BY <1>1 DEF Live, Counted
<1> HIDE DEF n
<1>4. [[pruner[p] EXCEPT !.pc = "recounted"] EXCEPT !.count = n] \in Prunings
  BY <1>2, Typed DEF Prunings
<1>5. pruner' = [pruner EXCEPT ![p] = [[pruner[p] EXCEPT !.pc = "recounted"] EXCEPT !.count = n]]
  BY <1>1, Typed
<1>6. /\ pruner' \in [Pruners -> Prunings] /\ pruner'[p].pc = "recounted" /\ pruner'[p].count = n
      /\ pruner'[p].deletes = pruner[p].deletes
      /\ \A q \in Pruners : q # p => pruner'[q] = pruner[q]
  BY <1>4, <1>5, Typed DEF Prunings
<1>7. Counted(Live \ pruner[p].deletes)' = Counted(left)
  BY <1>1, <1>3, <1>6 DEF Counted
<1>8. Pruning(p)'
  <2>1. Pruning(p)
    BY Typed
  <2> QED BY <1>1, <1>2, <1>3, <1>6, <1>7, <2>1 DEF Pruning
<1>9. lock' \in Locks /\ prunes' \in 0 .. MaxPrunes
  BY <1>1, Typed
<1> QED BY <1>1, <1>6, <1>8, <1>9, PruneMoves

\* Nothing was imported, frozen or deleted since the recount: the counter is
\* the number of what is left.
LEMMA PruneCommitKeeps ==
    ASSUME Assumptions, Inductive, NEW p \in Pruners, PruneCommit(p) PROVE Inductive'
<1> DEFINE gone == pruner[p].deletes
           left == Live \ gone
<1>1. /\ pruner[p].pc = "recounted"
      /\ cases' = [c \in 1 .. Len(cases) |->
                     IF c \in gone THEN [cases[c] EXCEPT !.live = FALSE] ELSE cases[c]]
      /\ items' = [c \in CaseIds |-> IF c \in gone THEN "none" ELSE items[c]]
      /\ project' = [project EXCEPT !.imported = pruner[p].count, !.recent = TRUE]
      /\ pruner' = [pruner EXCEPT ![p] = IdlePrune]
      /\ lock' = Released(p)
      /\ UNCHANGED <<identity, frozen, evalRun, importer, freezer, prunes>>
  BY DEF PruneCommit
<1>2. /\ lock.exclusive = p /\ project.alive /\ gone \subseteq Live /\ gone \cap frozen = {}
      /\ \A c \in gone : cases[c].identity \notin Evidence
      /\ pruner[p].count = Cardinality(Counted(left))
  BY <1>1, Typed DEF Pruning
<1>3. lock.share = {}
  BY <1>2 DEF Inductive, Assumptions, NamesAssumption
<1>4. /\ pruner[p].count \in 0 .. MaxCases
      /\ [[project EXCEPT !.imported = pruner[p].count] EXCEPT !.recent = TRUE] \in Projects
      /\ project' = [[project EXCEPT !.imported = pruner[p].count] EXCEPT !.recent = TRUE]
  BY <1>1, Typed DEF Prunings, Projects
<1>5. project' \in Projects /\ project'.imported = pruner[p].count /\ project'.alive = project.alive
  BY <1>4, Typed DEF Projects
<1> HIDE DEF gone
<1>6. /\ cases' \in Seq(Rows) /\ Len(cases') = Len(cases)
      /\ \A c \in 1 .. Len(cases) : /\ cases'[c].identity = cases[c].identity
                                    /\ cases'[c].live <=> cases[c].live /\ c \notin gone
  <2>1. \A c \in 1 .. Len(cases) : [cases[c] EXCEPT !.live = FALSE] \in Rows
    BY Typed DEF Rows
  <2>2. cases' \in [1 .. Len(cases) -> Rows]
    BY <1>1, <2>1, Typed
  <2>3. cases' \in Seq(Rows) /\ Len(cases') = Len(cases)
    BY <2>2, Typed, SeqDef, LenProperties
  <2>4. ASSUME NEW c \in 1 .. Len(cases)
        PROVE  /\ cases'[c].identity = cases[c].identity
               /\ cases'[c].live <=> cases[c].live /\ c \notin gone
    <3>1. CASE c \in gone
      <4>1. cases'[c] = [cases[c] EXCEPT !.live = FALSE]
        BY <1>1, <3>1
      <4> QED BY <3>1, <4>1, Typed DEF Rows
    <3>2. CASE c \notin gone
      <4>1. cases'[c] = cases[c]
        BY <1>1, <3>2
      <4> QED BY <3>2, <4>1
    <3> QED BY <3>1, <3>2
  <2> QED BY <2>3, <2>4
<1>7. Live' = left
  BY <1>6 DEF Live
<1>8. \A c \in Live : cases'[c].identity = cases[c].identity
  BY <1>6, Typed
<1>9. Counted(Live)' = Counted(left)
  BY <1>7, <1>8 DEF Counted
<1>10. /\ pruner' \in [Pruners -> Prunings] /\ pruner'[p].pc = "idle"
       /\ \A q \in Pruners : q # p => pruner'[q] = pruner[q]
  <2>1. IdlePrune \in Prunings /\ IdlePrune.pc = "idle"
    BY Typed DEF IdlePrune, Prunings
  <2> QED BY <1>1, <2>1, Typed
<1>11. lock' \in Locks /\ lock'.exclusive = None /\ lock'.share = {}
  BY <1>1, <1>2, <1>3, LetsGo
<1>12. items' \in [CaseIds -> {"none", "pending", "done"}]
  BY <1>1, Typed
<1>13. ASSUME NEW q \in Importers PROVE Importing(q)'
  <2>1. Importing(q) /\ importer'[q] = importer[q] /\ Live' \subseteq Live
    BY <1>1, <1>7, Typed
  <2> QED BY <1>1, <1>3, <1>8, <2>1 DEF Importing
<1>14. ASSUME NEW q \in Pruners PROVE Pruning(q)'
  <2>1. pruner'[q].pc = "idle"
    BY <1>2, <1>10, Typed DEF Pruning
  <2> QED BY <2>1 DEF Pruning
<1>15. ASSUME NEW f \in Freezers PROVE Freezing(f)'
  <2>1. freezer'[f].pc = "idle"
    BY <1>1, <1>2, Typed DEF Freezing, Assumptions, NamesAssumption
  <2> QED BY <2>1 DEF Freezing
<1>16. frozen \subseteq CaseIds
  BY Typed
<1>17. TypeOK'
  BY <1>1, <1>5, <1>6, <1>10, <1>11, <1>12, <1>16, Typed DEF TypeOK, Projects, Locks, Rows, Stages, Deliveries,
     Prunings, Freezings, Runs
<1>18. ImportsAreCountedOnce'
  <2>1. project'.imported = Cardinality(Counted(Live)')
    BY <1>2, <1>5, <1>9
  <2>2. \A c, d \in Live' : cases'[c].identity = cases'[d].identity => c = d
    BY <1>7, <1>8 DEF Inductive, ImportsAreCountedOnce
  <2> QED BY <2>1, <2>2 DEF ImportsAreCountedOnce
<1>19. EvidenceIsKept'
  <2>1. frozen' \subseteq Live'
    BY <1>1, <1>2, <1>7, Typed
  <2>2. \A c \in 1 .. Len(cases) : cases[c].identity \in Evidence => cases[c].live
    BY <1>2 DEF Inductive, EvidenceIsKept
  <2> QED BY <1>2, <1>6, <2>1, <2>2 DEF EvidenceIsKept
<1>20. evalRun'.finished + Cardinality(Pending') <= MaxCases
  <2>1. Pending' \subseteq Pending /\ Pending \subseteq CaseIds
    BY <1>1 DEF Pending
  <2>2. IsFiniteSet(Pending) /\ Cardinality(Pending) \in Nat
    BY <2>1, PendingIsFinite
  <2>3. Cardinality(Pending') <= Cardinality(Pending)
    BY <2>1, <2>2, FS_Subset
  <2>4. Cardinality(Pending') \in Nat
    BY <2>1, PendingIsFinite
  <2>5. evalRun' = evalRun /\ evalRun.finished \in Nat /\ MaxCases \in Nat
    BY <1>1, Typed DEF Runs
  <2> QED BY <2>2, <2>3, <2>4, <2>5 DEF Inductive
<1>21. /\ lock'.exclusive # None => lock'.share = {}
       /\ ~project'.alive => Live' = {}
       /\ Len(cases') <= MaxCases
  BY <1>2, <1>5, <1>6, <1>11 DEF Inductive
<1> QED BY <1>11, <1>13, <1>14, <1>15, <1>17, <1>18, <1>19, <1>20, <1>21 DEF Inductive

-----------------------------------------------------------------------------
(* Time, settings, deletion. *)

\* A step that leaves every transaction alone.
LEMMA Bystands ==
    ASSUME Assumptions, Inductive, SameCases, UNCHANGED <<lock, identity, frozen, importer, pruner, freezer, prunes>>,
           project' \in Projects, project'.alive = project.alive, project'.imported = project.imported,
           items' \in [CaseIds -> {"none", "pending", "done"}], evalRun' \in Runs,
           evalRun'.finished + Cardinality(Pending') <= MaxCases
    PROVE  Inductive'
<1>1. ASSUME NEW q \in Importers PROVE Importing(q)'
  BY StaysImporting
<1>2. ASSUME NEW q \in Pruners PROVE Pruning(q)'
  BY StaysPruning
<1>3. ASSUME NEW f \in Freezers PROVE Freezing(f)'
  BY StaysFreezing
<1>4. /\ frozen' \subseteq Live /\ lock' \in Locks /\ importer' \in [Importers -> Deliveries]
      /\ pruner' \in [Pruners -> Prunings] /\ freezer' \in [Freezers -> Freezings]
      /\ identity' \in [Identities -> {None} \cup Importers] /\ prunes' \in 0 .. MaxPrunes
  BY Typed
<1>5. lock'.exclusive # None => lock'.share = {}
  BY DEF Inductive
<1> QED BY <1>1, <1>2, <1>3, <1>4, <1>5, Quiet

\* Cases grow old; none is counted more or less for it.
LEMMA AgeKeeps ==
    ASSUME Assumptions, Inductive, NEW c, Age(c) PROVE Inductive'
<1>1. /\ c \in Live /\ cases' = [cases EXCEPT ![c].old = TRUE] /\ project' = [project EXCEPT !.recent = FALSE]
      /\ UNCHANGED <<lock, identity, frozen, items, evalRun, importer, pruner, freezer, prunes>>
  BY DEF Age
<1>2. c \in 1 .. Len(cases) /\ cases[c] \in Rows /\ cases \in Seq(Rows)
  BY <1>1, Typed
<1>3. cases' = [cases EXCEPT ![c] = [cases[c] EXCEPT !.old = TRUE]]
  BY <1>1
<1>4. /\ [cases[c] EXCEPT !.old = TRUE] \in Rows
      /\ [cases[c] EXCEPT !.old = TRUE].live = cases[c].live
      /\ [cases[c] EXCEPT !.old = TRUE].identity = cases[c].identity
  BY <1>2 DEF Rows
<1>5. SameCases
  <2>1. cases' \in Seq(Rows) /\ Len(cases') = Len(cases)
    BY <1>2, <1>3, <1>4
  <2>2. cases'[c] = [cases[c] EXCEPT !.old = TRUE]
    <3>1. c \in DOMAIN cases
      BY <1>2
    <3> QED BY <1>3, <3>1, Zenon
  <2>3. ASSUME NEW e \in 1 .. Len(cases), e # c PROVE cases'[e] = cases[e]
    BY <1>2, <1>3, <2>3
  <2> QED BY <1>4, <2>1, <2>2, <2>3 DEF SameCases
<1>6. project' \in Projects /\ project'.alive = project.alive /\ project'.imported = project.imported
  BY <1>1, Typed DEF Projects
<1>7. items' \in [CaseIds -> {"none", "pending", "done"}] /\ evalRun' \in Runs
  BY <1>1, Typed
<1>8. evalRun'.finished + Cardinality(Pending') <= MaxCases
  BY <1>1 DEF Inductive, Pending
<1> QED BY <1>1, <1>5, <1>6, <1>7, <1>8, Bystands

\* The owner changes the setting.
LEMMA SetRetentionKeeps ==
    ASSUME Assumptions, Inductive, SetRetention PROVE Inductive'
<1>1. /\ project' = [project EXCEPT !.retention = ~@]
      /\ UNCHANGED <<lock, identity, cases, frozen, items, evalRun, importer, pruner, freezer, prunes>>
  BY DEF SetRetention
<1>2. project' \in Projects /\ project'.alive = project.alive /\ project'.imported = project.imported
  BY <1>1, Typed DEF Projects
<1>3. SameCases /\ items' \in [CaseIds -> {"none", "pending", "done"}] /\ evalRun' \in Runs
  BY <1>1, Typed, UnchangedCases
<1>4. evalRun'.finished + Cardinality(Pending') <= MaxCases
  BY <1>1 DEF Inductive, Pending
<1> QED BY <1>1, <1>2, <1>3, <1>4, Bystands

\* One item of the evaluation run ends.
LEMMA FinishItemKeeps ==
    ASSUME Assumptions, Inductive, NEW c \in CaseIds, FinishItem(c) PROVE Inductive'
<1> DEFINE s == IF evalRun.finished + 1 >= evalRun.total THEN "ended" ELSE evalRun.status
<1>1. /\ items[c] = "pending" /\ items' = [items EXCEPT ![c] = "done"]
      /\ evalRun' = [evalRun EXCEPT !.finished = @ + 1, !.status = s]
      /\ UNCHANGED <<project, lock, identity, cases, frozen, importer, pruner, freezer, prunes>>
  BY DEF FinishItem
<1>2. s \in {"none", "running", "ended"}
  BY Typed DEF Runs
<1> HIDE DEF s
<1>3. Pending' = Pending \ {c} /\ c \in Pending /\ Pending \subseteq CaseIds
  BY <1>1, Typed DEF Pending
<1>4. IsFiniteSet(Pending) /\ Cardinality(Pending) \in Nat /\ Cardinality(Pending') \in Nat
  BY <1>3, PendingIsFinite
<1>5. Cardinality(Pending') = Cardinality(Pending) - 1
  BY <1>3, <1>4, FS_RemoveElement
<1>6. evalRun.finished \in Nat /\ evalRun.finished + Cardinality(Pending) <= MaxCases /\ MaxCases \in Nat
  BY Typed DEF Runs, Inductive
<1>7. evalRun.finished + 1 \in 0 .. MaxCases
  BY <1>4, <1>5, <1>6
<1>8. [[evalRun EXCEPT !.finished = evalRun.finished + 1] EXCEPT !.status = s] \in Runs
  BY <1>2, <1>7, Typed DEF Runs
<1>9. evalRun' = [[evalRun EXCEPT !.finished = evalRun.finished + 1] EXCEPT !.status = s]
  BY <1>1, Typed
<1>10. evalRun' \in Runs /\ evalRun'.finished = evalRun.finished + 1
  BY <1>8, <1>9, Typed DEF Runs
<1>11. evalRun'.finished + Cardinality(Pending') <= MaxCases
  BY <1>4, <1>5, <1>6, <1>10
<1>12. SameCases /\ items' \in [CaseIds -> {"none", "pending", "done"}] /\ project' \in Projects
  BY <1>1, Typed, UnchangedCases
<1> QED BY <1>1, <1>10, <1>11, <1>12, Bystands

\* A run is made over live cases.
LEMMA StartRunKeeps ==
    ASSUME Assumptions, Inductive, NEW S, StartRun(S) PROVE Inductive'
<1>1. /\ S \subseteq Live
      /\ items' = [c \in CaseIds |-> IF c \in S THEN "pending" ELSE "none"]
      /\ evalRun' = [status |-> "running", total |-> Cardinality(S), finished |-> 0]
      /\ UNCHANGED <<project, lock, identity, cases, frozen, importer, pruner, freezer, prunes>>
  BY DEF StartRun
<1>2. Cardinality(S) \in 0 .. MaxCases /\ S \subseteq CaseIds /\ MaxCases \in Nat
  BY <1>1, Countable, Typed
<1>3. Pending' = S
  BY <1>1, <1>2 DEF Pending
<1>4. evalRun' \in Runs /\ evalRun'.finished = 0
  BY <1>1, <1>2 DEF Runs
<1>5. evalRun'.finished + Cardinality(Pending') <= MaxCases
  BY <1>2, <1>3, <1>4
<1>6. SameCases /\ items' \in [CaseIds -> {"none", "pending", "done"}] /\ project' \in Projects
  BY <1>1, Typed, UnchangedCases
<1> QED BY <1>1, <1>4, <1>5, <1>6, Bystands

\* The project goes, with its cases: nobody is in the middle of anything
\* that holds its row.
LEMMA DeleteProjectKeeps ==
    ASSUME Assumptions, Inductive, DeleteProject PROVE Inductive'
<1>1. /\ lock = [exclusive |-> None, writer |-> None, share |-> {}]
      /\ project' = [project EXCEPT !.alive = FALSE, !.imported = 0]
      /\ cases' = [c \in 1 .. Len(cases) |-> [cases[c] EXCEPT !.live = FALSE]]
      /\ frozen' = {} /\ items' = [c \in CaseIds |-> "none"]
      /\ evalRun' = [evalRun EXCEPT !.status = "none"]
      /\ UNCHANGED <<lock, identity, importer, pruner, freezer, prunes>>
  BY DEF DeleteProject
<1>2. lock.exclusive = None /\ lock.share = {}
  BY <1>1
<1>3. [[project EXCEPT !.alive = FALSE] EXCEPT !.imported = 0] \in Projects
  <2>1. 0 \in 0 .. MaxCases /\ project \in Projects
    BY Typed
  <2> QED BY <2>1 DEF Projects
<1>4. project' = [[project EXCEPT !.alive = FALSE] EXCEPT !.imported = 0]
  BY <1>1, Typed
<1>5. project' \in Projects /\ project'.alive = FALSE /\ project'.imported = 0
  BY <1>3, <1>4, Typed DEF Projects
<1>6. /\ cases' \in Seq(Rows) /\ Len(cases') = Len(cases)
      /\ \A c \in 1 .. Len(cases) : cases'[c].live = FALSE
  <2>1. \A c \in 1 .. Len(cases) : [cases[c] EXCEPT !.live = FALSE] \in Rows
    BY Typed DEF Rows
  <2>2. cases' \in [1 .. Len(cases) -> Rows]
    BY <1>1, <2>1, Typed
  <2>3. cases' \in Seq(Rows) /\ Len(cases') = Len(cases)
    BY SMTT(90), <2>2, Typed, SeqDef, LenProperties
  <2>4. ASSUME NEW c \in 1 .. Len(cases) PROVE cases'[c].live = FALSE
    <3>1. cases'[c] = [cases[c] EXCEPT !.live = FALSE]
      BY <1>1
    <3> QED BY <3>1, Typed DEF Rows
  <2> QED BY <2>3, <2>4
<1>7. Live' = {} /\ Counted(Live)' = {}
  BY <1>6 DEF Live, Counted
<1>8. items' \in [CaseIds -> {"none", "pending", "done"}] /\ Pending' = {}
  BY <1>1 DEF Pending
<1>9. evalRun' \in Runs /\ evalRun'.finished = evalRun.finished
  BY <1>1, Typed DEF Runs
<1>10. Cardinality({}) = 0
  BY FS_EmptySet
<1>11. ASSUME NEW q \in Importers PROVE Importing(q)'
  <2>1. Importing(q) /\ importer'[q] = importer[q]
    BY <1>1, Typed
  <2> QED BY <1>1, <1>2, <1>7, <2>1 DEF Importing
<1>12. ASSUME NEW q \in Pruners PROVE Pruning(q)'
  <2>1. pruner'[q].pc = "idle"
    BY <1>1, <1>2, Typed DEF Pruning, Assumptions, NamesAssumption
  <2> QED BY <2>1 DEF Pruning
<1>13. ASSUME NEW f \in Freezers PROVE Freezing(f)'
  <2>1. freezer'[f].pc = "idle"
    BY <1>1, <1>2, Typed DEF Freezing, Assumptions, NamesAssumption
  <2> QED BY <2>1 DEF Freezing
<1>14. TypeOK'
  BY <1>1, <1>5, <1>6, <1>8, <1>9, Typed DEF TypeOK, Projects, Locks, Rows, Stages, Deliveries,
     Prunings, Freezings, Runs
<1>15. ImportsAreCountedOnce' /\ EvidenceIsKept'
  BY <1>1, <1>5, <1>7, <1>10 DEF ImportsAreCountedOnce, EvidenceIsKept
<1>16. /\ evalRun'.finished + Cardinality(Pending') <= MaxCases
       /\ lock'.exclusive # None => lock'.share = {}
       /\ Len(cases') <= MaxCases /\ lock' \in Locks
  BY <1>1, <1>2, <1>6, <1>8, <1>9, <1>10, Typed DEF Runs, Inductive
<1> QED BY <1>7, <1>11, <1>12, <1>13, <1>14, <1>15, <1>16 DEF Inductive

-----------------------------------------------------------------------------
(* Dataset revisions. *)

\* A freezing moves, with the project's row.
LEMMA FreezeMoves ==
    ASSUME Assumptions, Inductive, NEW f \in Freezers,
           UNCHANGED <<project, identity, cases, items, evalRun, importer, pruner, prunes>>,
           freezer' \in [Freezers -> Freezings], \A g \in Freezers : g # f => freezer'[g] = freezer[g],
           frozen' \subseteq Live, lock.exclusive # f => frozen' = frozen,
           lock' \in Locks, lock'.share = lock.share,
           \A q \in Pruners \cup Freezers : q # f /\ lock.exclusive = q => lock'.exclusive = q,
           lock'.exclusive # None => lock.share = {},
           Freezing(f)'
    PROVE  Inductive'
<1>1. SameCases
  BY UnchangedCases
<1>2. ASSUME NEW q \in Importers PROVE Importing(q)'
  BY <1>1, StaysImporting
<1>3. ASSUME NEW q \in Pruners PROVE Pruning(q)'
  <2>1. q # f /\ (lock.exclusive = q => lock'.exclusive = q /\ frozen' = frozen)
    BY DEF Assumptions, NamesAssumption
  <2> QED BY <1>1, <2>1, StaysPruning
<1>4. ASSUME NEW g \in Freezers PROVE Freezing(g)'
  <2>1. CASE g = f
    BY <2>1
  <2>2. CASE g # f
    BY <1>1, <2>2, StaysFreezing
  <2> QED BY <2>1, <2>2
<1>5. Pending' = Pending
  BY DEF Pending
<1>6. /\ project' \in Projects /\ items' \in [CaseIds -> {"none", "pending", "done"}]
      /\ evalRun' \in Runs /\ importer' \in [Importers -> Deliveries] /\ pruner' \in [Pruners -> Prunings]
      /\ identity' \in [Identities -> {None} \cup Importers] /\ prunes' \in 0 .. MaxPrunes
  BY Typed
<1>7. /\ evalRun'.finished + Cardinality(Pending') <= MaxCases
      /\ lock'.exclusive # None => lock'.share = {}
  BY <1>5 DEF Inductive
<1> QED BY <1>1, <1>2, <1>3, <1>4, <1>6, <1>7, Quiet

\* A freezing that ended holds nothing.
LEMMA FreezerRests ==
    ASSUME Assumptions, Inductive, NEW f \in Freezers, freezer' = [freezer EXCEPT ![f] = IdleFreeze]
    PROVE  /\ freezer' \in [Freezers -> Freezings] /\ Freezing(f)'
           /\ \A g \in Freezers : g # f => freezer'[g] = freezer[g]
<1>1. IdleFreeze \in Freezings /\ IdleFreeze.pc = "idle"
  BY Typed DEF IdleFreeze, Freezings
<1>2. freezer' \in [Freezers -> Freezings] /\ freezer'[f] = IdleFreeze
  BY <1>1, Typed
<1> QED BY <1>1, <1>2 DEF Freezing

\* A freezing takes the row of the project alone.
LEMMA FreezeLockKeeps ==
    ASSUME Assumptions, Inductive, NEW f \in Freezers, FreezeLock(f) PROVE Inductive'
<1>1. /\ lock.exclusive = None /\ lock.share = {} /\ project.alive
      /\ freezer' = [freezer EXCEPT ![f].pc = "locked"] /\ lock' = Held(f)
      /\ UNCHANGED <<project, identity, cases, frozen, items, evalRun, importer, pruner, prunes>>
  BY DEF FreezeLock, ForUpdate
<1>2. [freezer[f] EXCEPT !.pc = "locked"] \in Freezings
  BY Typed DEF Freezings
<1>3. freezer' = [freezer EXCEPT ![f] = [freezer[f] EXCEPT !.pc = "locked"]]
  BY <1>1, Typed
<1>4. /\ freezer' \in [Freezers -> Freezings] /\ freezer'[f].pc = "locked"
      /\ \A g \in Freezers : g # f => freezer'[g] = freezer[g]
  BY <1>2, <1>3, Typed DEF Freezings
<1>5. lock' \in Locks /\ lock'.exclusive = f /\ lock'.share = lock.share
  BY <1>1, Typed DEF Held, Locks
<1>6. Freezing(f)'
  BY <1>1, <1>4, <1>5 DEF Freezing
<1>7. frozen' \subseteq Live
  BY <1>1, Typed
<1>8. \A q \in Pruners \cup Freezers : q # f /\ lock.exclusive = q => lock'.exclusive = q
  BY <1>1 DEF Assumptions, NamesAssumption
<1> QED BY <1>1, <1>4, <1>5, <1>6, <1>7, <1>8, FreezeMoves

\* The case that a revision is made of stays alive while the row is held.
LEMMA FreezeReadKeeps ==
    ASSUME Assumptions, Inductive, NEW f \in Freezers, NEW c, FreezeRead(f, c) PROVE Inductive'
<1>1. /\ freezer[f].pc = "locked" /\ c \in Live
      /\ freezer' = [freezer EXCEPT ![f] = [pc |-> "read", case |-> c]]
      /\ UNCHANGED <<project, lock, identity, cases, frozen, items, evalRun, importer, pruner, prunes>>
  BY DEF FreezeRead
<1>2. [pc |-> "read", case |-> c] \in Freezings
  BY <1>1, Typed DEF Freezings, CaseIds
<1>3. /\ freezer' \in [Freezers -> Freezings] /\ freezer'[f] = [pc |-> "read", case |-> c]
      /\ \A g \in Freezers : g # f => freezer'[g] = freezer[g]
  BY <1>1, <1>2, Typed
<1>4. lock.exclusive = f /\ project.alive
  BY <1>1, Typed DEF Freezing
<1>5. Freezing(f)'
  BY <1>1, <1>3, <1>4 DEF Freezing, Live
<1>6. frozen' \subseteq Live /\ lock' \in Locks /\ (lock'.exclusive # None => lock.share = {})
  BY <1>1, Typed DEF Inductive
<1> QED BY <1>1, <1>3, <1>5, <1>6, FreezeMoves

\* What a freezing read is still live when it commits.
LEMMA FreezeEndsKeeps ==
    ASSUME Assumptions, Inductive, NEW f \in Freezers, FreezeCommit(f) \/ FreezeFails(f) PROVE Inductive'
<1>1. /\ freezer[f].pc # "idle" /\ freezer' = [freezer EXCEPT ![f] = IdleFreeze] /\ lock' = Released(f)
      /\ UNCHANGED <<project, identity, cases, items, evalRun, importer, pruner, prunes>>
  BY DEF FreezeCommit, FreezeFails
<1>2. lock.exclusive = f /\ (freezer[f].pc = "read" => freezer[f].case \in Live)
  BY <1>1, Typed DEF Freezing
<1>3. frozen' \subseteq Live
  BY <1>2, Typed DEF FreezeCommit, FreezeFails
<1>4. lock.share = {}
  BY <1>2 DEF Inductive, Assumptions, NamesAssumption
<1>5. lock' \in Locks /\ lock'.exclusive = None /\ lock'.share = lock.share
  BY <1>1, <1>2, <1>4, LetsGo
<1>6. \A q \in Pruners \cup Freezers : q # f /\ lock.exclusive = q => lock'.exclusive = q
  BY <1>2
<1>7. /\ freezer' \in [Freezers -> Freezings] /\ Freezing(f)'
      /\ \A g \in Freezers : g # f => freezer'[g] = freezer[g]
  BY <1>1, FreezerRests
<1> QED BY <1>1, <1>2, <1>3, <1>5, <1>6, <1>7, FreezeMoves

-----------------------------------------------------------------------------
\* An empty project.
LEMMA InitInductive ==
    ASSUME Assumptions, Init PROVE Inductive
<1>1. Len(cases) = 0 /\ Live = {} /\ Pending = {}
  BY DEF Init, Live, Pending
<1>2. Counted(Live) = {} /\ Cardinality({}) = 0 /\ MaxCases \in Nat /\ MaxPrunes \in Nat
  BY <1>1, FS_EmptySet DEF Counted, Assumptions, BoundsAssumption
<1>3. project \in Projects /\ project.imported = 0 /\ project.alive = TRUE
  BY <1>2 DEF Init, Projects
<1>4. lock \in Locks /\ lock.exclusive = None
  BY DEF Init, Locks
<1>5. /\ importer \in [Importers -> Deliveries] /\ pruner \in [Pruners -> Prunings]
      /\ freezer \in [Freezers -> Freezings]
  BY <1>2 DEF Init, Deliveries, Stages, Prunings, Freezings, IdleImport, IdlePrune, IdleFreeze
<1>6. evalRun \in Runs /\ evalRun.finished = 0
  BY <1>2 DEF Init, Runs
<1>7. /\ cases \in Seq([identity : Identities, live : BOOLEAN, old : BOOLEAN]) /\ frozen = {} /\ prunes = 0
      /\ identity \in [Identities -> {None} \cup Importers] /\ items \in [CaseIds -> {"none", "pending", "done"}]
  BY DEF Init
<1>8. TypeOK
  BY <1>2, <1>3, <1>4, <1>5, <1>6, <1>7 DEF TypeOK, Projects, Locks, Deliveries, Stages, Prunings, Freezings, Runs
<1>9. ASSUME NEW p \in Importers PROVE Importing(p)
  BY DEF Init, IdleImport, Importing
<1>10. ASSUME NEW p \in Pruners PROVE Pruning(p)
  BY DEF Init, IdlePrune, Pruning
<1>11. ASSUME NEW f \in Freezers PROVE Freezing(f)
  BY DEF Init, IdleFreeze, Freezing
<1>12. ImportsAreCountedOnce /\ EvidenceIsKept
  <2>1. project.imported = Cardinality(Counted(Live))
    BY <1>1, <1>2, <1>3
  <2>2. ImportsAreCountedOnce
    BY <1>1, <2>1 DEF ImportsAreCountedOnce
  <2>3. 1 .. Len(cases) = {}
    BY <1>1
  <2>4. EvidenceIsKept
    BY <1>1, <1>7, <2>3 DEF EvidenceIsKept
  <2> QED BY <2>2, <2>4
<1> QED BY <1>1, <1>2, <1>4, <1>6, <1>8, <1>9, <1>10, <1>11, <1>12 DEF Inductive

\* Every step keeps what the transactions hold.
LEMMA StepInductive ==
    ASSUME Assumptions, Inductive, [Next]_vars PROVE Inductive'
<1>1. ASSUME NEW p \in Importers, (\E i \in Identities : ImportAsked(p, i)) \/ Import(p) \/ FailImport(p)
      PROVE  Inductive'
  BY <1>1, ImportAskedKeeps, LockIdentityKeeps, LookupKeeps, InsertKeeps, CountKeeps, CommitImportKeeps,
     FailImportKeeps DEF Import
<1>2. ASSUME NEW p \in Pruners, PruneLock(p) \/ Prune(p) PROVE Inductive'
  BY <1>2, PruneLockKeeps, PruneDeleteKeeps, PruneRecountKeeps, PruneCommitKeeps DEF Prune
<1>3. ASSUME NEW f \in Freezers,
             FreezeLock(f) \/ (\E c \in CaseIds : FreezeRead(f, c)) \/ FreezeCommit(f) \/ FreezeFails(f)
      PROVE  Inductive'
  BY <1>3, FreezeLockKeeps, FreezeReadKeeps, FreezeEndsKeeps
<1>4. CASE UNCHANGED vars
  <2>1. SameCases /\ project' \in Projects /\ items' \in [CaseIds -> {"none", "pending", "done"}] /\ evalRun' \in Runs
    BY <1>4, Typed, UnchangedCases DEF vars
  <2>2. evalRun'.finished + Cardinality(Pending') <= MaxCases
    BY <1>4 DEF vars, Inductive, Pending
  <2> QED BY <1>4, <2>1, <2>2, Bystands DEF vars
<1> QED BY <1>1, <1>2, <1>3, <1>4, AgeKeeps, FinishItemKeeps, StartRunKeeps, SetRetentionKeeps,
           DeleteProjectKeeps DEF Next
-----------------------------------------------------------------------------
\* What every transaction holds of the project, at every moment.
THEOREM TransactionsHold == ASSUME Assumptions PROVE Spec => []Inductive
<1>1. Init => Inductive
  BY InitInductive
<1>2. Inductive /\ [Next]_vars => Inductive'
  BY StepInductive
<1> QED BY <1>1, <1>2, PTL DEF Spec

\* Every variable has its type; no transaction is lost track of.
THEOREM RetentionTyped == ASSUME Assumptions PROVE Spec => []TypeOK
<1>1. Inductive => TypeOK
  BY DEF Inductive
<1> QED BY <1>1, TransactionsHold, PTL

\* The number that the project shows is the number of its live traffic
\* cases, one per upstream identity, however many imports, recounts and
\* deletions overlap.
THEOREM ImportsCountOnce == ASSUME Assumptions PROVE Spec => []ImportsAreCountedOnce
<1>1. Inductive => ImportsAreCountedOnce
  BY DEF Inductive
<1> QED BY <1>1, TransactionsHold, PTL

\* What a dataset revision names, and release evidence, outlives retention.
THEOREM EvidenceKept == ASSUME Assumptions PROVE Spec => []EvidenceIsKept
<1>1. Inductive => EvidenceIsKept
  BY DEF Inductive
<1> QED BY <1>1, TransactionsHold, PTL
=============================================================================

---------------------------- MODULE TraceRetention ----------------------------
(***************************************************************************)
(* Imported traces of one project and the transactions that fight over     *)
(* its row: imports, which count what they import; retention pruning,      *)
(* which deletes old cases and recounts; the freezing of a dataset, whose  *)
(* items name cases without a foreign key; evaluation runs, whose items    *)
(* disappear with their case; and the deletion of the project.             *)
(*   trace-import-commands.ts     lockTraceImportIdentity,                 *)
(*                                importTraceOnClient                      *)
(*   project-repository.ts        pruneExpiredTraces, deleteProject,       *)
(*                                updateProjectSettings                    *)
(*   project-counter-commands.ts  refreshProjectCounters                   *)
(*   dataset-repository.ts        createDatasetRevision (its project lock) *)
(*                                                                         *)
(* The locks of the project row, as PostgreSQL gives them: FOR UPDATE      *)
(* excludes everyone; an update of a counter excludes the other updates    *)
(* but not KEY SHARE, which every insert of a row of the project takes     *)
(* until it commits.                                                       *)
(***************************************************************************)
EXTENDS Naturals, Sequences, FiniteSets

CONSTANTS
    Identities,    \* source, remote project, trace id, trace version
    Evidence,      \* those imported as release evidence
    Scaffolding,   \* those no counter counts: gate candidates and evidence
    Importers, Pruners, Freezers,
    None,
    MaxCases,      \* bound: rows of cases
    MaxPrunes,     \* bound: prunings
    MaxFreezes     \* bound: dataset revisions

KindsAssumption  == Evidence \subseteq Scaffolding /\ Scaffolding \subseteq Identities
NamesAssumption  ==
    /\ None \notin Importers \cup Pruners \cup Freezers
    /\ Importers \cap Pruners = {} /\ Importers \cap Freezers = {} /\ Pruners \cap Freezers = {}
BoundsAssumption == MaxCases \in Nat /\ MaxPrunes \in Nat

VARIABLES
    project,    \* [alive, retention, imported, recent]
    lock,       \* [exclusive, writer, share]: who holds the project's row
    identity,   \* identity -> the importer that holds its advisory lock
    cases,      \* sequence of [identity, live, old]
    frozen,     \* the cases that dataset revisions name
    items,      \* case -> "none", "pending" or "done": the items of one run
    evalRun,    \* [status, total, finished]
    importer,   \* importer -> [pc, identity]
    pruner,     \* pruner -> [pc, deletes, count]
    freezer,    \* freezer -> [pc, case]
    prunes

vars == <<project, lock, identity, cases, frozen, items, evalRun, importer, pruner, freezer, prunes>>

CaseIds == 1 .. MaxCases
Live == {c \in 1 .. Len(cases) : cases[c].live}
Counted(S) == {c \in S : cases[c].identity \notin Scaffolding}
IdleImport == [pc |-> "idle", identity |-> None]
IdlePrune == [pc |-> "idle", deletes |-> {}, count |-> 0]
IdleFreeze == [pc |-> "idle", case |-> 0]

Init ==
    /\ project = [alive |-> TRUE, retention |-> TRUE, imported |-> 0, recent |-> FALSE]
    /\ lock = [exclusive |-> None, writer |-> None, share |-> {}]
    /\ identity = [i \in Identities |-> None]
    /\ cases = <<>>
    /\ frozen = {}
    /\ items = [c \in CaseIds |-> "none"]
    /\ evalRun = [status |-> "none", total |-> 0, finished |-> 0]
    /\ importer = [p \in Importers |-> IdleImport]
    /\ pruner = [p \in Pruners |-> IdlePrune]
    /\ freezer = [f \in Freezers |-> IdleFreeze]
    /\ prunes = 0

-----------------------------------------------------------------------------
(* The row of the project. *)

\* Faulty variant: a plain SELECT.
Unlocked(p) == p \in Pruners \cup Freezers
\* SELECT ... FOR UPDATE waits for every other holder.
ForUpdate(p) == lock.exclusive = None /\ lock.writer = None /\ lock.share = {}
\* The foreign key of an insert waits for FOR UPDATE only.
KeyShare(p) == lock.exclusive = None
\* An update of a counter waits for another update too.
Update(p) == lock.exclusive = None /\ lock.writer \in {None, p}
Held(p) == [lock EXCEPT !.exclusive = p]
Released(p) == [exclusive |-> IF lock.exclusive = p THEN None ELSE lock.exclusive,
                writer |-> IF lock.writer = p THEN None ELSE lock.writer,
                share |-> lock.share \ {p}]

-----------------------------------------------------------------------------
(* Imports. *)

ImportAsked(p, i) ==
    /\ importer[p].pc = "idle"
    /\ importer' = [importer EXCEPT ![p] = [pc |-> "asked", identity |-> i]]
    /\ UNCHANGED <<project, lock, identity, cases, frozen, items, evalRun, pruner, freezer, prunes>>

\* Faulty variant: the lookup runs unserialized.
AnyIdentity(i) == i \in Identities
\* The advisory lock of the identity, held to the end of the transaction.
IdentityIsFree(i) == identity[i] = None

LockIdentity(p) ==
    LET i == importer[p].identity IN
    /\ importer[p].pc = "asked"
    /\ IdentityIsFree(i)
    /\ identity' = [identity EXCEPT ![i] = p]
    /\ importer' = [importer EXCEPT ![p].pc = "locked"]
    /\ UNCHANGED <<project, lock, cases, frozen, items, evalRun, pruner, freezer, prunes>>

Unlock(p) == [i \in Identities |-> IF identity[i] = p THEN None ELSE identity[i]]

\* The oldest case of the identity is the answer of a repeated import.
Lookup(p) ==
    LET same == {c \in Live : cases[c].identity = importer[p].identity} IN
    /\ importer[p].pc = "locked"
    /\ IF same = {}
          THEN /\ importer' = [importer EXCEPT ![p].pc = "absent"]
               /\ UNCHANGED identity
          ELSE /\ importer' = [importer EXCEPT ![p] = IdleImport]
               /\ identity' = Unlock(p)
    /\ UNCHANGED <<project, lock, cases, frozen, items, evalRun, pruner, freezer, prunes>>

\* The inserts take KEY SHARE; a project that is gone refuses them.
Insert(p) ==
    /\ importer[p].pc = "absent"
    /\ KeyShare(p)
    /\ IF project.alive
          THEN /\ importer' = [importer EXCEPT ![p].pc =
                     IF importer[p].identity \in Scaffolding THEN "counted" ELSE "inserted"]
               /\ lock' = [lock EXCEPT !.share = @ \cup {p}]
               /\ UNCHANGED identity
          ELSE /\ importer' = [importer EXCEPT ![p] = IdleImport]
               /\ identity' = Unlock(p)
               /\ UNCHANGED lock
    /\ UNCHANGED <<project, cases, frozen, items, evalRun, pruner, freezer, prunes>>

\* The increment of the counter: the row is this transaction's until it commits.
Count(p) ==
    /\ importer[p].pc = "inserted"
    /\ Update(p)
    /\ importer' = [importer EXCEPT ![p].pc = "counted"]
    /\ lock' = [lock EXCEPT !.writer = p]
    /\ UNCHANGED <<project, identity, cases, frozen, items, evalRun, pruner, freezer, prunes>>

Increment(i) == IF i \in Scaffolding THEN 0 ELSE 1

CommitImport(p) ==
    LET i == importer[p].identity IN
    /\ importer[p].pc = "counted"
    /\ Len(cases) < MaxCases
    /\ cases' = Append(cases, [identity |-> i, live |-> TRUE, old |-> FALSE])
    /\ project' = [project EXCEPT !.imported = @ + Increment(i)]
    /\ importer' = [importer EXCEPT ![p] = IdleImport]
    /\ lock' = Released(p)
    /\ identity' = Unlock(p)
    /\ UNCHANGED <<frozen, items, evalRun, pruner, freezer, prunes>>

\* A connection that is lost rolls the transaction back.
FailImport(p) ==
    /\ importer[p].pc \notin {"idle", "asked"}
    /\ importer' = [importer EXCEPT ![p] = IdleImport]
    /\ lock' = Released(p)
    /\ identity' = Unlock(p)
    /\ UNCHANGED <<project, cases, frozen, items, evalRun, pruner, freezer, prunes>>

-----------------------------------------------------------------------------
(* Retention. *)

PruneLock(p) ==
    /\ pruner[p].pc = "idle"
    /\ prunes < MaxPrunes
    /\ ForUpdate(p)
    /\ prunes' = prunes + 1
    /\ IF project.alive /\ project.retention /\ ~project.recent
          THEN /\ pruner' = [pruner EXCEPT ![p] = [IdlePrune EXCEPT !.pc = "locked"]]
               /\ lock' = Held(p)
          ELSE UNCHANGED <<pruner, lock>>
    /\ UNCHANGED <<project, identity, cases, frozen, items, evalRun, importer, freezer>>

\* What retention takes: old cases that are neither evidence nor in a revision.
Expired == {c \in Live : /\ cases[c].old
                         /\ cases[c].identity \notin Evidence
                         /\ c \notin frozen}

PruneDelete(p) ==
    /\ pruner[p].pc = "locked"
    /\ pruner' = [pruner EXCEPT ![p].pc = "deleted", ![p].deletes = Expired]
    /\ UNCHANGED <<project, lock, identity, cases, frozen, items, evalRun, importer, freezer, prunes>>

\* The recount reads what its own statement sees: the committed rows, less its deletes.
Recounted(S) == Cardinality(Counted(S))

PruneRecount(p) ==
    /\ pruner[p].pc = "deleted"
    /\ pruner' = [pruner EXCEPT ![p].pc = "recounted",
                                ![p].count = Recounted(Live \ pruner[p].deletes)]
    /\ UNCHANGED <<project, lock, identity, cases, frozen, items, evalRun, importer, freezer, prunes>>

\* The case takes the items of evaluation runs with it.
PruneCommit(p) ==
    LET gone == pruner[p].deletes IN
    /\ pruner[p].pc = "recounted"
    /\ lock.writer \in {None, p}
    /\ cases' = [c \in 1 .. Len(cases) |->
                   IF c \in gone THEN [cases[c] EXCEPT !.live = FALSE] ELSE cases[c]]
    /\ items' = [c \in CaseIds |-> IF c \in gone THEN "none" ELSE items[c]]
    /\ project' = [project EXCEPT !.imported = pruner[p].count, !.recent = TRUE]
    /\ pruner' = [pruner EXCEPT ![p] = IdlePrune]
    /\ lock' = Released(p)
    /\ UNCHANGED <<identity, frozen, evalRun, importer, freezer, prunes>>

\* Time passes: a live case is past the cutoff, and the last pruning is a minute ago.
Age(c) ==
    /\ c \in Live
    /\ ~cases[c].old
    /\ cases' = [cases EXCEPT ![c].old = TRUE]
    /\ project' = [project EXCEPT !.recent = FALSE]
    /\ UNCHANGED <<lock, identity, frozen, items, evalRun, importer, pruner, freezer, prunes>>

\* updateProjectSettings: the owner turns retention off or on.
SetRetention ==
    /\ project.alive
    /\ lock.exclusive = None /\ lock.writer = None
    /\ project' = [project EXCEPT !.retention = ~@]
    /\ UNCHANGED <<lock, identity, cases, frozen, items, evalRun, importer, pruner, freezer, prunes>>

\* deleteProject: everything of the project goes with its row.
DeleteProject ==
    /\ project.alive
    /\ lock = [exclusive |-> None, writer |-> None, share |-> {}]
    /\ project' = [project EXCEPT !.alive = FALSE, !.imported = 0]
    /\ cases' = [c \in 1 .. Len(cases) |-> [cases[c] EXCEPT !.live = FALSE]]
    /\ frozen' = {}
    /\ items' = [c \in CaseIds |-> "none"]
    /\ evalRun' = [evalRun EXCEPT !.status = "none"]
    /\ UNCHANGED <<lock, identity, importer, pruner, freezer, prunes>>

-----------------------------------------------------------------------------
(* Dataset revisions. *)

FreezeLock(f) ==
    /\ freezer[f].pc = "idle"
    /\ Cardinality(frozen) < MaxFreezes
    /\ ForUpdate(f)
    /\ project.alive
    /\ freezer' = [freezer EXCEPT ![f].pc = "locked"]
    /\ lock' = Held(f)
    /\ UNCHANGED <<project, identity, cases, frozen, items, evalRun, importer, pruner, prunes>>

\* The revision is made of the cases that its statement reads.
FreezeRead(f, c) ==
    /\ freezer[f].pc = "locked"
    /\ c \in Live
    /\ freezer' = [freezer EXCEPT ![f] = [pc |-> "read", case |-> c]]
    /\ UNCHANGED <<project, lock, identity, cases, frozen, items, evalRun, importer, pruner, prunes>>

FreezeCommit(f) ==
    /\ freezer[f].pc = "read"
    /\ frozen' = frozen \cup {freezer[f].case}
    /\ freezer' = [freezer EXCEPT ![f] = IdleFreeze]
    /\ lock' = Released(f)
    /\ UNCHANGED <<project, identity, cases, items, evalRun, importer, pruner, prunes>>

\* A dataset of no live case is refused, and a lost connection rolls back.
FreezeFails(f) ==
    /\ freezer[f].pc /= "idle"
    /\ freezer' = [freezer EXCEPT ![f] = IdleFreeze]
    /\ lock' = Released(f)
    /\ UNCHANGED <<project, identity, cases, frozen, items, evalRun, importer, pruner, prunes>>

-----------------------------------------------------------------------------
(* One evaluation run over live cases. *)

StartRun(S) ==
    /\ evalRun.status = "none"
    /\ project.alive
    /\ S /= {} /\ S \subseteq Live
    /\ lock.exclusive = None
    /\ items' = [c \in CaseIds |-> IF c \in S THEN "pending" ELSE "none"]
    /\ evalRun' = [status |-> "running", total |-> Cardinality(S), finished |-> 0]
    /\ UNCHANGED <<project, lock, identity, cases, frozen, importer, pruner, freezer, prunes>>

\* An item ends, completed or failed; the last one that is counted ends the run.
FinishItem(c) ==
    /\ items[c] = "pending"
    /\ items' = [items EXCEPT ![c] = "done"]
    /\ evalRun' = [evalRun EXCEPT !.finished = @ + 1,
                                  !.status = IF evalRun.finished + 1 >= evalRun.total THEN "ended" ELSE @]
    /\ UNCHANGED <<project, lock, identity, cases, frozen, importer, pruner, freezer, prunes>>

-----------------------------------------------------------------------------
Import(p) == LockIdentity(p) \/ Lookup(p) \/ Insert(p) \/ Count(p) \/ CommitImport(p)
Prune(p) == PruneDelete(p) \/ PruneRecount(p) \/ PruneCommit(p)

Next ==
    \/ \E p \in Importers : (\E i \in Identities : ImportAsked(p, i)) \/ Import(p) \/ FailImport(p)
    \/ \E p \in Pruners : PruneLock(p) \/ Prune(p)
    \/ \E f \in Freezers : FreezeLock(f) \/ (\E c \in CaseIds : FreezeRead(f, c))
                           \/ FreezeCommit(f) \/ FreezeFails(f)
    \/ \E c \in CaseIds : Age(c) \/ FinishItem(c)
    \/ \E S \in SUBSET CaseIds : StartRun(S)
    \/ SetRetention \/ DeleteProject

Spec == Init /\ [][Next]_vars

\* Statements that are not blocked run; every pending item is eventually
\* recorded, by its handler or by the recovery sweep.
FairSpec ==
    /\ Spec
    /\ \A p \in Importers : SF_vars(Import(p))
    /\ \A p \in Pruners : WF_vars(Prune(p))
    /\ \A f \in Freezers : WF_vars(FreezeCommit(f) \/ FreezeFails(f))
    /\ \A c \in CaseIds : WF_vars(FinishItem(c))

-----------------------------------------------------------------------------
(* Properties. *)

\* Every variable has its type.
TypeOK ==
    /\ project \in [alive : BOOLEAN, retention : BOOLEAN, imported : 0 .. MaxCases, recent : BOOLEAN]
    /\ lock.exclusive \in {None} \cup Pruners \cup Freezers
    /\ lock.writer \in {None} \cup Importers
    /\ lock.share \subseteq Importers
    /\ identity \in [Identities -> {None} \cup Importers]
    /\ cases \in Seq([identity : Identities, live : BOOLEAN, old : BOOLEAN])
    /\ frozen \subseteq CaseIds
    /\ items \in [CaseIds -> {"none", "pending", "done"}]
    /\ evalRun \in [status : {"none", "running", "ended"}, total : 0 .. MaxCases, finished : 0 .. MaxCases]
    /\ importer \in [Importers -> [pc : {"idle", "asked", "locked", "absent", "inserted", "counted"},
                                   identity : Identities \cup {None}]]
    /\ pruner \in [Pruners -> [pc : {"idle", "locked", "deleted", "recounted"},
                               deletes : SUBSET CaseIds, count : 0 .. MaxCases]]
    /\ freezer \in [Freezers -> [pc : {"idle", "locked", "read"}, case : 0 .. MaxCases]]
    /\ prunes \in 0 .. MaxPrunes

\* The number of imported traces shown for a project is the number of its
\* live traffic cases, one per upstream identity, whatever imports, recounts
\* and deletions overlap (importTraceOnClient adds, refreshProjectCounters
\* recounts).
ImportsAreCountedOnce ==
    /\ project.imported = Cardinality(Counted(Live))
    /\ \A c, d \in Live : cases[c].identity = cases[d].identity => c = d

\* A case that a dataset revision names, or that is release evidence, outlives
\* retention, although no foreign key protects it (pruneExpiredTraces: an
\* immutable revision remains executable evidence).
EvidenceIsKept ==
    /\ frozen \subseteq Live
    /\ project.alive => \A c \in 1 .. Len(cases) : cases[c].identity \in Evidence => cases[c].live

\* An import ends although others hold its identity, and although a pruning
\* or a freezing that follows holds the project's row.
ImportsEnd == \A p \in Importers : importer[p].pc = "asked" ~> importer[p].pc = "idle"

\* eval-run.ts:24: an item's end must always reach its run, otherwise the run
\* polls as running for ever.
RunsEnd == evalRun.status = "running" ~> evalRun.status /= "running"
=============================================================================

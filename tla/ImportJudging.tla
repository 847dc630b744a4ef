----------------------------- MODULE ImportJudging -----------------------------
(***************************************************************************)
(* How imported cases come to be judged by one evaluator version: the      *)
(* first import creates a backfill run over every case of the project,     *)
(* later cases get a run of their own, and imports, their retries and the  *)
(* gate worker overlap.                                                    *)
(*   workers/import-judging.ts   scheduleImportedCaseJudging               *)
(*   workers/gate.ts             runExistingCaseBackfill                   *)
(*   eval-run-repository.ts      createEvalRunOnce, listEvalRuns           *)
(* Every item of a run is one call of the provider (EvalRun models why it  *)
(* is not more), so a case that two runs hold is judged twice.  The        *)
(* dispatch of a run is EvalDispatch's.                                    *)
(***************************************************************************)
EXTENDS Naturals, Sequences, FiniteSets

CONSTANTS
    Cases,
    Workers,      \* import jobs and gate jobs in flight
    Page,         \* runs that a listing returns, the latest first (100 in the code)
    MaxRuns,      \* bound: runs
    MaxJobs,      \* bound: jobs taken up
    MaxFaults,    \* bound: retries of a job that failed
    MaxOther      \* bound: verdicts that come from elsewhere (the judge endpoint, a manual run)

PageAssumption == Page \in Nat \ {0}

VARIABLES
    imported,   \* the cases of the project
    verdicts,   \* the cases with a verdict by the version
    runs,       \* sequence of [trigger, case, items, pending]
    worker,     \* worker -> [pc, want, result, found, listed, remaining, case]
    jobs, faults, others

vars == <<imported, verdicts, runs, worker, jobs, faults, others>>

Idle == [pc |-> "idle", want |-> {}, result |-> FALSE, found |-> FALSE,
         listed |-> {}, remaining |-> {}, case |-> {}]

Init ==
    /\ imported = {}
    /\ verdicts = {}
    /\ runs = <<>>
    /\ worker = [w \in Workers |-> Idle]
    /\ jobs = 0
    /\ faults = 0
    /\ others = 0

\* The unique indexes of eval_runs: one backfill of a version, one ingestion
\* run of a version and a case.
Same(r, trigger, c) == runs[r].trigger = trigger /\ runs[r].case = c
Existing(trigger, c) == {r \in 1 .. Len(runs) : Same(r, trigger, c)}

\* Faulty variant: no unique index.
NeverConflicts(trigger, c) == {}
Conflicts(trigger, c) == Existing(trigger, c)

\* listEvalRuns: the latest runs, as many as a page has.
Listed == {r \in 1 .. Len(runs) : r + Page > Len(runs)}
ListsBackfill == \E r \in Listed : runs[r].trigger = "backfill"

\* The row of a run and its items, all pending.
RunOf(trigger, S) ==
    [trigger |-> trigger, case |-> IF trigger = "case" THEN S ELSE {}, items |-> S, pending |-> S]

Goto(w, changes) == worker' = [worker EXCEPT ![w] = changes]

-----------------------------------------------------------------------------
(* A job begins. *)

\* An import job saves its cases, then schedules their judging.
StartImport(w, S) ==
    /\ worker[w].pc = "idle"
    /\ jobs < MaxJobs
    /\ S /= {}
    /\ imported' = imported \cup S
    /\ jobs' = jobs + 1
    /\ Goto(w, [Idle EXCEPT !.pc = "result", !.want = S])
    /\ UNCHANGED <<verdicts, runs, faults, others>>

\* A gate job that has accepted the version backfills the cases there are.
StartBackfill(w) ==
    /\ worker[w].pc = "idle"
    /\ jobs < MaxJobs
    /\ jobs' = jobs + 1
    /\ Goto(w, [Idle EXCEPT !.pc = "list"])
    /\ UNCHANGED <<imported, verdicts, runs, faults, others>>

-----------------------------------------------------------------------------
(* scheduleImportedCaseJudging. *)

\* Is there any verdict by the version?
CheckResult(w) ==
    /\ worker[w].pc = "result"
    /\ Goto(w, [worker[w] EXCEPT !.pc = "backfill", !.result = verdicts /= {}])
    /\ UNCHANGED <<imported, verdicts, runs, jobs, faults, others>>

\* Is there a backfill run on the page?  Before the first result there is to be one.
CheckBackfill(w) ==
    /\ worker[w].pc = "backfill"
    /\ Goto(w, IF ListsBackfill \/ ~worker[w].result
                  THEN [worker[w] EXCEPT !.pc = "list"]
                  ELSE [worker[w] EXCEPT !.pc = "each", !.remaining = worker[w].want])
    /\ UNCHANGED <<imported, verdicts, runs, jobs, faults, others>>

\* The cases that the backfill does not hold get a run of their own.
Uncovered(want, r) == want \ runs[r].items

\* A case that has a verdict needs no run.
CheckCase(w, c) ==
    /\ worker[w].pc = "each"
    /\ c \in worker[w].remaining
    /\ Goto(w, IF c \in verdicts
                  THEN [worker[w] EXCEPT !.remaining = @ \ {c}]
                  ELSE [worker[w] EXCEPT !.pc = "make", !.remaining = @ \ {c}, !.case = {c}])
    /\ UNCHANGED <<imported, verdicts, runs, jobs, faults, others>>

\* createImportedCaseEvalRun: the run, or the one there is.
MakeRun(w) ==
    LET S == worker[w].case IN
    /\ worker[w].pc = "make"
    /\ IF Conflicts("case", S) /= {}
          THEN UNCHANGED runs
          ELSE /\ Len(runs) < MaxRuns
               /\ runs' = Append(runs, RunOf("case", S))
    /\ Goto(w, [worker[w] EXCEPT !.pc = "each", !.case = {}])
    /\ UNCHANGED <<imported, verdicts, jobs, faults, others>>

Finish(w) ==
    /\ worker[w].pc = "each"
    /\ worker[w].remaining = {}
    /\ Goto(w, Idle)
    /\ UNCHANGED <<imported, verdicts, runs, jobs, faults, others>>

-----------------------------------------------------------------------------
(* runExistingCaseBackfill. *)

List(w) ==
    /\ worker[w].pc = "list"
    /\ Goto(w, IF imported = {}
                  THEN [worker[w] EXCEPT !.pc = "each", !.remaining = worker[w].want]
                  ELSE [worker[w] EXCEPT !.pc = "find", !.listed = imported])
    /\ UNCHANGED <<imported, verdicts, runs, jobs, faults, others>>

Find(w) ==
    /\ worker[w].pc = "find"
    /\ Goto(w, [worker[w] EXCEPT !.pc = "create", !.found = ListsBackfill])
    /\ UNCHANGED <<imported, verdicts, runs, jobs, faults, others>>

\* The run over the cases that were listed, unless there is a backfill.
Create(w) ==
    LET S == worker[w].listed IN
    /\ worker[w].pc = "create"
    /\ IF worker[w].found \/ Conflicts("backfill", {}) /= {}
          THEN UNCHANGED runs
          ELSE /\ Len(runs) < MaxRuns
               /\ runs' = Append(runs, RunOf("backfill", S))
    /\ Goto(w, [worker[w] EXCEPT !.pc = "cover", !.listed = {}])
    /\ UNCHANGED <<imported, verdicts, jobs, faults, others>>

\* What the detail of the backfill run covers.
Cover(w) ==
    /\ worker[w].pc = "cover"
    /\ \E r \in Existing("backfill", {}) :
         Goto(w, [worker[w] EXCEPT !.pc = "each", !.remaining = Uncovered(worker[w].want, r)])
    /\ UNCHANGED <<imported, verdicts, runs, jobs, faults, others>>

-----------------------------------------------------------------------------
(* The environment. *)

\* A job whose process dies, or that throws, is delivered again.
Retry(w) ==
    /\ worker[w].pc /= "idle"
    /\ faults < MaxFaults
    /\ faults' = faults + 1
    /\ Goto(w, [Idle EXCEPT !.pc = IF worker[w].want = {} THEN "list" ELSE "result",
                            !.want = worker[w].want])
    /\ UNCHANGED <<imported, verdicts, runs, jobs, others>>

\* An item of a run ends, with a verdict or without.
EndItem(r, c, ok) ==
    /\ c \in runs[r].pending
    /\ runs' = [runs EXCEPT ![r].pending = @ \ {c}]
    /\ verdicts' = IF ok THEN verdicts \cup {c} ELSE verdicts
    /\ UNCHANGED <<imported, worker, jobs, faults, others>>

\* A verdict by the version that no run of an import made.
OtherVerdict(c) ==
    /\ others < MaxOther
    /\ c \in imported \ verdicts
    /\ verdicts' = verdicts \cup {c}
    /\ others' = others + 1
    /\ UNCHANGED <<imported, runs, worker, jobs, faults>>

Step(w) ==
    \/ CheckResult(w) \/ CheckBackfill(w) \/ List(w) \/ Find(w) \/ Create(w) \/ Cover(w)
    \/ (\E c \in Cases : CheckCase(w, c)) \/ MakeRun(w) \/ Finish(w)

Next ==
    \/ \E w \in Workers : (\E S \in SUBSET Cases : StartImport(w, S)) \/ StartBackfill(w)
                          \/ Step(w) \/ Retry(w)
    \/ \E r \in 1 .. Len(runs), c \in Cases, ok \in BOOLEAN : EndItem(r, c, ok)
    \/ \E c \in Cases : OtherVerdict(c)

Spec == Init /\ [][Next]_vars
\* A job that was taken up is worked off, by a retry if need be.
FairSpec == Spec /\ \A w \in Workers : WF_vars(Step(w))

-----------------------------------------------------------------------------
(* Properties. *)

\* Every variable has its type.
TypeOK ==
    /\ imported \subseteq Cases
    /\ verdicts \subseteq imported
    /\ runs \in Seq([trigger : {"backfill", "case"}, case : SUBSET Cases,
                     items : SUBSET imported, pending : SUBSET imported])
    /\ worker \in [Workers -> [pc : {"idle", "result", "backfill", "list", "find", "create", "cover",
                                     "each", "make"},
                               want : SUBSET Cases, result : BOOLEAN, found : BOOLEAN,
                               listed : SUBSET Cases, remaining : SUBSET Cases, case : SUBSET Cases]]
    /\ jobs \in 0 .. MaxJobs /\ faults \in 0 .. MaxFaults /\ others \in 0 .. MaxOther

\* import-judging.ts:47: concurrent imports and retries of workers cannot
\* enqueue a second call of the provider for a case.
NoSecondCall ==
    \A r, s \in 1 .. Len(runs) : r /= s => runs[r].items \cap runs[s].items = {}

\* Every imported case comes into a run or has a verdict, although the backfill
\* was created before it was imported, and although the job failed and was
\* repeated between any two of its statements.
EveryCaseIsScheduled ==
    \A c \in Cases :
        (c \in imported) ~> (c \in verdicts \/ \E r \in 1 .. Len(runs) : c \in runs[r].items)
=============================================================================

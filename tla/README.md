# Formal models of Rubrist

Rubrist (the repository was named coeval before ADR-0012) turns human judgements
of traces into evaluators, measures those evaluators against sealed human truth,
and runs them. It is a TypeScript monorepo around one PostgreSQL database. The
hard part is not what a request computes but what several workers, redelivered
queue jobs and recovery sweeps do to the same rows at the same time, with a paid
and unrepeatable call to a model provider in the middle.

This directory holds TLA+ models of those parts, the TLC configurations that
check them on small instances, and TLAPS proofs of what matters most for every
instance. `PROJECT.json` lists components, runs, mutations, hazards, theorems
and, for each definition, the lines it models.

Contents: [inventory](#inventory), [modules](#modules), [sealed binary
calibration](#sealed-binary-calibration), [evaluation runs](#evaluation-runs),
[the other components](#the-other-components), [findings](#findings),
[proofs](#proofs), [what is not shown](#what-is-not-shown), [running the
checks](#running-the-checks).

## Inventory

Paths are relative to `src/apps/api/src` unless they start with `src/`. "Store"
is PostgreSQL unless said otherwise. Each component is listed with its state,
its operations, its neighbours, what is hard about it and what makes it correct.

**Sealed binary calibration** (`binary-calibration/`, `lib/binary-calibration-v2.ts`).
State: `binary_calibration_runs`, `_attempts`, `_revision_leases`, execution
authorizations, artifacts. Operations: create, discover, claim, re-check, authorize,
recover, heartbeat, start a call, complete an attempt, finalize, park. Talks to
pg-boss, the provider, the evaluator lifecycle, the exposure ledger. Hard: claims
that lapse while a call is in flight, crashes between "counted" and "called",
eligibility that changes under a run, two runs on one revision. Correct when an
item is never called twice, every call is accounted, the sealed revision is held
from authorization to mint, and a completed run was admissible when it completed.
*Modelled, checked, proved.*

**Evaluation runs** (`workers/eval-run.ts`, `repository.pg/eval-run-repository.ts`,
`repository.pg/assessment-receipt-commands.ts`, `workers/judge.ts`). State:
`eval_runs` (status and counters), `eval_run_items` (claim token, call markers,
delivery deadline, outcome), the terminal receipt. Operations: create, arm,
fan out, claim, begin, return, complete, fail, release, sweep and recover. Talks to
pg-boss (`eval.run`, `eval.item`), the provider, feedback sync. Hard: job expiry
against claim age, redelivery against a slow handler, sweeps acting on snapshots,
lost acknowledgements. Correct when an item is called at most once, its outcome says
truly whether a call left, each item is counted once, and a dispatched run ends.
*Modelled, checked, proved; the creation transaction is the initial state.*

**Evaluation dispatch outbox** (`workers/gate.ts`). State: dispatch columns of
`eval_runs`. Operations: claim, send, rotate, mark, release. Neighbours: pg-boss,
evaluation runs. Hard: a claim taken over after five minutes whose send already
happened; a failed job replaced by a fresh id; the look-up-then-create of the
backfill run. Correct when a run has one live fan-out job and is never marked
dispatched without one.

**Regression gate and skill versions** (`repository.pg/skill-lifecycle-repository.ts`,
`repository.pg/regression-run-commands.ts`, `repository.pg/skill-version-commands.ts`).
State: skill versions and their status, immutable regression runs, sign-offs.
Operations: create pending, run the gate under a session advisory lock, fail
terminally, override, sign off. Hard: overlapping deliveries of `gate.run`; the
lock dies with its connection. Correct when a version has one regression run, over
the revision it pins, and a blocked one judges no traffic.

**Evaluator lifecycle** (`evaluator-lifecycle/`). State: a hash-chained list of events
per version, execution authorizations, binding resolutions. Operations: create
candidate, activate (retiring the prior active version in the same commit), retire,
authorize an execution. Hard: two owners act on heads they read earlier. Correct when
a criterion has at most one active version and the chain has no gap or fork.

**Assessment receipts** (`repository.pg/assessment-receipt-repository.ts`,
`lib/assessment-receipt-v2.ts`). State: immutable artifacts, a chain of corrections.
Operations: freeze on first read, correct, compare a copy. Hard: two first reads,
two corrections of one predecessor. Correct when the bytes of a receipt never change
and corrections form one chain.

**Dataset revisions and exposure** (`repository.pg/dataset-repository.ts`,
`repository.pg/dataset-revision-commands.ts`). State: datasets, immutable revisions
with a role, exposure events. Operations: freeze a revision, reuse an identical one,
record an exposure. Hard: an exposure arriving while a revision is sealed or leased.
Correct when an exposure, once recorded, stays, and none is recorded under a lease.

**Governed review** (`governed-review/`, `lib/governed-review-state.ts`). State:
instructions, sealed intakes, batches, tasks, blind views, task events, alignment
events, adjudications, imported truth. Operations: draft, open, view, submit, cross the
barrier, align, adjudicate, finalize. Hard: the last submission opens the barrier for
everyone; events form chains with compare-and-set heads. Correct when no reviewer sees
another's label before the barrier and final truth follows from submitted evidence.

**Analysis** (`analysis-population/`, `analysis-study/`, `analysis-promotion/`,
`analysis-measurement/`). State: drawn populations, studies with item events,
taxonomies, promotions. Operations: draw, open, append, complete, abandon, close at
the deadline, promote. Hard: the deadline sweep against late item events; retries of a
failed closing. Correct when a closed study never changes and every draw is replayable.

**Production outcome records** (`production-calibration/`). State: decision records,
tombstones, snapshots, retention settings. Operations: append, erase, purge a revoked
key, apply retention. Hard: an append authenticated before an erasure that commits
after it. Correct when an erased decision never comes back.

**Integrations, pollers, imports** (`workers/*-poller.ts`, `workers/*-import.ts`,
`repository.pg/integration-repository.ts`, `repository.pg/trace-import-commands.ts`).
State: integrations with poll times, the Ironside cursor and revision, import jobs,
cases. Operations: claim due, send, import, save the cursor, quarantine, revalidate.
Hard: a cursor saved by an import that began before a reconnection; a crash between
the due claim and the send. Correct when no trace is passed
without judging work, but those the import skips by rule, and none is imported twice.

**Feedback sync** (`workers/feedback-sync.ts`, `repository.pg/judge-feedback-repository.ts`).
State: one job per judge run and provider. Operations: create, write, mark succeeded,
failed, blocked, pending. Hard: a write that succeeded and was not marked; quarantine in
between. Correct when a blocked job is sent again after revalidation and a write repeats
only under its own id.

**Review queues, golden set, verdicts, trace tests** (`repository.pg/`). State: verdicts,
queue items, golden entries with their series of regression revisions, test revisions with
validations. Operations: record, promote, retire, freeze, validate, enable. Hard: reads made
before the lock, and statements that join a row which is replaced while they wait. Correct
when a version is tested on what people ruled before it, and what is enabled was validated.

**Evaluator execution** (`src/apps/audit/src/execution`). State: one attempt. Operation: one
physical call and the classification of what comes back. Correct when no request leaves
before its durable start, and no partial answer becomes a verdict.

**Calibration artifact** (`lib/binary-calibration-v2.ts`, `binary-calibration/repository.pg.ts`).
State: the attempts of a run and the artifact minted from them, verified twice. Correct when
every ledger the worker can produce can be published, and no other is accepted.

**Trace imports, retention, project counters** (`repository.pg/project-repository.ts`). State:
cases and the counters of the project row. Hard: retention decides while a dataset is frozen
and imports count. **Judge service and judging of imports** (`workers/judge.ts`,
`workers/import-judging.ts`): two ledgers written by two statements; a backfill and single
runs over the same cases. **Agent setup** (`lib/auth.ts`): pairings that are claimed while an
owner revokes them. **Capture hook** (`src/plugins`): a cursor over a transcript that is still
being written.

**Reports, statistics, feeds** (`src/packages/shared/src/production-calibration-analysis.ts`,
`lib/kappa.ts`, `lib/findings.ts`, `lib/exception-rows.ts`): pure functions of rows that
arrive in any order, and pages read while rows are added.

**HTTP API, sessions, credentials; demo repository; queue wrapper; shared contracts, web
application, tools, deployment; criteria, suites and manifests; analysis measurement**: not
modelled. They keep no durable state of their own that the locks of one row do not order,
or, as the queue wrapper, are modelled from how the components use them.

Components interact in three ways only: rows of the database under row locks and
compare-and-set updates; pg-boss jobs, delivered at least once; and calls to the model
provider. No component keeps state in memory that another one relies on, so a model of
a component is its rows, its jobs, and a program counter per execution of its code.

## Modules

| Component | Modules | Run |
|-----------|---------|-----|
| sealed binary calibration | `BinaryCalibration`, `SealedLedger`, `BinaryCalibrationLedger`, `MCBinaryCalibration`; `BinaryCalibrationProofs` | `calibration_*`, `finding_*` |
| evaluation runs | `EvalRun`, `EvalRunLedger`, `MCEvalRun`; `EvalRunProofs` | `evalrun_*` |
| evaluators | `EvalDispatch`, `EvaluatorLifecycle`, `RegressionGate`, `EvaluatorCall`, `AssessmentReceipts`, `CalibrationArtifact`; `MCEvaluators`; `EvalDispatchProofs`, `EvaluatorLifecycleProofs`, `MCEvaluatorsProofs` | `evaluators` |
| human truth | `GovernedReview`, `GoldenSet`, `DatasetRevisions`, `TraceTests`; `MCHumanTruth` | `human_truth` |
| analysis | `AnalysisPopulations`, `AnalysisStudy`, `StudyDeadlines`, `FailureTaxonomy`, `AnalysisPromotion`; `MCAnalysis` | `analysis` |
| intake | `ProductionRecords`, `IronsideSync`, `FeedbackSync`, `TraceRetention`, `AgentSetup`; `MCIntake`; `TraceRetentionProofs`, `AgentSetupProofs`, `MCIntakeProofs` | `intake` |
| verdicts | `JudgeService`, `ImportJudging`, `ProductionCalibration`, `VerdictStatistics`, `VerdictFeeds`, `CaptureAndSubmit`; `MCVerdicts` | `verdicts` |

The two components in which a paid call can be repeated or lost have abstract
specifications, runs and proofs of their own. The others are modules of the same make,
one action per statement or transaction, and are checked in five suites. The components of
a suite share no variable, so a suite puts them side by side instead of multiplying their
states: a behaviour chooses a scenario (`focus`) in its initial state and follows it, while
every other component stays as it started. A scenario is an `INSTANCE` of one component
with the constants that make its question small. A property of a suite conjoins what its
scenarios say of a common subject, each conjunct defined, with its own comment, in the
module of its component. Where a component has proofs of its own, the scenario is an
`INSTANCE` of the module of proofs (`Dispatch`, `Convergence`, `Activations`, `Revocations`,
`Retention`, `Setup`) and its sets and bounds are constants of the suite, with values in the
configuration: what is proved of the component then holds in the suite, for all values.

## Sealed binary calibration

Modules: `BinaryCalibration` (the workers), `SealedLedger` (what they promise),
`BinaryCalibrationLedger` (the mapping), `MCBinaryCalibration` (instances) and
`BinaryCalibrationProofs`.

**State.** `row` is `binary_calibration_runs`: state, version, holder and liveness of
the claim, whether it is authorized, the lifecycle head its execution authorization is
bound to, the counter of accounted observations, and the snapshot of eligibility facts
taken at authorization. `att` is `binary_calibration_attempts`, `lease` the single row
of `_revision_leases` of the one sealed revision. `exposed`, `findings`, `late` and
`evaluator` are what the rest of the project can change under a run. `jobs` is the set
of runs with a deliverable job. `wk` has one program counter per execution of the job
handler. `sent` is a history variable: requests that really left.

**Actions.** Each transaction of `repository.pg.ts` is one action, with the triggers of
`0001_baseline.sql` as part of it; each `await` of `worker.ts` is a point where another
action may come in. `Proceed` gives every transaction its three ends: it commits and the
worker knows, it commits and the acknowledgement is lost, or (`RepositoryFails`) it does
not commit. `Fail` is the outer catch, which parks the run. `Crash` forgets the worker;
`AbandonedClaimLapses` and `SlowClaimLapses` are the expiry of a claim, without and with
its holder still running. A claim token is drawn for each claim; a worker of the model
holds one at a time, so the token is named by the worker.

**Runs.**

| Run | Instance | Shows |
|-----|----------|-------|
| `calibration_one_run` | 1 run, 2 workers, 2 items, 2 faults, 1 event of either kind | one call per item, truthful accounting, exact counter, at most one stranded call, complete means observed, terminal is final, a live claim is respected |
| `calibration_two_runs` | 2 runs of 2 versions, 2 workers, 1 item, 1 fault | the lease is custody, no exposure under it, completion is admissible when it happens, every step is a step of `SealedLedger` or a stutter |
| `calibration_live_competing` | 2 runs, 1 worker, 1 item, 1 fault | every run terminates although both need the same lease |
| `finding_stranded_forever` | 1 run, 1 worker, 1 item, 1 fault, 1 lifecycle event | the finding below |

Two items are needed for "the next attempt is taken only after recovery"; two workers
for every overtaking; two runs for the lease and for the reuse barrier, which only looks
at *other* runs. (Under the exclusive lease no run is authorized before the other is over, so
what the barrier can meet at completion is what findings and exposures have done meanwhile,
not a second run in flight.) Two faults allow a claim to lapse and the overtaken worker then to lose
an acknowledgement. `MaxRevisionEvents` and `MaxEvaluatorEvents` bound the environment:
findings only get worse, so one event separates the facts at authorization from those
at completion.

**Fairness.** Weak fairness of each handler (a job handler runs until it returns, and
the provider call has a time limit), of discovery (an interval timer), of the lapse of an
abandoned claim and of the back-off (clocks advance); strong fairness of claiming a run,
because pg-boss hands out jobs in order and a claimable run may be claimable only now
and then while another holds the lease. The liveness run sets `MaxEvaluatorEvents = 0`:
with lifecycle events termination is false, which is the first finding below.

## Evaluation runs

Modules: `EvalRun` with, at its end, the mapping to `EvalRunLedger` (what is promised),
`MCEvalRun` (instances) and `EvalRunProofs`.

**State.** `run` is the row of `eval_runs`; `item` the rows of `eval_run_items`, with the
two 15-minute clocks abstracted to a flag (`aged`) and a three-valued deadline (`none`,
`armed`, `due`); `receipt` the frozen outcomes. `runJob` and `job` are the pg-boss jobs,
with their state, the number of retries and the execution that has them. `request` is
the request that dispatches the run, `fan` the `eval.run` handler, `h` the `eval.item`
handlers and `s` the sweeps, each a program counter with what it remembers of the row.
A token is named by the number of claims the item has seen.

**Actions.** Every statement or transaction is an action. `Proceed` again gives an update
the end where it commits and the handler's `catch` runs all the same; `RepositoryFails`
is the end where it does not commit. `HandleError` is the `catch` with
`releaseEvalRunItemExecution` and its four dispositions. `Settle` is the common
transaction of `completeEvalRunItem` and `failEvalRunItem`: item, counters and, with the
last item, the receipt; the receipt is modelled for release-evidence runs, the others
simply have none. A sweep is modelled per item: `Sweep` takes the snapshot, the actions
after it act on it. `JobExpires` gives up on a delivery whether or not its handler still
runs; the handler is not stopped.

**Runs.**

| Run | Instance | Shows |
|-----|----------|-------|
| `evalrun_overlapping_executors` | 1 item, 2 handlers, 2 sweeps, 1 retry, 2 faults | one provider call, outcomes that say truly whether it left, fresh claims are respected, a started call is never offered again |
| `evalrun_counters_and_receipt` | 2 items, 2 handlers, 1 sweep, 1 fault | counters and terminal status are exact, the receipt is the run, every step is a step of `EvalRunLedger` or a stutter |
| `evalrun_ends_after_faults` | 1 item, 1 handler, 1 sweep, 1 retry, 2 faults | a dispatched run ends although sends are lost and processes die |

Items interact only through the counters and the receipt, so races on an item are
checked with one item and two of each actor, and the counters with two items. A fault is a
crash, a lost acknowledgement, a failed statement, a lost send, a job deleted by
retention, or the passing of 15 minutes while the executor still runs; the passing of
time over a dead executor is free. The code's retry limit of 5 is 1 or 0 here: what matters
is that there is a first, a repeated and a final delivery.

**Fairness.** Weak fairness of the request that has armed the deadlines, of the fan-out,
of each handler and sweep (they run until they return; a process that dies is a fault and
faults are bounded), of expiry and ageing of what nobody attends, of the deadline; strong
fairness per item of delivery and of the sweep, because a job or a stale row may come and
go while the queue and the 60-second timer are busy elsewhere, and both serve everything
they find. The property starts at `request # "new"`: before the deadlines are armed
nothing remembers the run, so a crash right after its creation leaves it pending, and no
property promises otherwise.

**Worth knowing.** A redelivery that finds the claim busy completes its job, so the
first delivery, if it then fails before the call, has no job left to retry; the sweep
records the item as not attempted. A redelivery that finds a *returned* call records
`outcome_unknown` at once, whatever the age of the claim, and the live holder's verdict is
dropped; `FreshClaimIsRespected` therefore speaks of calls that have not returned.

## The other components

Each module names its sources in its header. Unless said otherwise an action is one
statement or one transaction, faults (a lost answer, a process that dies, an expired job)
are drawn from one small budget, and two of whatever competes meet one of everything else.

### Evaluators (`MCEvaluators`)

`EvalDispatch` is the dispatch columns of one `eval_runs` row and the ids of its pg-boss
jobs; a dispatcher is a program counter over `dispatchEvalRunOnce`. Scenarios: the gate,
which rotates a dead job id, and the convergence route, which does not, two dispatchers
each. `DispatchIsExact`: a job that can still run is the recorded one, "ready" speaks of an
accepted job, nothing is queued after the dispatched mark.

`EvaluatorLifecycle` is the event chains of the versions of one criterion under the criteria
lock. A revocation of calibration evidence takes that lock too, in a trigger; an exposure
takes another one and commits whenever it likes. `RegressionGate` is the jobs of one saved version, the advisory lock that
dies with its connection, and the finalizer of the last delivery. `VersionsAreGoverned`: at
most one active version, none on a revoked artifact, owners follow what they were shown,
executions bind the head; one delivery judges at a time while its connection lives, and the
finalizer replaces no outcome.

`EvaluatorCall` is one call under every protocol and every kind of response.
`CallIsReportedAsItWas`: no request before its durable start, blame where it belongs, a
verdict only from one whole valid object. `AssessmentReceipts` is the chain of a run's
receipts with corrections that are repeated or collide (`ReceiptsVerify`);
`CalibrationArtifact` every way two calls can end, counted, built and verified twice
(`ArtifactIsTheLedger`).

### Human truth (`MCHumanTruth`)

`GovernedReview` is one batch from its draft to its frozen truth. Task actions lock the batch
row and are one action; transitions, adjudications and post-barrier reads are serializable,
take their snapshot with the statement that waits for the lock, and are two actions.
`ReviewKeepsItsEvidence`: what was shown or judged stays what counts, a decision is not
overtaken by evidence, the frozen truth is the evidence, and no reader of a sealed batch had
developed an evaluator. `GoldenSet` and `TraceTests` are what a new version is tested on
(`TestsAndGoldenAreValidated`); the two-step join-then-lock of PostgreSQL is modelled.
`DatasetRevisions` keeps row locks explicit, also the key lock an insert takes on its
project, and the database's way out of a deadlock; `FreezesAreWhole`: an import is frozen
whole or not at all, overlapping imports do not deadlock, a trace has one case.

### Analysis (`MCAnalysis`)

`AnalysisPopulations` freezes and draws a window while cases commit late (`DrawsAreFair`).

`AnalysisStudy` is one study with its items, replays and server deadline. Three scenarios:
`coding`, in which clients wait for their answers and up to four events of one item are
stored (evidence, completion, reopening, evidence again) before the owner or the deadline
closes it; `stale`, in which every command goes by what its client saw any time ago; and
`repeats`, in which two executions of repeated commands overlap.

`StudyDeadlines` closes overdue studies in passes of two processes and in the requests that
look at a study. A closure and the end of its retry state are one transaction
(`Close`, `Clear`); when it throws, the pass or the request records the failure in a
statement of its own after the rollback (`RecordRetry`, `EnsureThrows`, `EnsureRecords`), so
that another one may have closed the study meanwhile: the database function then raises, and
the error is swallowed. `RetryIsOfTheOverdue`: retry state is of overdue open studies only,
and nothing backs off without a recorded failure. `NobodyIsStarved` counts the passes that
leave out a due study that neither throws nor backs off: with a batch of one and delays of
1, 2 and 4 ticks, where the code caps at 720, no study is left out more than eight times. The
bound is exact, seven is violated: each of two closers takes the malformed study at delays of
none, one and two ticks, and once more for the fault. It replaces a liveness property: delays
that do not grow break it. `ClosureIsTheCoding` is the conjunction of all of these.

`FailureTaxonomy` is revised while its codes are assigned (`TaxonomyKeepsItsPast`). An
assignment compares the head under both locks and is stored by a later step (`Commit`), so
that only the locks keep a revision out in between. `taxonomy` has two codes, two labels,
three commands and two executions: after the creation a revision and an assignment, or two
revisions, are in flight together. `revised` has one code and four commands, so that
assignments precede, overlap and follow a revision.

`AnalysisPromotion` promotes a code out of a closed study while others code, close and revise
(`PromotionsRestOnTheClosure`); two requests share a key or have one each, so that a code that
is already promoted is met too.

Where keys are alike they are asked in the order of their names (`AskedInOrder`), which loses
no behaviour but the renamed ones.

### Intake (`MCIntake`)

`ProductionRecords` appends under a shared advisory lock, erases and purges alone, and sweeps
without it (`RecordsStayAnswerable`; `Batches` is `Crossed`, two batches whose decisions come in
opposite orders and an outcome). `IronsideSync` is a connection: pollers, the import
worker, the cursor, quarantine and revalidation. Each of two published versions may be one the
import skips, a trace of an evaluator or one with more observations than a case can hold
(`docs/ironside-integration.md:46`): the page goes on, the trace counts towards the limit of
the job, the cursor passes it, and it is neither a case nor work. `FeedbackSync` writes
assessments back (`FeedReachesTheCases`: of what the remote has not retained away, the cursor
passes what is a case with judging work, or what is skipped and is no case at all; it never
moves back; and "synced" is stored upstream). `TraceRetention` has the locks of the project row as PostgreSQL
grants them, `AgentSetup` the pairings an agent claims (`ProjectHoldsWhatItCounts`).

### Verdicts (`MCVerdicts`)

`JudgeService` writes a run and a verdict in two statements; `ImportJudging` gives imported
cases a backfill or runs of their own; `CaptureAndSubmit` is the hook, the script and the
token bucket (`JudgedOnceAndOnRecord`). `ProductionCalibration` is a pure report, checked
against reference definitions over every order of a small menu of records and every choice
of probabilities (`ReportIsOfTheRecords`); `VerdictStatistics` and `VerdictFeeds` the same
for logs of a few verdicts and for pages read while the log grows (`FeedsSayWhatTheLogSays`).
The first page of the convergence audit takes two statements, the watermark and the page, with
rows recorded in between.

The scenarios are small because each question needs few actors: a race is between two, a
deadlock a cycle of two, a stale head one step behind. Where a count matters (three
probabilities, three levels, three ratings) the scenario has three.

## Findings

`finding_stranded_forever` (`StrandedCallIsAccounted`) is a run. `authorizeRun` replays the
execution authorization before it looks at whether the run is already authorized. If the
evaluator's lifecycle head moved between a crash and the redelivery, the replay throws,
`recoverStartedAttempts` is never reached, the stranded call is never accounted and the
revision stays leased. The top-level README says a stranded started attempt is accounted
permanently as `outcome_unknown`.

The models show more places where code and words part. They are kept here as text; the
properties of the suites are stated so that they say what the code does promise.

- `binary-calibration/provider.ts:76`: nothing re-reads claim or lease between the commit of
  `recordProviderCallStarted` and the dispatch; a worker paused there sends after another one
  finalized. `contracts/binary-calibration-v2.md` says calls run under the active lease. The
  call is still the only one of its item, and it was counted.
- `repository.pg/skill-lifecycle-repository.ts:640`: the replay of a failed gate has another
  outcome than "blocked", so a version whose newest row is a finalizer's error judges the
  existing cases; `:727`: outcome and finalizer may each leave a terminal row.
- `governed-review/repository.pg-administration.ts:547`: a closure may commit together with
  the withdrawal it waited for and then names a withdrawn label.
- `production-calibration/repository.pg.ts:97`: retention between the insert and the
  comparison swallows a conflicting decision.
- `routes/integration-administration.ts:774`: a connection test may turn a job that a new
  quarantine parked back to pending, with no message in the queue.
- `repository.pg/golden-evidence-repository.ts:266`: the human label is read before the
  transaction and not again under the lock.
- `repository.pg/trace-test-repository.ts:208`: a stale validation that waited is answered
  "not found", not with the conflict it is.
- `repository.pg/project-repository.ts:182`: pruning a case of an unfinished run deletes its
  item, and the run keeps the status running.
- `repository.pg/judge-feedback-repository.ts:135`, `:179` and
  `routes/v1-evaluation-administration.ts:98`: two overlapping judgements of one case both
  insert a run, neither may count it, and a retry after a time-out judges again.
- `workers/import-judging.ts:74` and `:83`: a backfill beyond the newest 100 runs, or made
  after single runs, holds a case that a run of its own holds.
- `lib/auth.ts:191`: a claim that commits between the check and the update of a new pairing
  is revoked while it runs.
- `analysis-population/repository.pg.ts:50`: a case may be pruned between the snapshot of a
  population and its insert.
- `repository.pg/case-evidence-repository.ts:344`: the feed of judge verdicts reads the oldest
  50000 rows, not the latest; `lib/findings.ts:68` breaks ties otherwise than `lib/kappa.ts`.
- `repository.pg/case-evidence-repository.ts:569`: when no row exists as the watermark is read
  and rows are recorded before the page is, the first page is given without a cursor, however
  many cases there are; `PagesAreOneAnswer` excepts such a first page from being complete.
- the capture hook and its script: a results file of more than 100 lines is refused for ever;
  a line flushed late may be paired with the next turn, and a continuation that starts the
  skill is captured in the name of the next turn.

## Proofs

Theorems hold for all values of the constants. They assume what the modules declare: null
values lie outside their sets, `Items` is a finite non-empty set (`validateFrozenRevision`
refuses an empty revision; `createEvalRunOnce` inserts an evaluation run with no pending item
as completed, and it is never dispatched), bounds are naturals, `NoReceipt` is no receipt.

### Sealed binary calibration

`BinaryCalibrationProofs`, in layers, each used by the next:

1. `TypeCorrect`: `TypeOK`, which also says that a run has a claim exactly while it is
   `running`. One lemma per kind of step.
2. `CustodyOfTheLease`: `LeaseIsCustody` through `Custody`, which adds that attempts exist
   exactly once the run is authorized.
3. `InductiveInvariant`: `TypeOK /\ Custody /\ Calls`. The stated invariants are not
   inductive: that an item is called once depends on what a worker *believes* after its
   claim was taken. `Informed` says what an item's row must be like while a worker stands
   before, at and after the call and which of this survives the loss of the claim;
   `Alone` that two workers never stand at the dispatch of one item; `Counted` ties phase,
   outcome and call count of a row together. The crucial fact is that a run never passes to
   a worker that is already working on one (`HoldersOnlyLeave`).
4. `OneProviderCall`, `OutcomesArePhysical`, `CompleteRunsAreObserved`,
   `RevisionStaysSealed`, `TerminalRunsAreFinal`, `LiveClaimsAreSafe`,
   `CompletionIsAdmissible`: the invariants and action properties of the runs.

Then the two that count. `CounterIsExact` and `OneCallIsStranded` are not inductive either:
`completeAttempt` accounts one attempt, and only if no other is stranded does the next
recovery count what it should. `Counting` adds that from recovery on the holder of a run has no stranded call behind it (`Settled`: none at
the heartbeat, the next attempt, the execution and the end; at most its own from the start
of a call to its completion). A step that touches no attempt keeps this because its worker
only advances along the loop or leaves it (`Advances`); the four that do are the holder's
(`HolderKeepsCounting`). The sums are those of finite sets (`FS_Union`, `FS_AddElement`).

Last, `WorkersImplementLedger`: one lemma per ledger action says which worker steps map to
it, the others are stutters, and `Inductive` supplies the guards of the ledger (a call not
made before, a book without open attempts at the mint).

### Evaluation runs

`EvalRunProofs` proves every safety property of the evaluation runs' two configurations
(`RunTypeCorrect`, `NoSecondCall`, `OutcomesAreTrue`, `CountersCount`, `ReceiptSaysTheRun`,
`StartedStays`, `FreshClaimsAreSafe`) and `HandlersImplementLedger`. The invariant of
`RunInvariant` has three parts:

- `Typed`: rows, handlers, sweeps, queue and run have their types.
- `CallsHold`: a started item carries a claim; a handler between the start of a call and the
  record of its outcome finds its own marker on a pending item, and the item counts no call
  exactly if this handler has not sent yet; there is one such handler per item; a call that
  left is marked; outcomes are truthful. That is what a redelivery and a sweep rely on
  without seeing the handler.
- `Book`: outcome is status, counters are exact, the receipt is the run.

A step either leaves the records alone or settles one item; settling is one lemma for the
four places that do it (`StepsRecord`), whose arithmetic is that of finite sets. Every step
is shown to keep `CallsHold`, to undo no start, and to have one of three effects: none, a call
leaves for one item, or one truthful outcome is recorded. The effects are the actions of
`EvalRunLedger`, so the refinement needs no second pass over the handlers.

### Evaluators

`MCEvaluatorsProofs` proves three of the suite's five properties, for all values of the
suite's constants under its `ConstantsAssumption`.

- `DispatchExact`, on `EvalDispatchProofs`. Job ids are used one after the other, each after
  the death of the last (`IdsInOrder`), a dispatched run has its job and no claim, and
  `Informed` says what a dispatcher knows of the job it looked at and what its claim is worth
  once it has lapsed. The third part, that no step queues a job for a dispatched run, is an
  action property that follows from the invariant: an id is used first by a dispatcher that
  holds it as the recorded one, and the recorded id of a dispatched run is taken.
- `VersionsGoverned`, on `EvaluatorLifecycleProofs` and the invariant of the gate. `Prepared`
  is what a request under the lock of the criterion has read and computed: its writes follow
  the chains as they are, its key has no event yet, no version is left active on a revoked
  artifact, a grant binds an admissible head, and after the deferred trigger at most one
  version is active. The commit makes it true of the rows. One active version needs both the
  lock and the trigger: without the trigger a request could activate a version beside the one
  it did not name. For the gate, `GateLocking` holds as long as no connection is lost, and a
  judgement is dated before it is saved, so that its row is the next one.
- `CallReported`. One provider call is sequential; the invariant says at each place what has
  started, left and arrived, and the proof goes through every protocol and response.

### Intake

`MCIntakeProofs` proves `ProjectCounts` on two modules of component proofs, and
`RecordsAnswerable` of the production records by itself.

- `TraceRetentionProofs`: the locks of the project as PostgreSQL grants them carry it.
  `Importing` says that an identity which was looked up under its lock has no live case until
  the import commits, `Pruning` and `Freezing` that what was read under the exclusive lock of
  the project row is still there. The counter is then a cardinality: each commit adds or
  removes exactly what it counts.
- `AgentSetupProofs`: an agent that stands at its commit holds the project's row over a
  starter that nobody changed; a click that closed the open connections holds it until the
  new one is there, so that no other connection opened in between.
- `RecordsAnswerable` (`RecordsStayAnswerable`, for any batches, requests, owners, sweepers and
  bounds). `RecordsInductive` says what an append may still rely on: because it shares the
  record lock from before it looked, its key is not purged and none of its decisions is erased
  (`Admitted`). Every record of its batch that it is past is inserted, was taken by retention
  meanwhile, or is in the table (`Accounted`); only the sweep, which takes no lock, removes what
  an append counted on, and only then does an answer stand for a record that is not stored.
  Appends do not wait in a circle because each inserts in one order that is strict and total
  (`BeforeIsAnOrder`), what is left comes after what was inserted (`InOrder`), and no two hold
  rows under one unique key (`NoTwins`). That every batch can be listed in that order is
  `InsertsInOrder`, by the number of records before each one.

## What is not shown

Only model-checked:

- liveness (`EveryRunTerminates`, `DispatchedRunEnds`), since fairness and `ENABLED` are
  beyond the prover. Fair specifications and liveness formulas are written in several
  component modules too, but no run checks them.
- what folds or recursive functions compute: `ArtifactIsTheLedger` of the evaluators,
  `ReportIsOfTheRecords`, `FeedsSayWhatTheLogSays` and the convergence audit compute over data,
  and every induction over data needs a theorem with an operator parameter.
- `ReceiptsVerify`, `FeedReachesTheCases`, and the properties of the human truth, analysis and
  verdicts suites. They are within reach of the prover; their runs take the components at the
  sizes given in the modules of the suites.

Abstracted: the contents of traces, prompts, verdicts and artifacts; pg-boss, modelled from
how `src/packages/queue` uses it; PostgreSQL itself, taken to run each statement atomically
with the locks and isolation the code asks for. Clocks are not measured: a time limit is an
action that may happen at any time, or only when nobody is working if it happens without a
fault.

Left out, by component:

- evaluation runs: their creation, the inline path of the demo mode, deletion of undispatched
  runs; calibration: corrections, which only imported artifacts have, and byte-level checks;
- regression gate: sign-off of a draft starter version, pairing and credential writes;
- governed review: creation of instructions, intakes and drafts, imported truth;
- assessment receipts: clients' correction ids are taken not to be root ids of other runs;
- dataset revisions: sealed revisions are a constant, exposure events are not modelled;
- golden set and queues: closing and reopening a queue, positions, summaries; trace tests: the
  drafting of a test by a model;
- analysis populations: an import is taken to commit within the lag of 60 seconds where a frame
  is recomputed, and reading a population with its exposure is not modelled; a study's draft
  is its initial state; one pass of the deadline closer lasts less than two intervals;
- promotions: changes of the owner role;
- production records: reports, snapshots, form and budgets of records; the report: exact
  arithmetic with probabilities in tenths, wording and actions;
- connections: LangSmith and Langfuse, which poll and import without cursor and quarantine;
- retention: import jobs, memberships, invitations; agent setup: the bootstrap with the
  deployment token; judge service: the batch endpoint's dataset writes;
- statistics and feeds: rows become visible in the order of their creation; means, severity and
  clusters of rationales; capture: rotation of a transcript, the script's setup and check.

Not modelled at all: analysis measurement (one read-only snapshot over immutable data); criteria,
suites and manifests (appends under the project lock); HTTP API, sessions and credentials; the
demo repository (a single-threaded twin); shared contracts, web application, tools, deployment.

## Running the checks

```
tlc -workers 2 -config calibration_one_run.cfg MCBinaryCalibration.tla
tlc -workers 2 -config evalrun_overlapping_executors.cfg MCEvalRun.tla
tlc -workers 2 -config evaluators.cfg MCEvaluators.tla
tlapm BinaryCalibrationProofs.tla
tlapm EvalRunProofs.tla
tlapm EvalDispatchProofs.tla
tlapm EvaluatorLifecycleProofs.tla
tlapm MCEvaluatorsProofs.tla
tlapm TraceRetentionProofs.tla
tlapm AgentSetupProofs.tla
tlapm MCIntakeProofs.tla
```

Each configuration belongs to the `MC` module of its prefix (`finding_*` to
`MCBinaryCalibration`). Runs take between a few seconds and about three minutes on two cores;
the proof modules together about half an hour from nothing. The calibration runs check
deadlock (discovery never stops); the others do not, because a finished run, study or
scenario has nothing left to do. The operators marked "faulty variant" are not part of any
specification; each is a plausible bug that makes the property named in `PROJECT.json` fail
when it replaces the definition it varies.

------------------------- MODULE BinaryCalibration -------------------------
(***************************************************************************)
(* Sealed binary calibration: the worker loop of                           *)
(* apps/api/src/binary-calibration/worker.ts against the transactions of   *)
(* repository.pg.ts and the triggers of 0001_baseline.sql.                 *)
(*                                                                         *)
(* One sealed dataset revision is calibrated by a set of runs.  A run is   *)
(* named by its idempotency key, from which createRun derives its id, and  *)
(* measures one immutable evaluator version.  Every database transaction   *)
(* is one atomic action; a worker is a program counter between them, so    *)
(* that it may be overtaken, crash or lose its claim at every await.       *)
(*                                                                         *)
(* A claim token is drawn afresh by each claimRun.  A worker of the model  *)
(* is one execution of the job handler and holds at most one token at a    *)
(* time, so "the row still has my token" is "the row's holder is me".      *)
(***************************************************************************)
EXTENDS Naturals, FiniteSets

CONSTANTS
    Runs,        \* idempotency keys of createRun: one run each
    Versions,    \* evaluator versions (skill_versions rows)
    Workers,     \* executions of the binary-calibration.run job handler
    Items,       \* the governed truth items of the sealed revision
    NoRun, NoVersion, NoWorker, NoItem,
    MaxFaults,          \* bound: crashes, lost answers, lapsed live claims, unknown probes
    MaxRevisionEvents,  \* bound: findings about the revision, late development
    MaxEvaluatorEvents  \* bound: lifecycle events and out-of-band edits

ASSUME NullsAssumption ==
    /\ NoRun \notin Runs
    /\ NoVersion \notin Versions
    /\ NoWorker \notin Workers
    /\ NoItem \notin Items

\* validateFrozenRevision: a sealed revision has between 1 and 5000 items.
ASSUME ItemsAssumption == IsFiniteSet(Items) /\ Items # {}

ASSUME BoundsAssumption ==
    /\ MaxFaults \in Nat
    /\ MaxRevisionEvents \in Nat
    /\ MaxEvaluatorEvents \in Nat

VARIABLES
    row,        \* binary_calibration_runs
    att,        \* binary_calibration_attempts
    lease,      \* binary_calibration_revision_leases: the run holding the revision
    exposed,    \* a development exposure of the revision is recorded
    findings,   \* everything else evaluateEligibility reads about the revision
    late,       \* versions created or developed after the first completion
    evaluator,  \* lifecycle head, retirement and out-of-band edits per version
    jobs,       \* pg-boss: runs with at least one deliverable job
    wk,         \* the job handlers
    sent,       \* history: requests that left for the provider
    faults, revisionEvents, evaluatorEvents   \* what the bounds count

vars == <<row, att, lease, exposed, findings, late, evaluator, jobs, wk, sent, faults,
          revisionEvents, evaluatorEvents>>

\* What the rest of the project changes; no step of the handler does.
world == <<exposed, findings, late, evaluator, revisionEvents, evaluatorEvents>>

-----------------------------------------------------------------------------
(* Rows.                                                                   *)

Active   == {"queued", "running", "recovery_required"}
Minted   == {"complete", "incomplete"}
Terminal == Minted \cup {"rejected"}

\* Attempts are inserted by authorizeRun; before that they are "absent".
\* "usable" stands for evaluator_pass, evaluator_fail and abstained.
Outcomes == {"usable", "errored", "outcome_unknown"}
Attempt  == [accounting : {"absent", "pending", "accounted"},
             phase      : {"not_started", "started", "terminal"},
             outcome    : Outcomes \cup {"none"},
             calls      : Nat]

NoAttempt  == [accounting |-> "absent", phase |-> "not_started", outcome |-> "none", calls |-> 0]
NewAttempt == [NoAttempt EXCEPT !.accounting = "pending"]

\* What evaluateCapability and the other runs' exposure rows say, worst last;
\* the first two are eligible and differ only in the facts' digest.
Findings == <<"clear", "noted", "unknown", "excluded">>
FindingRange == {Findings[n] : n \in 1..4}
Later(f) == {g \in FindingRange : \E m, n \in 1..4 : m < n /\ Findings[m] = f /\ Findings[n] = g}

ReuseBases == {"first", "same_version", "pretest_only", "late"}
Facts   == [exposed : BOOLEAN, findings : FindingRange, others : SUBSET Runs, reuse : ReuseBases]
NoFacts == [exposed |-> FALSE, findings |-> "clear", others |-> {}, reuse |-> "first"]

\* execAuth: the lifecycle head bound by the run's execution authorization,
\* counted from 1; 0 before the authorization row exists.
Row == [state      : Active \cup Terminal \cup {"absent"},
        version    : Versions \cup {NoVersion},
        holder     : Workers \cup {NoWorker},
        live       : BOOLEAN,
        authorized : BOOLEAN,
        execAuth   : Nat,
        backoff    : BOOLEAN,
        accounted  : Nat,
        snapshot   : Facts]

NoRow == [state |-> "absent", version |-> NoVersion, holder |-> NoWorker, live |-> FALSE,
          authorized |-> FALSE, execAuth |-> 0, backoff |-> FALSE, accounted |-> 0,
          snapshot |-> NoFacts]

Labels == {"idle", "recheck", "probe", "record", "reject", "park", "authorize", "load",
           "recover", "heartbeat", "next", "exec", "dispatch", "await", "complete",
           "finalize", "failing"}
Worker == [pc : Labels, run : Runs \cup {NoRun}, item : Items \cup {NoItem},
           result : {"none", "usable", "errored", "holds", "unknown", "no_longer_holds"}]
Idle   == [pc |-> "idle", run |-> NoRun, item |-> NoItem, result |-> "none"]
At(r, label)      == [pc |-> label, run |-> r, item |-> NoItem, result |-> "none"]
On(r, i, label)   == [pc |-> label, run |-> r, item |-> i, result |-> "none"]

-----------------------------------------------------------------------------
(* Derived facts.                                                          *)

\* requireClaim: the row has this worker's token, the claim has not expired.
Holds(w) ==
    LET r == wk[w].run IN
    /\ wk[w].pc # "idle"
    /\ row[r].holder = w
    /\ row[r].live
    /\ row[r].state \in {"running", "recovery_required"}

\* requireClaim with requireActiveRevisionLease.
HoldsLease(w) == Holds(w) /\ lease = wk[w].run

\* evaluateEvaluatorReuse: earlier completed runs of the revision fix a barrier.
Reuse(r) ==
    LET prior == {q \in Runs \ {r} : row[q].state \in Minted} IN
    IF prior = {} THEN "first"
    ELSE IF \A q \in prior : row[q].version = row[r].version THEN "same_version"
    ELSE IF row[r].version \in late THEN "late" ELSE "pretest_only"

\* comparableFacts of evaluateEligibility.  The run's own authorization event
\* is left out of its exposures; those of other runs are in.
CurrentFacts(r) ==
    [exposed  |-> exposed,
     findings |-> findings,
     others   |-> {q \in Runs \ {r} : row[q].authorized},
     reuse    |-> Reuse(r)]

Eligible(r) ==
    /\ ~exposed
    /\ findings \in {"clear", "noted"}
    /\ Reuse(r) # "late"

\* Faulty variant: completion trusts the authorization check.
CompletionTrustsAuthorization(r) == row[r].authorized

\* At completion the facts must also digest as they did at authorization.
EligibleAtCompletion(r) == Eligible(r) /\ row[r].snapshot = CurrentFacts(r)

Accounted(r) == {i \in Items : att[r][i].accounting = "accounted"}

\* Faulty variants: the recovery update forgets one of its two conditions.
StrandedByPhase(r)   == {i \in Items : att[r][i].phase = "started"}
StrandedIfPending(r) == {i \in Items : att[r][i].accounting = "pending"}

Stranded(r)  == {i \in Items : att[r][i].accounting = "pending" /\ att[r][i].phase = "started"}
Waiting(r)   == {i \in Items : att[r][i].accounting = "pending" /\ att[r][i].phase = "not_started"}

\* Faulty variant: an errored item does not count against the run.
NoneUnknown(r) == \A i \in Items : att[r][i].outcome # "outcome_unknown"

\* buildBinaryCalibrationV2Artifact: complete needs every item usable.
AllUsable(r) == \A i \in Items : att[r][i].outcome = "usable"


\* listRunnableRunIds.
Runnable(r) ==
    \/ row[r].state \in {"queued", "recovery_required"}
    \/ row[r].state = "running" /\ ~row[r].live

-----------------------------------------------------------------------------
Init ==
    /\ row = [r \in Runs |-> NoRow]
    /\ att = [r \in Runs |-> [i \in Items |-> NoAttempt]]
    /\ lease = NoRun
    /\ exposed \in BOOLEAN
    /\ findings \in FindingRange
    /\ late = {}
    /\ evaluator = [v \in Versions |-> [head |-> 1, retired |-> FALSE, edited |-> FALSE]]
    /\ jobs = {}
    /\ wk = [w \in Workers |-> Idle]
    /\ sent = [r \in Runs |-> [i \in Items |-> 0]]
    /\ faults = 0
    /\ revisionEvents = 0
    /\ evaluatorEvents = 0

\* Worker w commits and moves to "to", or its acknowledgement is lost and the
\* error reaches the handler's outer catch.
Proceed(w, to) ==
    \/ /\ wk' = [wk EXCEPT ![w] = to]
       /\ UNCHANGED faults
    \/ /\ faults < MaxFaults
       /\ faults' = faults + 1
       /\ wk' = [wk EXCEPT ![w] = At(wk[w].run, "failing")]

\* Faulty variant: the claim columns are left as they were.
ReleasedWithClaim(r, newState) == [row[r] EXCEPT !.state = newState]

\* The claim columns are cleared by every terminal or parking update.
Released(r, newState) ==
    [row[r] EXCEPT !.state = newState, !.holder = NoWorker, !.live = FALSE]

-----------------------------------------------------------------------------
(* Owners, discovery and the queue.                                        *)

\* createRun; the partial unique index allows one active run per version.
CreateRun(r, v) ==
    /\ row[r].state = "absent"
    /\ \A q \in Runs : ~(row[q].version = v /\ row[q].state \in Active)
    /\ row' = [row EXCEPT ![r] = [NoRow EXCEPT !.state = "queued", !.version = v]]
    /\ UNCHANGED <<att, lease, jobs, wk, sent, faults, world>>

\* enqueueRunnableBinaryCalibrationRuns, on start and every 15 seconds.
Discover ==
    /\ jobs' = jobs \cup {r \in Runs : Runnable(r)}
    /\ UNCHANGED <<row, att, lease, wk, sent, faults, world>>

\* claimRun.  Several jobs may name one run, so the run may stay in the queue.
\* It runs outside the handler's try: if its answer is lost, nobody parks the run.
ClaimRun(w, r) ==
    /\ wk[w].pc = "idle"
    /\ r \in jobs
    /\ row[r].state \in Active
    /\ row[r].holder = NoWorker \/ ~row[r].live
    /\ row' = [row EXCEPT ![r].state = "running", ![r].holder = w, ![r].live = TRUE]
    /\ jobs' \in {jobs, jobs \ {r}}
    /\ \/ wk' = [wk EXCEPT ![w] = At(r, "recheck")] /\ UNCHANGED faults
       \/ faults < MaxFaults /\ faults' = faults + 1 /\ UNCHANGED wk
    /\ UNCHANGED <<att, lease, sent, world>>

\* claimRun returned null: another worker owns the run, or it is terminal.
DropJob(w, r) ==
    /\ wk[w].pc = "idle"
    /\ r \in jobs
    /\ ~(row[r].state \in Active /\ (row[r].holder = NoWorker \/ ~row[r].live))
    /\ jobs' = jobs \ {r}
    /\ UNCHANGED <<row, att, lease, wk, sent, faults, world>>

-----------------------------------------------------------------------------
(* The handler, step by step.                                              *)

\* getRecheckTarget, and the decision taken on what it read.
Recheck(w) ==
    LET r == wk[w].run IN
    /\ wk[w].pc = "recheck"
    /\ Holds(w)
    /\ Proceed(w, At(r, IF row[r].authorized THEN "authorize"
                        ELSE IF row[r].backoff THEN "park" ELSE "probe"))
    /\ UNCHANGED <<row, att, lease, jobs, sent, world>>

\* The probe calls of input.recheck: no database, no sealed payload.
Probe(w) ==
    /\ wk[w].pc = "probe"
    /\ \E answer \in {"holds", "no_longer_holds", "unknown"} :
          /\ answer = "unknown" => faults < MaxFaults
          /\ faults' = IF answer = "unknown" THEN faults + 1 ELSE faults
          /\ wk' = [wk EXCEPT ![w].pc = "record", ![w].result = answer]
    /\ UNCHANGED <<row, att, lease, jobs, sent, world>>

\* recordRecheck: an unknown outcome starts the run's back-off.
RecordRecheck(w) ==
    LET r == wk[w].run
        answer == wk[w].result IN
    /\ wk[w].pc = "record"
    /\ Holds(w)
    /\ row' = [row EXCEPT ![r].backoff = (answer = "unknown") \/ @]
    /\ Proceed(w, At(r, CASE answer = "unknown" -> "park"
                          [] answer = "no_longer_holds" -> "reject"
                          [] OTHER -> "authorize"))
    /\ UNCHANGED <<att, lease, jobs, sent, world>>

\* rejectBeforeAuthorization; an authorized run is a state_conflict.
RejectBeforeAuthorization(w) ==
    LET r == wk[w].run IN
    /\ wk[w].pc = "reject"
    /\ Holds(w)
    /\ ~row[r].authorized
    /\ row' = [row EXCEPT ![r] = Released(r, "rejected")]
    /\ Proceed(w, Idle)
    /\ UNCHANGED <<att, lease, jobs, sent, world>>

\* insertEvaluatorExecutionAuthorization: the trigger refuses a retired
\* version, and a replay must bind the head the first authorization bound.
ExecutionAuthorized(r) ==
    LET v == row[r].version IN
    /\ ~evaluator[v].retired
    /\ row[r].execAuth \in {0, evaluator[v].head}

Bound(r) == [row[r] EXCEPT !.execAuth = evaluator[row[r].version].head]

\* authorizeRun on a run already authorized: a replay under the same lease.
AuthorizeReplay(w) ==
    LET r == wk[w].run IN
    /\ wk[w].pc = "authorize"
    /\ HoldsLease(w)
    /\ ExecutionAuthorized(r)
    /\ row[r].authorized
    /\ Proceed(w, At(r, "load"))
    /\ UNCHANGED <<row, att, lease, jobs, sent, world>>

\* authorizeRun commits a rejection and then throws.
AuthorizeRejects(w) ==
    LET r == wk[w].run IN
    /\ wk[w].pc = "authorize"
    /\ Holds(w)
    /\ ExecutionAuthorized(r)
    /\ ~row[r].authorized
    /\ evaluator[row[r].version].edited \/ ~Eligible(r)
    /\ row' = [row EXCEPT ![r] = [Released(r, "rejected") EXCEPT !.execAuth = Bound(r).execAuth]]
    /\ wk' = [wk EXCEPT ![w] = At(r, "failing")]
    /\ UNCHANGED <<att, lease, jobs, sent, faults, world>>

\* authorizeRun: lease, exposure event, check and attempts in one commit.
Authorize(w) ==
    LET r == wk[w].run IN
    /\ wk[w].pc = "authorize"
    /\ Holds(w)
    /\ ExecutionAuthorized(r)
    /\ ~row[r].authorized
    /\ ~evaluator[row[r].version].edited
    /\ Eligible(r)
    /\ lease = NoRun
    /\ lease' = r
    /\ att' = [att EXCEPT ![r] = [i \in Items |-> NewAttempt]]
    /\ row' = [row EXCEPT ![r] = [Bound(r) EXCEPT !.authorized = TRUE, !.snapshot = CurrentFacts(r)]]
    /\ Proceed(w, At(r, "load"))
    /\ UNCHANGED <<jobs, sent, world>>

\* authorizeRun rolls back: the authorization replay differs, the version is
\* retired, another run holds the revision's lease, or this run's is missing.
AuthorizeRefused(w) ==
    LET r == wk[w].run IN
    /\ wk[w].pc = "authorize"
    /\ Holds(w)
    /\ \/ ~ExecutionAuthorized(r)
       \/ row[r].authorized /\ lease # r
       \/ /\ ~row[r].authorized
          /\ ~evaluator[row[r].version].edited
          /\ Eligible(r)
          /\ lease # NoRun
    /\ wk' = [wk EXCEPT ![w] = At(r, "failing")]
    /\ UNCHANGED <<row, att, lease, jobs, sent, faults, world>>

\* Faulty variant: the handler goes on without recovering stranded attempts.
LoadWithoutRecovery(w) ==
    /\ wk[w].pc = "load"
    /\ IF HoldsLease(w) THEN Proceed(w, At(wk[w].run, "heartbeat"))
       ELSE wk' = [wk EXCEPT ![w] = At(wk[w].run, "failing")] /\ UNCHANGED faults
    /\ UNCHANGED <<row, att, lease, jobs, sent, world>>

\* loadAuthorizedRun, outside the transaction: claim, lease and pin once more.
LoadAuthorizedRun(w) ==
    LET r == wk[w].run
        valid == row[r].holder = w /\ row[r].live /\ lease = r /\ ~evaluator[row[r].version].edited IN
    /\ wk[w].pc = "load"
    /\ IF valid THEN Proceed(w, At(r, "recover"))
       ELSE wk' = [wk EXCEPT ![w] = At(r, "failing")] /\ UNCHANGED faults
    /\ UNCHANGED <<row, att, lease, jobs, sent, world>>

\* Faulty variant: a stranded call is put back to be tried again.
RecoverByRetry(w) ==
    LET r == wk[w].run IN
    /\ wk[w].pc = "recover"
    /\ HoldsLease(w)
    /\ att' = [att EXCEPT ![r] = [i \in Items |->
                  IF i \in Stranded(r) THEN [att[r][i] EXCEPT !.phase = "not_started"] ELSE att[r][i]]]
    /\ Proceed(w, At(r, "heartbeat"))
    /\ UNCHANGED <<row, lease, jobs, sent, world>>

\* recoverStartedAttempts: a stranded call is accounted outcome_unknown.
RecoverStartedAttempts(w) ==
    LET r == wk[w].run IN
    /\ wk[w].pc = "recover"
    /\ HoldsLease(w)
    /\ att' = [att EXCEPT ![r] = [i \in Items |->
                  IF i \in Stranded(r)
                  THEN [att[r][i] EXCEPT !.accounting = "accounted", !.outcome = "outcome_unknown"]
                  ELSE att[r][i]]]
    /\ row' = [row EXCEPT ![r].accounted = @ + Cardinality(Stranded(r))]
    /\ Proceed(w, At(r, "heartbeat"))
    /\ UNCHANGED <<lease, jobs, sent, world>>

\* heartbeatClaim renews the expiry of a claim that is still live.
HeartbeatClaim(w) ==
    /\ wk[w].pc = "heartbeat"
    /\ Holds(w)
    /\ Proceed(w, At(wk[w].run, "next"))
    /\ UNCHANGED <<row, att, lease, jobs, sent, world>>

\* getNextAttempt takes no lock: what it returns may be stale when used.
GetNextAttempt(w) ==
    LET r == wk[w].run IN
    /\ wk[w].pc = "next"
    /\ Holds(w)
    /\ \/ /\ lease = r
          /\ \E i \in Waiting(r) : Proceed(w, On(r, i, "exec"))
       \/ /\ lease # r \/ Waiting(r) = {}
          /\ Proceed(w, At(r, "finalize"))
    /\ UNCHANGED <<row, att, lease, jobs, sent, world>>

\* The executor refuses before any call (mock provider, no credential, ...).
RefuseBeforeCall(w) ==
    /\ wk[w].pc = "exec"
    /\ wk' = [wk EXCEPT ![w].pc = "complete", ![w].result = "errored"]
    /\ UNCHANGED <<row, att, lease, jobs, sent, faults, world>>

\* recordProviderCallStarted, awaited right before the physical dispatch.  The
\* update asks for a pending attempt, not for one that has not started.
RecordProviderCallStarted(w) ==
    LET r == wk[w].run
        i == wk[w].item IN
    /\ wk[w].pc = "exec"
    /\ HoldsLease(w)
    /\ att[r][i].accounting = "pending"
    /\ att' = [att EXCEPT ![r][i].phase = "started", ![r][i].calls = @ + 1]
    /\ Proceed(w, On(r, i, "dispatch"))
    /\ UNCHANGED <<row, lease, jobs, sent, world>>

\* The one physical request leaves.  Nothing re-reads the claim here.
Dispatch(w) ==
    LET r == wk[w].run
        i == wk[w].item IN
    /\ wk[w].pc = "dispatch"
    /\ sent' = [sent EXCEPT ![r][i] = @ + 1]
    /\ wk' = [wk EXCEPT ![w].pc = "await"]
    /\ UNCHANGED <<row, att, lease, jobs, faults, world>>

\* A verdict, or a typed failure (timeout, rejection, invalid output).
ProviderAnswers(w) ==
    /\ wk[w].pc = "await"
    /\ \E answer \in {"usable", "errored"} :
          wk' = [wk EXCEPT ![w].pc = "complete", ![w].result = answer]
    /\ UNCHANGED <<row, att, lease, jobs, sent, faults, world>>

\* completeAttempt accounts a pending attempt once.
CompleteAttempt(w) ==
    LET r == wk[w].run
        i == wk[w].item IN
    /\ wk[w].pc = "complete"
    /\ HoldsLease(w)
    /\ att[r][i].accounting = "pending"
    /\ att' = [att EXCEPT ![r][i] = [@ EXCEPT !.accounting = "accounted", !.phase = "terminal",
                                              !.outcome = wk[w].result]]
    /\ row' = [row EXCEPT ![r].accounted = @ + 1]
    /\ Proceed(w, At(r, "heartbeat"))
    /\ UNCHANGED <<lease, jobs, sent, world>>

\* Faulty variant: the lease outlives the run.
FinalizeKeepsLease(w) ==
    LET r == wk[w].run IN
    /\ wk[w].pc = "finalize"
    /\ HoldsLease(w)
    /\ \A i \in Items : att[r][i].accounting # "pending"
    /\ row' = [row EXCEPT ![r] = Released(r, IF AllUsable(r) /\ EligibleAtCompletion(r)
                                             THEN "complete" ELSE "incomplete")]
    /\ Proceed(w, Idle)
    /\ UNCHANGED <<att, lease, jobs, sent, world>>

\* finalizeRun: the completion check, the artifact, the terminal state and the
\* release of the lease commit together.
FinalizeRun(w) ==
    LET r == wk[w].run IN
    /\ wk[w].pc = "finalize"
    /\ HoldsLease(w)
    /\ row[r].authorized
    /\ \A i \in Items : att[r][i].accounting # "pending"
    /\ row[r].accounted = Cardinality(Items)
    /\ row' = [row EXCEPT ![r] = Released(r, IF AllUsable(r) /\ EligibleAtCompletion(r)
                                             THEN "complete" ELSE "incomplete")]
    /\ lease' = NoRun
    /\ Proceed(w, Idle)
    /\ UNCHANGED <<att, jobs, sent, world>>

\* Faulty variant: the update names the run only.
ParkedUnconditionally(w) == [row EXCEPT ![wk[w].run] = Released(wk[w].run, "recovery_required")]

\* The update of markRecoveryRequired: by token, with no expiry check.
Parked(w) ==
    LET r == wk[w].run IN
    IF row[r].holder = w /\ row[r].state = "running"
    THEN [row EXCEPT ![r] = Released(r, "recovery_required")] ELSE row

\* The handler parks a run whose re-check is backing off, and returns.
Park(w) ==
    /\ wk[w].pc = "park"
    /\ row' = Parked(w)
    /\ Proceed(w, IF Parked(w) = row THEN At(wk[w].run, "failing") ELSE Idle)
    /\ UNCHANGED <<att, lease, jobs, sent, world>>

\* The outer catch: mark the run for recovery, swallow any error of that, and
\* throw.  pg-boss redelivers the job until its retries are spent.
Fail(w) ==
    LET r == wk[w].run IN
    /\ wk[w].pc = "failing"
    /\ \/ row' = Parked(w) /\ UNCHANGED faults
       \/ faults < MaxFaults /\ faults' = faults + 1 /\ UNCHANGED row
    /\ jobs' \in {jobs, jobs \cup {r}}
    /\ wk' = [wk EXCEPT ![w] = Idle]
    /\ UNCHANGED <<att, lease, sent, world>>

\* A repository call rejects: the claim is stale, the attempt or the run is
\* not in the state the update asks for, or the lease is gone.
CallRejected(w) ==
    LET r == wk[w].run
        i == wk[w].item IN
    /\ \/ wk[w].pc \in {"recheck", "record", "reject", "authorize", "heartbeat", "next"} /\ ~Holds(w)
       \/ wk[w].pc \in {"recover", "exec", "complete", "finalize"} /\ ~HoldsLease(w)
       \/ wk[w].pc = "reject" /\ row[r].authorized
       \/ wk[w].pc \in {"exec", "complete"} /\ att[r][i].accounting # "pending"
       \/ /\ wk[w].pc = "finalize"
          /\ \/ ~row[r].authorized
             \/ \E j \in Items : att[r][j].accounting = "pending"
             \/ row[r].accounted # Cardinality(Items)
    /\ wk' = [wk EXCEPT ![w] = At(r, "failing")]
    /\ UNCHANGED <<row, att, lease, jobs, sent, faults, world>>

-----------------------------------------------------------------------------
(* Faults and time.                                                        *)

\* A repository call fails before it commits, anywhere in the handler.
RepositoryFails(w) ==
    /\ wk[w].pc \notin {"idle", "probe", "dispatch", "await", "failing"}
    /\ faults < MaxFaults
    /\ faults' = faults + 1
    /\ wk' = [wk EXCEPT ![w] = At(wk[w].run, "failing")]
    /\ UNCHANGED <<row, att, lease, jobs, sent, world>>

\* The process dies; its job may be redelivered, discovery finds it anyway.
Crash(w) ==
    /\ wk[w].pc # "idle"
    /\ faults < MaxFaults
    /\ faults' = faults + 1
    /\ jobs' \in {jobs, jobs \cup {wk[w].run}}
    /\ wk' = [wk EXCEPT ![w] = Idle]
    /\ UNCHANGED <<row, att, lease, sent, world>>

Attended(r) == \E w \in Workers : row[r].holder = w /\ wk[w].run = r

\* claim_expires_at passes while nobody renews it.
AbandonedClaimLapses(r) ==
    /\ row[r].live
    /\ ~Attended(r)
    /\ row' = [row EXCEPT ![r].live = FALSE]
    /\ UNCHANGED <<att, lease, jobs, wk, sent, faults, world>>

\* claim_expires_at passes while its holder is paused or awaits the provider.
SlowClaimLapses(r) ==
    /\ row[r].live
    /\ Attended(r)
    /\ faults < MaxFaults
    /\ faults' = faults + 1
    /\ row' = [row EXCEPT ![r].live = FALSE]
    /\ UNCHANGED <<att, lease, jobs, wk, sent, world>>

\* recheckBackoffMs has passed since the last unknown re-check.
BackoffElapses(r) ==
    /\ row[r].backoff
    /\ row' = [row EXCEPT ![r].backoff = FALSE]
    /\ UNCHANGED <<att, lease, jobs, wk, sent, faults, world>>

-----------------------------------------------------------------------------
(* The rest of the project acts on the revision and on the evaluators.     *)

\* Faulty variant: no trigger guards the insert.
ExposeUnderLease ==
    /\ ~exposed
    /\ exposed' = TRUE
    /\ UNCHANGED <<row, att, lease, findings, late, evaluator, jobs, wk, sent, faults, revisionEvents, evaluatorEvents>>

\* A development exposure insert: refused while a lease holds the revision.
RecordDevelopmentExposure ==
    /\ lease = NoRun
    /\ ~exposed
    /\ exposed' = TRUE
    /\ UNCHANGED <<row, att, lease, findings, late, evaluator, jobs, wk, sent, faults, revisionEvents, evaluatorEvents>>

\* A reviewer of the batch authors, develops, or is exposed elsewhere; a
\* provenance exposure of the revision is recorded.  No lease stops these.
FindingsChange ==
    /\ revisionEvents < MaxRevisionEvents
    /\ revisionEvents' = revisionEvents + 1
    /\ findings' \in Later(findings)
    /\ UNCHANGED <<row, att, lease, exposed, late, evaluator, jobs, wk, sent, faults, evaluatorEvents>>

\* An evaluator version is created or developed once the revision was used.
DevelopVersion(v) ==
    /\ revisionEvents < MaxRevisionEvents
    /\ revisionEvents' = revisionEvents + 1
    /\ v \notin late
    /\ \E q \in Runs : row[q].state \in Minted
    /\ late' = late \cup {v}
    /\ UNCHANGED <<row, att, lease, exposed, findings, evaluator, jobs, wk, sent, faults, evaluatorEvents>>

\* The version's lifecycle head moves: activation, needs_review, retirement.
LifecycleEvent(v) ==
    /\ evaluatorEvents < MaxEvaluatorEvents
    /\ evaluatorEvents' = evaluatorEvents + 1
    /\ ~evaluator[v].retired
    /\ \E retire \in BOOLEAN :
          evaluator' = [evaluator EXCEPT ![v].head = @ + 1, ![v].retired = retire]
    /\ UNCHANGED <<row, att, lease, exposed, findings, late, jobs, wk, sent, faults, revisionEvents>>

\* The stored definition changes out of band and no longer holds the pin.
EditVersion(v) ==
    /\ evaluatorEvents < MaxEvaluatorEvents
    /\ evaluatorEvents' = evaluatorEvents + 1
    /\ ~evaluator[v].edited
    /\ evaluator' = [evaluator EXCEPT ![v].edited = TRUE]
    /\ UNCHANGED <<row, att, lease, exposed, findings, late, jobs, wk, sent, faults, revisionEvents>>

-----------------------------------------------------------------------------
HandlerStep(w) ==
    \/ Recheck(w) \/ Probe(w) \/ RecordRecheck(w) \/ RejectBeforeAuthorization(w) \/ Park(w)
    \/ AuthorizeReplay(w) \/ AuthorizeRejects(w) \/ Authorize(w) \/ AuthorizeRefused(w)
    \/ LoadAuthorizedRun(w) \/ RecoverStartedAttempts(w) \/ HeartbeatClaim(w) \/ GetNextAttempt(w)
    \/ RefuseBeforeCall(w) \/ RecordProviderCallStarted(w) \/ Dispatch(w) \/ ProviderAnswers(w)
    \/ CompleteAttempt(w) \/ FinalizeRun(w) \/ Fail(w) \/ CallRejected(w)

Next ==
    \/ \E r \in Runs, v \in Versions : CreateRun(r, v)
    \/ Discover
    \/ \E w \in Workers, r \in Runs : ClaimRun(w, r) \/ DropJob(w, r)
    \/ \E w \in Workers : HandlerStep(w) \/ RepositoryFails(w) \/ Crash(w)
    \/ \E r \in Runs : AbandonedClaimLapses(r) \/ SlowClaimLapses(r) \/ BackoffElapses(r)
    \/ RecordDevelopmentExposure
    \/ FindingsChange
    \/ \E v \in Versions : DevelopVersion(v) \/ LifecycleEvent(v) \/ EditVersion(v)

Spec == Init /\ [][Next]_vars

\* The job handler runs until it returns, discovery's interval keeps firing,
\* clocks advance, and pg-boss hands out jobs in order, so that a run that is
\* again and again claimable is again and again claimed.
Fairness ==
    /\ WF_vars(Discover)
    /\ \A w \in Workers : WF_vars(HandlerStep(w))
    /\ \A r \in Runs :
          /\ WF_vars(AbandonedClaimLapses(r))
          /\ WF_vars(BackoffElapses(r))
          /\ SF_vars(\E w \in Workers : ClaimRun(w, r))

FairSpec == Spec /\ Fairness

-----------------------------------------------------------------------------

(* Types.                                                                  *)

\* Every column, label and counter has its type, a busy worker serves a run, a
\* worker inside an attempt names an item, and, as claimRun and every parking
\* or terminal update leave it, a run has a claim exactly while it is running.
RowsTyped ==
    /\ row \in [Runs -> Row]
    /\ \A r \in Runs :
          /\ row[r].state # "absent" => row[r].version \in Versions
          /\ row[r].holder # NoWorker <=> row[r].state = "running"
          /\ row[r].live => row[r].holder # NoWorker

WorkersTyped ==
    /\ wk \in [Workers -> Worker]
    /\ \A w \in Workers :
          /\ wk[w].pc # "idle" => wk[w].run \in Runs
          /\ wk[w].pc \in {"exec", "dispatch", "await", "complete"} => wk[w].item \in Items
          /\ wk[w].pc = "complete" => wk[w].result \in Outcomes

LedgersTyped ==
    /\ att \in [Runs -> [Items -> Attempt]]
    /\ sent \in [Runs -> [Items -> Nat]]
    /\ lease \in Runs \cup {NoRun}
    /\ jobs \subseteq Runs

WorldTyped ==
    /\ exposed \in BOOLEAN
    /\ findings \in FindingRange
    /\ late \subseteq Versions
    /\ evaluator \in [Versions -> [head : Nat, retired : BOOLEAN, edited : BOOLEAN]]
    /\ {faults, revisionEvents, evaluatorEvents} \subseteq Nat

TypeOK == RowsTyped /\ WorkersTyped /\ LedgersTyped /\ WorldTyped

-----------------------------------------------------------------------------
(* Safety.                                                                 *)

\* A sealed item is sent to the provider at most once per run, and every
\* request that left was first counted durably: no crash, lapsed claim, lost
\* answer or overtaken worker makes the loop call again.
AtMostOneProviderCall ==
    \A r \in Runs, i \in Items : sent[r][i] <= att[r][i].calls /\ att[r][i].calls <= 1

\* A usable verdict rests on a request that was really sent, and an attempt is
\* called outcome_unknown only after a durable call start.
AccountingIsPhysical ==
    \A r \in Runs, i \in Items :
        /\ att[r][i].outcome = "usable" => sent[r][i] = 1
        /\ att[r][i].outcome = "outcome_unknown" => att[r][i].calls = 1

\* accounted_observations is the number of accounted attempts, so the counter
\* finalizeRun compares with planned_observations never lies.
AccountedIsExact ==
    \A r \in Runs : row[r].accounted = Cardinality(Accounted(r))

\* The revision is leased exactly while an authorized run is not yet terminal:
\* no rejection, recovery or mint strands the lease or drops it early.
LeaseIsCustody ==
    \A r \in Runs : lease = r <=> row[r].authorized /\ row[r].state \in Active

\* A crash strands at most one call: the next attempt is taken only after
\* recoverStartedAttempts has accounted the previous one.
OneStrandedCall ==
    \A r \in Runs : Cardinality(Stranded(r)) <= 1

\* A complete run observed every item by exactly one request with a usable
\* verdict; nothing errored, unknown or unevaluated is hidden in it.
CompleteIsFullyObserved ==
    \A r \in Runs : row[r].state = "complete" =>
        \A i \in Items : att[r][i].outcome = "usable" /\ sent[r][i] = 1

-----------------------------------------------------------------------------
(* The inductive strengthening of the invariants above.                    *)

\* The lease, the authorization and the attempts appear and go together.
Custody ==
    \A r \in Runs :
        /\ lease = r <=> row[r].authorized /\ row[r].state \in Active
        /\ row[r].state = "absent" => ~row[r].authorized
        /\ row[r].authorized => \A i \in Items : att[r][i].accounting # "absent"
        /\ ~row[r].authorized => att[r] = [i \in Items |-> NoAttempt]

\* What an attempt row says of the calls made for it.
Counted(r, i) ==
    /\ sent[r][i] <= att[r][i].calls
    /\ att[r][i].calls <= 1
    /\ att[r][i].phase = "not_started" => att[r][i].calls = 0
    /\ att[r][i].phase = "started" => att[r][i].calls = 1
    /\ att[r][i].phase = "terminal" => att[r][i].accounting = "accounted"
    /\ att[r][i].accounting = "accounted" => att[r][i].outcome # "none"
    /\ att[r][i].outcome = "usable" => sent[r][i] = 1
    /\ att[r][i].outcome = "outcome_unknown" => att[r][i].calls = 1

\* What a worker inside an attempt knows, although it holds no lock: while the
\* claim is still its own nobody else started the call it is about to start.
Informed(w) ==
    LET r == wk[w].run
        i == wk[w].item IN
    /\ wk[w].pc = "exec" /\ row[r].holder = w => i \in Waiting(r)
    /\ wk[w].pc = "dispatch" => att[r][i].calls = 1 /\ sent[r][i] = 0
    /\ wk[w].pc = "await" => sent[r][i] = 1
    /\ wk[w].pc = "complete" /\ wk[w].result = "usable" => sent[r][i] = 1

\* No two workers are about to dispatch the same item.
Alone(w, v) ==
    wk[w].pc = "dispatch" /\ wk[v].pc = "dispatch" /\ w # v =>
        wk[w].run # wk[v].run \/ wk[w].item # wk[v].item

Calls ==
    /\ \A r \in Runs, i \in Items : Counted(r, i)
    /\ \A w \in Workers : Informed(w)
    /\ \A w, v \in Workers : Alone(w, v)

Inductive == TypeOK /\ Custody /\ Calls

\* Behind recoverStartedAttempts the run has no stranded call until its holder
\* starts one, and then only the one its holder is making.
Clear == {"heartbeat", "next", "exec", "finalize"}
Busy  == {"dispatch", "await", "complete"}

Settled(w) ==
    LET r == wk[w].run IN
    row[r].holder = w =>
        /\ wk[w].pc \in Clear => Stranded(r) = {}
        /\ wk[w].pc \in Busy => Stranded(r) \subseteq {wk[w].item}

Counting ==
    /\ AccountedIsExact
    /\ \A w \in Workers : wk[w].pc # "idle" => Settled(w)
    /\ \A r \in Runs : \A i, j \in Stranded(r) : i = j

-----------------------------------------------------------------------------
(* What a step may never do.                                               *)

\* No development exposure of the revision is recorded between a run's
\* authorization and its mint (guard_binary_calibration_exposure_during_lease).
SealedDuringRun ==
    [][(\E r \in Runs : row[r].authorized /\ row[r].state \in Active) => exposed' = exposed]_vars

\* When a run becomes complete the revision is unexposed, no reviewer is
\* excluded or unknown, and its version was not developed after an earlier
\* completion by another version: the reuse barrier of ADR-0009.
CompleteIsAdmissible ==
    [][\A r \in Runs : row[r].state # "complete" /\ row'[r].state = "complete" =>
          /\ ~exposed
          /\ findings \in {"clear", "noted"}
          /\ (\E q \in Runs \ {r} : row[q].state \in Minted /\ row[q].version # row[r].version)
                => row[r].version \notin late]_vars

\* A terminal run never changes again, and neither do its attempts: a late
\* answer, a stale parking update or a replayed job finds nothing to write.
TerminalIsFinal ==
    [][\A r \in Runs : row[r].state \in Terminal =>
          row'[r] = [row[r] EXCEPT !.backoff = row'[r].backoff] /\ att'[r] = att[r]]_vars

\* A live claim is taken from its holder only by the holder's own step, though
\* markRecoveryRequired and claimRun may be sent by workers that lost theirs.
LiveClaimIsRespected ==
    [][\A r \in Runs, w \in Workers :
          row[r].holder = w /\ row[r].live /\ row'[r].holder # w => wk'[w] # wk[w]]_vars

-----------------------------------------------------------------------------
(* Liveness.                                                               *)

\* Once faults stop, every run reaches complete, incomplete or rejected, also
\* when two runs compete for the lease and when a claim was abandoned.
EveryRunTerminates ==
    \A r \in Runs : row[r].state \in Active ~> row[r].state \in Terminal

\* README.md:473-475: "a stranded started attempt is accounted permanently as
\* outcome_unknown".
StrandedCallIsAccounted ==
    \A r \in Runs, i \in Items :
        (att[r][i].accounting = "pending" /\ att[r][i].phase = "started")
            ~> att[r][i].accounting = "accounted"

\* contracts/binary-calibration-v2.md: "Provider calls run outside the
\* transaction under the active lease."
CallsRunUnderTheLease ==
    [][\A r \in Runs, i \in Items : sent'[r][i] # sent[r][i] => lease = r]_vars
=============================================================================

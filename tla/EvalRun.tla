------------------------------ MODULE EvalRun ------------------------------
(***************************************************************************)
(* One evaluation run: the fan-out, the item handlers and the recovery     *)
(* sweep of apps/api/src/workers/eval-run.ts against the statements of     *)
(* repository.pg/eval-run-repository.ts and the jobs of pg-boss.           *)
(*                                                                         *)
(* Every statement or transaction is one action; handlers and sweepers are *)
(* program counters between them.  An execution token is drawn afresh for  *)
(* each claim, so it is named here by the number of claims the item has    *)
(* seen: "execution_token = mine" is "held and the claim count is mine".   *)
(*                                                                         *)
(* A sweeper is one recover() call with its snapshot of one stale item;    *)
(* several of them overlap, in one process and in several.                 *)
(***************************************************************************)
EXTENDS Naturals, FiniteSets

CONSTANTS
    Items,      \* eval_run_items of the run that need a verdict
    Handlers,   \* executions of the eval.item job handler
    Sweepers,   \* executions of recover() in the recovery sweep
    NoHandler, NoItem, NoReceipt,
    RetryLimit, \* retryLimit of the queue's jobs (5 in the code)
    MaxFaults   \* bound: crashes, lost answers, failed statements, slow steps

ASSUME NullsAssumption == NoHandler \notin Handlers /\ NoItem \notin Items
\* createEvalRunOnce: a run with nothing to judge is inserted as completed and never dispatched.
ASSUME ItemsAssumption == IsFiniteSet(Items) /\ Items # {}
ASSUME BoundsAssumption == RetryLimit \in Nat /\ MaxFaults \in Nat

VARIABLES
    run,        \* eval_runs: status and counters
    receipt,    \* assessment_receipt_artifacts: the frozen outcomes
    item,       \* eval_run_items
    runJob,     \* pg-boss: the eval.run job
    job,        \* pg-boss: the eval.item job of each item
    request,    \* the request that dispatches the run
    fan,        \* the eval.run handler
    h,          \* the eval.item handlers
    s,          \* the sweepers
    calls,      \* history: requests that left for the provider
    faults

vars == <<run, receipt, item, runJob, job, request, fan, h, s, calls, faults>>

-----------------------------------------------------------------------------
(* Rows, jobs and processes.                                               *)

Open     == {"pending", "running"}
Outcomes == {"verdict", "failure", "outcome_unknown", "not_attempted"}

\* NoReceipt is no receipt.
ASSUME ReceiptAssumption == NoReceipt \notin [Items -> Outcomes]

Item == [status   : {"pending", "completed", "failed"},
         claims   : Nat,                      \* names the execution token
         held     : BOOLEAN,                  \* execution_token is not null
         aged     : BOOLEAN,                  \* claimed 15 minutes ago or more
         started  : BOOLEAN,                  \* provider_call_started_at
         returned : BOOLEAN,                  \* provider_call_returned_at
         deadline : {"none", "armed", "due"}, \* delivery_deadline_at
         outcome  : Outcomes \cup {"none"}]

NewItem == [status |-> "pending", claims |-> 0, held |-> FALSE, aged |-> FALSE,
            started |-> FALSE, returned |-> FALSE, deadline |-> "none", outcome |-> "none"]

Live     == {"created", "retry", "active"}
Ended    == {"completed", "failed"}
Job      == [state : Live \cup Ended \cup {"none"}, retries : Nat, by : Handlers \cup {NoHandler}]
NoJob    == [state |-> "none", retries |-> 0, by |-> NoHandler]
Created  == [NoJob EXCEPT !.state = "created"]

\* cause: the error being handled, later the failure to be recorded.
Causes  == {"none", "transient", "permanent", "refused", "failure", "outcome_unknown", "not_attempted"}
Handler == [pc : {"idle", "claim", "inspect", "unknown", "begin", "call", "await", "mark",
                  "complete", "error", "fail", "failThrow"},
            item : Items \cup {NoItem}, claim : Nat, cause : Causes, last : BOOLEAN]
IdleHandler == [pc |-> "idle", item |-> NoItem, claim |-> 0, cause |-> "none", last |-> FALSE]

Sweeper == [pc : {"idle", "look", "peek", "rearm", "resend", "send", "recover", "confirm",
                  "release", "fail"},
            item : Items \cup {NoItem}, claim : Nat, cause : Causes]
IdleSweeper == [pc |-> "idle", item |-> NoItem, claim |-> 0, cause |-> "none"]

-----------------------------------------------------------------------------
(* Derived facts.                                                          *)

Pending(i)  == item[i].status = "pending" /\ run.status \in Open
Holds(i, c) == item[i].status = "pending" /\ item[i].held /\ item[i].claims = c
Owns(i, c)  == Pending(i) /\ Holds(i, c)

\* Faulty variant: a stale claim is replaced whatever its holder started.
ClaimableStarted(i) == Pending(i) /\ (~item[i].held \/ item[i].aged)

\* claimEvalRunItemExecution: a free item, or a stale claim with no call yet.
Claimable(i) == Pending(i) /\ (~item[i].held \/ (item[i].aged /\ ~item[i].started))

\* Faulty variant: recovery takes an item from under its executor.
UndeliveredOrHeld(i) == Pending(i) /\ item[i].deadline = "due"

\* What rearmEvalRunItemDeliveryDeadline and claimEvalRunItemRecovery ask for.
Undelivered(i) == Pending(i) /\ ~item[i].held /\ item[i].deadline = "due"

Claimed(i) == [item[i] EXCEPT !.claims = @ + 1, !.held = TRUE, !.aged = FALSE,
                              !.started = FALSE, !.returned = FALSE]
Freed(i)   == [item[i] EXCEPT !.held = FALSE, !.aged = FALSE, !.started = FALSE,
                              !.returned = FALSE, !.deadline = "armed"]

\* Faulty variant: a failure is recorded by what the caller remembers.
CanFailOnSnapshot(i, c, failure) == Owns(i, c)


\* failEvalRunItem: an item whose call has started is not "not attempted",
\* unless its own executor refused to send the request.
CanFail(i, c, failure) == Owns(i, c) /\ (failure = "not_attempted" => ~item[i].started)

\* Faulty variant: the disposition of the executor is stored as it is.
RecordedAsIs(failure) == failure

Recorded(failure) == IF failure = "refused" THEN "not_attempted" ELSE failure

\* postDispatchFailure, and NOT_ATTEMPTED before the call.
PostDispatch(cause, returned) ==
    IF ~returned /\ cause \in {"refused", "failure"} THEN cause ELSE "outcome_unknown"

\* Faulty variants: the last item does not finish the run; it finishes early.
FinishedLate(completed, failed)  == completed + failed > Cardinality(Items)
FinishedEarly(completed, failed) == completed + failed + 1 >= Cardinality(Items)

Finished(completed, failed) == completed + failed >= Cardinality(Items)

\* Faulty variant: the receipt is built from the rows read before the update.
ReceiptOfSnapshot(i, outcome) == [j \in Items |-> item[j].outcome]

ReceiptOf(i, outcome) == [j \in Items |-> IF j = i THEN outcome ELSE item[j].outcome]

\* The update of the item, bumpEvalRunCounters and, on the last item, the mint
\* of the assessment receipt: one transaction.
Settle(i, status, outcome) ==
    LET completed == run.completed + (IF status = "completed" THEN 1 ELSE 0)
        failed    == run.failed + (IF status = "failed" THEN 1 ELSE 0) IN
    /\ item' = [item EXCEPT ![i] = [NewItem EXCEPT !.status = status, !.outcome = outcome,
                                                   !.claims = item[i].claims]]
    /\ run' = [status    |-> IF ~Finished(completed, failed) THEN run.status
                             ELSE IF completed = 0 THEN "failed" ELSE "completed",
               completed |-> completed,
               failed    |-> failed]
    /\ receipt' = IF Finished(completed, failed) THEN ReceiptOf(i, outcome) ELSE receipt

-----------------------------------------------------------------------------
Init ==
    /\ run = [status |-> "pending", completed |-> 0, failed |-> 0]
    /\ receipt = NoReceipt
    /\ item = [i \in Items |-> NewItem]
    /\ runJob = NoJob
    /\ job = [i \in Items |-> NoJob]
    /\ request = "new"
    /\ fan = [pc |-> "idle", todo |-> {}]
    /\ h = [w \in Handlers |-> IdleHandler]
    /\ s = [p \in Sweepers |-> IdleSweeper]
    /\ calls = [i \in Items |-> 0]
    /\ faults = 0

Fault == faults < MaxFaults /\ faults' = faults + 1

\* Handler w commits and moves to "to", or its acknowledgement is lost and the
\* error reaches the job handler's catch; claim is the token it now knows.
Proceed(w, to, claim) ==
    \/ h' = [h EXCEPT ![w].pc = to, ![w].claim = claim] /\ UNCHANGED faults
    \/ h' = [h EXCEPT ![w].pc = "error", ![w].claim = claim, ![w].cause = "transient"] /\ Fault

\* The job handler returns or throws.  pg-boss hears of it only if the job has
\* not expired meanwhile.
AfterFailure(j) ==
    [j EXCEPT !.state = IF j.retries < RetryLimit THEN "retry" ELSE "failed", !.by = NoHandler]
JobEnds(w, ended) ==
    LET i == h[w].item IN
    /\ h' = [h EXCEPT ![w] = IdleHandler]
    /\ job' = IF job[i].by # w THEN job ELSE [job EXCEPT ![i] = ended]
Returns(w) == JobEnds(w, [job[h[w].item] EXCEPT !.state = "completed", !.by = NoHandler])
Throws(w)  == JobEnds(w, AfterFailure(job[h[w].item]))

-----------------------------------------------------------------------------
(* Dispatch and fan-out.                                                   *)

Armed == [i \in Items |-> IF Pending(i) THEN [item[i] EXCEPT !.deadline = "armed"] ELSE item[i]]

\* The request arms recovery before the external write.
ArmDelivery ==
    /\ request = "new"
    /\ request' = "armed"
    /\ item' = Armed
    /\ UNCHANGED <<run, receipt, runJob, job, fan, h, s, calls, faults>>

SendRun ==
    /\ request = "armed"
    /\ \/ runJob' = Created /\ UNCHANGED faults
       \/ UNCHANGED runJob /\ Fault
    /\ request' = "done"
    /\ UNCHANGED <<run, receipt, item, job, fan, h, s, calls>>

\* processEvalRunJob: a run already over is left alone.
FanOutStarts ==
    /\ runJob.state \in {"created", "retry"}
    /\ fan.pc = "idle"
    /\ IF run.status \in Open
       THEN /\ runJob' = [runJob EXCEPT !.state = "active",
                                        !.retries = IF runJob.state = "retry" THEN @ + 1 ELSE @]
            /\ fan' = [fan EXCEPT !.pc = "arm"]
            /\ run' = [run EXCEPT !.status = "running"]
       ELSE runJob' = [runJob EXCEPT !.state = "completed"] /\ UNCHANGED <<fan, run>>
    /\ UNCHANGED <<receipt, item, job, request, h, s, calls, faults>>

FanOutArms ==
    /\ fan.pc = "arm"
    /\ fan' = [fan EXCEPT !.pc = "list"]
    /\ item' = Armed
    /\ UNCHANGED <<run, receipt, runJob, job, request, h, s, calls, faults>>

FanOutLists ==
    /\ fan.pc = "list"
    /\ fan' = [pc |-> "send", todo |-> {i \in Items : Pending(i)}]
    /\ UNCHANGED <<run, receipt, item, runJob, job, request, h, s, calls, faults>>

\* Each item keeps one queue id: a repeated send is refused by the queue.
Sent(i) == IF job[i].state = "none" THEN [job EXCEPT ![i] = Created] ELSE job

FanOutSends(i) ==
    /\ fan.pc = "send"
    /\ i \in fan.todo
    /\ job' = Sent(i)
    /\ fan' = [fan EXCEPT !.todo = @ \ {i}]
    /\ UNCHANGED <<run, receipt, item, runJob, request, h, s, calls, faults>>

FanOutEnds ==
    /\ fan.pc = "send"
    /\ fan.todo = {}
    /\ fan' = [fan EXCEPT !.pc = "idle"]
    /\ runJob' = [runJob EXCEPT !.state = "completed"]
    /\ UNCHANGED <<run, receipt, item, job, request, h, s, calls, faults>>

\* The fan-out throws, or its process dies and the job expires.
FanOutFails ==
    /\ fan.pc # "idle"
    /\ Fault
    /\ fan' = [pc |-> "idle", todo |-> {}]
    /\ runJob' = AfterFailure(runJob)
    /\ UNCHANGED <<run, receipt, item, job, request, h, s, calls>>

-----------------------------------------------------------------------------
(* The item handler, statement by statement.                               *)

\* pg-boss delivers a job; retryCount grows with every redelivery.
Deliver(w, i) ==
    LET retries == job[i].retries + (IF job[i].state = "retry" THEN 1 ELSE 0) IN
    /\ h[w].pc = "idle"
    /\ job[i].state \in {"created", "retry"}
    /\ job' = [job EXCEPT ![i] = [state |-> "active", retries |-> retries, by |-> w]]
    /\ h' = [h EXCEPT ![w] = [IdleHandler EXCEPT !.pc = "claim", !.item = i,
                                                 !.last = retries >= RetryLimit]]
    /\ UNCHANGED <<run, receipt, item, runJob, request, fan, s, calls, faults>>

\* claimEvalRunItemExecution, its update.
Claim(w) ==
    LET i == h[w].item IN
    /\ h[w].pc = "claim"
    /\ IF Claimable(i)
       THEN item' = [item EXCEPT ![i] = Claimed(i)] /\ Proceed(w, "begin", item[i].claims + 1)
       ELSE h' = [h EXCEPT ![w].pc = "inspect"] /\ UNCHANGED <<item, faults>>
    /\ UNCHANGED <<run, receipt, runJob, job, request, fan, s, calls>>

\* claimEvalRunItemExecution, its select: an interrupted call is to be failed
\* under the token of whoever made it; anything else ends the delivery.
Inspect(w) ==
    LET i == h[w].item
        interrupted == /\ Pending(i)
                       /\ item[i].held
                       /\ item[i].returned \/ (item[i].aged /\ item[i].started) IN
    /\ h[w].pc = "inspect"
    /\ IF interrupted
       THEN h' = [h EXCEPT ![w].pc = "unknown", ![w].claim = item[i].claims] /\ UNCHANGED job
       ELSE Returns(w)
    /\ UNCHANGED <<run, receipt, item, runJob, request, fan, s, calls, faults>>

FailInterrupted(w) ==
    LET i == h[w].item IN
    /\ h[w].pc = "unknown"
    /\ IF CanFail(i, h[w].claim, "outcome_unknown")
       THEN Settle(i, "failed", "outcome_unknown")
       ELSE UNCHANGED <<item, run, receipt>>
    /\ Returns(w)
    /\ UNCHANGED <<runJob, request, fan, s, calls, faults>>

\* judgeAndRecord fails before the call: no case, no credential, no provider.
PreparationFails(w) ==
    /\ h[w].pc = "begin"
    /\ \E cause \in {"transient", "permanent"} :
          h' = [h EXCEPT ![w].pc = "error", ![w].cause = cause]
    /\ UNCHANGED <<run, receipt, item, runJob, job, request, fan, s, calls, faults>>

\* beginEvalRunItemProviderCall; a lost claim is an error.
BeginProviderCall(w) ==
    LET i == h[w].item IN
    /\ h[w].pc = "begin"
    /\ IF Owns(i, h[w].claim) /\ ~item[i].started
       THEN item' = [item EXCEPT ![i].started = TRUE] /\ Proceed(w, "call", h[w].claim)
       ELSE /\ h' = [h EXCEPT ![w].pc = "error", ![w].cause = "transient"]
            /\ UNCHANGED <<item, faults>>
    /\ UNCHANGED <<run, receipt, runJob, job, request, fan, s, calls>>

\* The request leaves, or the executor refuses to send it.
ProviderCall(w) ==
    /\ h[w].pc = "call"
    /\ \/ /\ h' = [h EXCEPT ![w].pc = "await"]
          /\ calls' = [calls EXCEPT ![h[w].item] = @ + 1]
       \/ h' = [h EXCEPT ![w].pc = "error", ![w].cause = "refused"] /\ UNCHANGED calls
    /\ UNCHANGED <<run, receipt, item, runJob, job, request, fan, s, faults>>

\* A verdict, a typed failure, or a rejection that proves nothing.
ProviderAnswers(w) ==
    /\ h[w].pc = "await"
    /\ \/ h' = [h EXCEPT ![w].pc = "mark"]
       \/ \E cause \in {"failure", "transient"} :
             h' = [h EXCEPT ![w].pc = "error", ![w].cause = cause]
    /\ UNCHANGED <<run, receipt, item, runJob, job, request, fan, s, calls, faults>>

\* markEvalRunItemProviderCallReturned.
MarkReturned(w) ==
    LET i == h[w].item IN
    /\ h[w].pc = "mark"
    /\ IF Holds(i, h[w].claim) /\ item[i].started /\ ~item[i].returned
       THEN item' = [item EXCEPT ![i].returned = TRUE] /\ Proceed(w, "complete", h[w].claim)
       ELSE /\ h' = [h EXCEPT ![w].pc = "error", ![w].cause = "transient"]
            /\ UNCHANGED <<item, faults>>
    /\ UNCHANGED <<run, receipt, runJob, job, request, fan, s, calls>>

\* recordJudgeRun and recordVerdict, then completeEvalRunItem; a claim that
\* was lost meanwhile completes nothing and is no error.
Complete(w) ==
    LET i == h[w].item IN
    /\ h[w].pc = "complete"
    /\ IF Owns(i, h[w].claim) THEN Settle(i, "completed", "verdict") ELSE UNCHANGED <<item, run, receipt>>
    /\ \/ Returns(w) /\ UNCHANGED faults
       \/ h' = [h EXCEPT ![w].pc = "error", ![w].cause = "transient"] /\ Fault /\ UNCHANGED job
    /\ UNCHANGED <<runJob, request, fan, s, calls>>

\* Faulty variant: a final failure releases the claim before it is recorded,
\* and a started call is released like any other.
ReleaseAnything(w) ==
    LET i == h[w].item IN
    /\ h[w].pc = "error"
    /\ IF Holds(i, h[w].claim)
       THEN item' = [item EXCEPT ![i] = Freed(i)] /\ Throws(w)
       ELSE Returns(w) /\ UNCHANGED item
    /\ UNCHANGED <<run, receipt, runJob, request, fan, s, calls, faults>>

\* The catch of the job handler: releaseEvalRunItemExecution, which keeps the
\* claim of a permanent or final failure, and the four dispositions.
HandleError(w) ==
    LET i == h[w].item
        permanent == h[w].cause \in {"permanent", "refused"}
        preserve  == permanent \/ h[w].last
        next(pc, cause) == h' = [h EXCEPT ![w].pc = pc, ![w].cause = cause] IN
    /\ h[w].pc = "error"
    /\ \/ /\ ~Holds(i, h[w].claim)
          /\ Returns(w)
          /\ UNCHANGED item
       \/ /\ Holds(i, h[w].claim) /\ item[i].started
          /\ next("fail", PostDispatch(h[w].cause, item[i].returned))
          /\ UNCHANGED <<item, job>>
       \/ /\ Holds(i, h[w].claim) /\ ~item[i].started /\ preserve
          /\ next(IF permanent THEN "fail" ELSE "failThrow", "not_attempted")
          /\ UNCHANGED <<item, job>>
       \/ /\ Holds(i, h[w].claim) /\ ~item[i].started /\ ~preserve
          /\ item' = [item EXCEPT ![i] = Freed(i)]
          /\ Throws(w)
    /\ UNCHANGED <<run, receipt, runJob, request, fan, s, calls, faults>>

\* failEvalRunItem from the catch; a final transient failure is thrown on.
FailItem(w) ==
    LET i == h[w].item IN
    /\ h[w].pc \in {"fail", "failThrow"}
    /\ IF CanFail(i, h[w].claim, h[w].cause)
       THEN Settle(i, "failed", Recorded(h[w].cause))
       ELSE UNCHANGED <<item, run, receipt>>
    /\ IF h[w].pc = "fail" THEN Returns(w) ELSE Throws(w)
    /\ UNCHANGED <<runJob, request, fan, s, calls, faults>>

HandlerStep(w) ==
    \/ Claim(w) \/ Inspect(w) \/ FailInterrupted(w)
    \/ PreparationFails(w) \/ BeginProviderCall(w) \/ ProviderCall(w) \/ ProviderAnswers(w)
    \/ MarkReturned(w) \/ Complete(w)
    \/ HandleError(w) \/ FailItem(w)

-----------------------------------------------------------------------------
(* Failures around the handlers, and time.                                 *)

\* A statement fails: an error for the catch, or thrown from the catch itself.
RepositoryFails(w) ==
    /\ Fault
    /\ \/ /\ h[w].pc \in {"claim", "inspect", "unknown", "begin", "mark", "complete"}
          /\ h' = [h EXCEPT ![w].pc = "error", ![w].cause = "transient",
                            ![w].claim = IF h[w].pc = "unknown" THEN 0 ELSE @]
          /\ UNCHANGED job
       \/ h[w].pc \in {"error", "fail", "failThrow"} /\ Throws(w)
    /\ UNCHANGED <<run, receipt, item, runJob, request, fan, s, calls>>

\* The process of a handler dies; its job stays active until it expires.
Crash(w) ==
    /\ h[w].pc # "idle"
    /\ Fault
    /\ h' = [h EXCEPT ![w] = IdleHandler]
    /\ UNCHANGED <<run, receipt, item, runJob, job, request, fan, s, calls>>

Busy(w, i)   == h[w].pc # "idle" /\ h[w].item = i
Attended(i)  == \E w \in Handlers : Busy(w, i) /\ job[i].by = w
InUse(i)     == \/ \E w \in Handlers : Busy(w, i) /\ h[w].claim = item[i].claims
                \/ \E p \in Sweepers : s[p].pc \in {"confirm", "release"} /\ s[p].item = i

\* expireInSeconds: the queue gives up on a delivery.  The handler, if it is
\* only slow, is not stopped.
JobExpires(i) ==
    /\ job[i].state = "active"
    /\ IF Attended(i) THEN Fault ELSE UNCHANGED faults
    /\ job' = [job EXCEPT ![i] = AfterFailure(job[i])]
    /\ UNCHANGED <<run, receipt, item, runJob, request, fan, h, s, calls>>

\* Fifteen minutes pass on a claim; on one whose holder still runs, that holder is slow.
ClaimAges(i) ==
    /\ Pending(i) /\ item[i].held /\ ~item[i].aged
    /\ IF InUse(i) THEN Fault ELSE UNCHANGED faults
    /\ item' = [item EXCEPT ![i].aged = TRUE]
    /\ UNCHANGED <<run, receipt, runJob, job, request, fan, h, s, calls>>

DeadlinePasses(i) ==
    /\ Pending(i) /\ item[i].deadline = "armed"
    /\ item' = [item EXCEPT ![i].deadline = "due"]
    /\ UNCHANGED <<run, receipt, runJob, job, request, fan, h, s, calls, faults>>

\* The queue's retention deletes an ended job.
JobForgotten(i) ==
    /\ job[i].state \in Ended
    /\ Fault
    /\ job' = [job EXCEPT ![i] = NoJob]
    /\ UNCHANGED <<run, receipt, item, runJob, request, fan, h, s, calls>>

-----------------------------------------------------------------------------
(* recoverStaleEvalRunItemExecutions, for one item of its list.            *)

SweeperMoves(p, to) == s' = [s EXCEPT ![p].pc = to]
SweeperStops(p)     == s' = [s EXCEPT ![p] = IdleSweeper]

\* listStaleEvalRunItemExecutions: a stale claim is to be failed by what this
\* snapshot says of its call; an item nobody took is to be looked at.
Sweep(p, i) ==
    /\ s[p].pc = "idle"
    /\ Pending(i)
    /\ \/ /\ item[i].held /\ item[i].aged
          /\ s' = [s EXCEPT ![p] = [pc |-> "fail", item |-> i, claim |-> item[i].claims,
                       cause |-> IF item[i].started \/ item[i].returned
                                 THEN "outcome_unknown" ELSE "not_attempted"]]
       \/ /\ Undelivered(i)
          /\ s' = [s EXCEPT ![p] = [IdleSweeper EXCEPT !.pc = "look", !.item = i]]
    /\ UNCHANGED <<run, receipt, item, runJob, job, request, fan, h, calls, faults>>

\* markEvalRunRunning, then the run and its pending dispatches are read.
Look(p) ==
    /\ s[p].pc = "look"
    /\ run' = IF run.status = "pending" THEN [run EXCEPT !.status = "running"] ELSE run
    /\ IF Pending(s[p].item) THEN SweeperMoves(p, "peek") ELSE SweeperStops(p)
    /\ UNCHANGED <<receipt, item, runJob, job, request, fan, h, calls, faults>>

Peek(p) ==
    LET state == job[s[p].item].state IN
    /\ s[p].pc = "peek"
    /\ SweeperMoves(p, IF state \in Live THEN "rearm"
                       ELSE IF state = "none" THEN "resend" ELSE "recover")
    /\ UNCHANGED <<run, receipt, item, runJob, job, request, fan, h, calls, faults>>

\* rearmEvalRunItemDeliveryDeadline; a missing job is sent again if it succeeds.
Rearm(p) ==
    LET i == s[p].item IN
    /\ s[p].pc \in {"rearm", "resend"}
    /\ item' = IF Undelivered(i) THEN [item EXCEPT ![i].deadline = "armed"] ELSE item
    /\ IF s[p].pc = "resend" /\ Undelivered(i) THEN SweeperMoves(p, "send") ELSE SweeperStops(p)
    /\ UNCHANGED <<run, receipt, runJob, job, request, fan, h, calls, faults>>

Resend(p) ==
    /\ s[p].pc = "send"
    /\ job' = Sent(s[p].item)
    /\ SweeperStops(p)
    /\ UNCHANGED <<run, receipt, item, runJob, request, fan, h, calls, faults>>

\* claimEvalRunItemRecovery.
Recover(p) ==
    LET i == s[p].item IN
    /\ s[p].pc = "recover"
    /\ IF Undelivered(i)
       THEN /\ item' = [item EXCEPT ![i] = Claimed(i)]
            /\ s' = [s EXCEPT ![p].pc = "confirm", ![p].claim = item[i].claims + 1]
       ELSE SweeperStops(p) /\ UNCHANGED item
    /\ UNCHANGED <<run, receipt, runJob, job, request, fan, h, calls, faults>>

\* The job is looked at once more, under the recovery claim.
Confirm(p) ==
    /\ s[p].pc = "confirm"
    /\ IF job[s[p].item].state \in Ended
       THEN s' = [s EXCEPT ![p].pc = "fail", ![p].cause = "not_attempted"]
       ELSE SweeperMoves(p, "release")
    /\ UNCHANGED <<run, receipt, item, runJob, job, request, fan, h, calls, faults>>

Release(p) ==
    LET i == s[p].item IN
    /\ s[p].pc = "release"
    /\ item' = IF Holds(i, s[p].claim) /\ ~item[i].started THEN [item EXCEPT ![i] = Freed(i)] ELSE item
    /\ SweeperStops(p)
    /\ UNCHANGED <<run, receipt, runJob, job, request, fan, h, calls, faults>>

SweeperFailsItem(p) ==
    LET i == s[p].item IN
    /\ s[p].pc = "fail"
    /\ IF CanFail(i, s[p].claim, s[p].cause)
       THEN Settle(i, "failed", s[p].cause)
       ELSE UNCHANGED <<item, run, receipt>>
    /\ SweeperStops(p)
    /\ UNCHANGED <<runJob, job, request, fan, h, calls, faults>>

\* A statement of the sweep throws, or its process dies.
SweeperDies(p) ==
    /\ s[p].pc # "idle"
    /\ Fault
    /\ SweeperStops(p)
    /\ UNCHANGED <<run, receipt, item, runJob, job, request, fan, h, calls>>

SweeperStep(p) ==
    \/ Look(p) \/ Peek(p) \/ Rearm(p) \/ Resend(p)
    \/ Recover(p) \/ Confirm(p) \/ Release(p) \/ SweeperFailsItem(p)

-----------------------------------------------------------------------------
FanOutStep ==
    \/ FanOutStarts \/ FanOutArms \/ FanOutLists \/ FanOutEnds
    \/ \E i \in Items : FanOutSends(i)

Next ==
    \/ ArmDelivery \/ SendRun
    \/ FanOutStep \/ FanOutFails
    \/ \E w \in Handlers : HandlerStep(w) \/ RepositoryFails(w) \/ Crash(w)
    \/ \E w \in Handlers, i \in Items : Deliver(w, i)
    \/ \E i \in Items : JobExpires(i) \/ ClaimAges(i) \/ DeadlinePasses(i) \/ JobForgotten(i)
    \/ \E p \in Sweepers, i \in Items : Sweep(p, i)
    \/ \E p \in Sweepers : SweeperStep(p) \/ SweeperDies(p)

Spec == Init /\ [][Next]_vars

\* Handlers return, time passes, the queue delivers and expires its jobs, and
\* each sweep reaches every item of its list.
Fairness ==
    /\ WF_vars(SendRun) /\ WF_vars(FanOutStep)
    /\ \A w \in Handlers : WF_vars(HandlerStep(w))
    /\ \A p \in Sweepers : WF_vars(SweeperStep(p))
    /\ \A i \in Items :
         /\ WF_vars(~Attended(i) /\ JobExpires(i))
         /\ WF_vars(~InUse(i) /\ ClaimAges(i))
         /\ WF_vars(DeadlinePasses(i))
         /\ SF_vars(\E w \in Handlers : Deliver(w, i))
         /\ SF_vars(\E p \in Sweepers : Sweep(p, i))

FairSpec == Spec /\ Fairness

-----------------------------------------------------------------------------
(* Properties.                                                             *)

\* Every variable keeps the shape of its column, job or local variable.
TypeOK ==
    /\ run \in [status : Open \cup {"completed", "failed"}, completed : Nat, failed : Nat]
    /\ receipt \in [Items -> Outcomes] \cup {NoReceipt}
    /\ item \in [Items -> Item]
    /\ runJob \in Job
    /\ job \in [Items -> Job]
    /\ request \in {"new", "armed", "done"}
    /\ fan \in [pc : {"idle", "arm", "list", "send"}, todo : SUBSET Items]
    /\ h \in [Handlers -> Handler]
    /\ s \in [Sweepers -> Sweeper]
    /\ calls \in [Items -> Nat]
    /\ faults \in 0 .. MaxFaults

\* The provider is never called twice for an item, whatever is redelivered,
\* released, taken over or swept (eval-run.ts, catch of the item handler).
ProviderIsNeverCalledTwice == \A i \in Items : calls[i] <= 1

\* An item recorded as not attempted was never sent to the provider, and one
\* with a verdict or a typed failure was (ADR-0014 section 6).
OutcomesTellWhetherACallLeft ==
    \A i \in Items :
       /\ item[i].outcome = "not_attempted" => calls[i] = 0
       /\ item[i].outcome \in {"verdict", "failure"} => calls[i] = 1

\* bumpEvalRunCounters: the counters are the settled items, each counted once
\* through every replay; the run is over exactly when all are settled, and
\* failed exactly when nothing was judged.
With(status) == {i \in Items : item[i].status = status}
CountersAreExact ==
    /\ run.completed = Cardinality(With("completed"))
    /\ run.failed = Cardinality(With("failed"))
    /\ (run.status \notin Open) <=> (With("pending") = {})
    /\ run.status = "failed" <=> With("failed") = Items

\* The receipt is minted with the last item, and says of every item what is
\* recorded of it (mintAssessmentReceiptWithClient, in the same transaction).
ReceiptIsTheRun ==
    /\ receipt # NoReceipt <=> run.status \notin Open
    /\ receipt # NoReceipt => receipt = [i \in Items |-> item[i].outcome]

\* A claim younger than 15 minutes changes hands only through its holder: it is
\* neither replaced by a redelivery nor recorded or freed by a sweep.  (Once the
\* provider has returned, a redelivery may record it at any age.)
Fresh(i)        == item[i].held /\ ~item[i].aged /\ ~item[i].returned
ClaimChanges(i) == ~item'[i].held \/ item'[i].claims # item[i].claims
HolderActs(i)   ==
    \/ \E w \in Handlers : h[w].item = i /\ h[w].claim = item[i].claims /\ h'[w] # h[w]
    \/ \E p \in Sweepers : s[p].item = i /\ s[p].claim = item[i].claims /\ s'[p] # s[p]
FreshClaimIsRespected ==
    [][\A i \in Items : Fresh(i) /\ ClaimChanges(i) => HolderActs(i)]_vars

\* A call that has started is never offered to another executor: the marker
\* goes away only when the item is settled.
StartedIsNotUndone ==
    [][\A i \in Items : (item[i].started /\ ~item'[i].started) => item'[i].status # "pending"]_vars

\* Once recovery is armed the run ends, whichever process dies and whichever
\* send is lost: every item gets its outcome.
DispatchedRunEnds == (request # "new") ~> (run.status \notin Open)

-----------------------------------------------------------------------------
(* The refinement mapping: what an item says of itself is its outcome in   *)
(* the ledger; everything else is the ledger's own.                        *)
Ledger == INSTANCE EvalRunLedger
    WITH outcome <- [i \in Items |-> item[i].outcome]

\* The handlers and the sweep keep the promise of EvalRunLedger: a call at most
\* once, one truthful outcome per item, and a receipt frozen with the last one.
LedgerSpec == Ledger!Spec
=============================================================================

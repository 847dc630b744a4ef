--------------------------- MODULE EvalDispatch ---------------------------
(***************************************************************************)
(* The outbox that queues one evaluation run: several executions of        *)
(* runExistingCaseBackfill / dispatchEvalRunOnce (workers/gate.ts), or of  *)
(* the convergence route, race over the dispatch columns of one eval_runs  *)
(* row and over the ids of its pg-boss jobs.  EvalRun models what happens  *)
(* once a job is delivered; here a delivery only marks and arms the run.   *)
(*                                                                         *)
(* A dispatch token is drawn per execution, so it is named by the          *)
(* dispatcher; a token whose owner died or gave up is Lost.                *)
(***************************************************************************)
EXTENDS Naturals, FiniteSets

CONSTANTS
    Dispatchers, \* executions racing to queue the run
    Nobody, Lost,
    Rotates,     \* TRUE: dispatchEvalRunOnce; FALSE: the convergence route
    MaxFaults,   \* bound: crashes, lost answers, failed statements, stalls
    MaxDeaths    \* bound: jobs that fail every delivery or are cancelled

TokensAssumption == {Nobody, Lost} \cap Dispatchers = {} /\ Nobody # Lost
BoundsAssumption == MaxFaults \in Nat /\ MaxDeaths \in Nat /\ Rotates \in BOOLEAN

VARIABLES
    run,    \* the eval_runs row and its items' delivery deadlines
    job,    \* pg-boss: state of each eval.run job id ever drawn
    d,      \* the dispatchers
    faults, deaths

vars == <<run, job, d, faults, deaths>>

JobIds == 1 .. MaxDeaths + 1     \* an id is replaced only after its job died
Open   == {"pending", "running"}
Live   == {"created", "active", "marked"}   \* "marked": the delivery marked the run

Run == [exists : BOOLEAN, status : Open \cup {"closed"},
        jobId  : JobIds \cup {0},                        \* queue_job_id
        token  : Dispatchers \cup {Nobody, Lost},        \* queue_dispatch_token
        aged   : BOOLEAN,                                \* claimed 5 minutes ago or more
        dispatched : BOOLEAN,                            \* queue_dispatched_at
        armed      : BOOLEAN]                            \* delivery_deadline_at of pending items

Steps == {"start", "create", "check", "claim", "inspect", "probe", "arm", "send",
          "look", "rotate", "mark", "release", "end"}

Dispatcher == [pc : Steps, job : JobIds \cup {0}, retried : BOOLEAN,
               answer : {"none", "ready", "busy", "error"}]

NewRun == [exists |-> FALSE, status |-> "pending", jobId |-> 0, token |-> Nobody,
           aged |-> FALSE, dispatched |-> FALSE, armed |-> FALSE]

Idle == [pc |-> "start", job |-> 0, retried |-> FALSE, answer |-> "none"]

Init ==
    /\ run = NewRun
    /\ job = [j \in JobIds |-> "none"]
    /\ d = [x \in Dispatchers |-> Idle]
    /\ faults = 0 /\ deaths = 0

At(x, pc)      == d[x].pc = pc
Goto(x, pc)    == d' = [d EXCEPT ![x].pc = pc]
Answer(x, a)   == d' = [d EXCEPT ![x].pc = "end", ![x].answer = a]
Owns(x)        == ~run.dispatched /\ run.token = x
Fault          == faults < MaxFaults /\ faults' = faults + 1
NoFault        == faults' = faults
Unclaimed(r)   == [r EXCEPT !.token = Nobody, !.aged = FALSE]

(* A statement may fail, before or after it took effect: the caller goes   *)
(* to its catch block.                                                     *)
Proceed(x, pc) ==
    \/ NoFault /\ Goto(x, pc)
    \/ Fault /\ Goto(x, "release")
NoEffect(x) == Fault /\ Goto(x, "release") /\ UNCHANGED <<run, job>>

-----------------------------------------------------------------------------
(* Finding or creating the run.                                            *)

(* The newest 100 runs are searched, so an existing run may be missed; the *)
(* convergence route does not search.                                      *)
Find(x) ==
    /\ At(x, "start")
    /\ \/ Goto(x, "create")
       \/ Rotates /\ run.exists /\ Goto(x, "check")
    /\ UNCHANGED <<run, job, faults, deaths>>

(* insert ... on conflict do nothing, then the row that won: the unique    *)
(* index spans every backfill run of a version, but only open convergence  *)
(* runs (after a closed one a new run would start: another instance).      *)
Create(x) ==
    /\ At(x, "create")
    /\ Rotates \/ run.status \in Open
    /\ run' = [run EXCEPT !.exists = TRUE]
    /\ Goto(x, "check")
    /\ UNCHANGED <<job, faults, deaths>>

Check(x) ==
    /\ At(x, "check")
    /\ IF Rotates /\ run.status = "closed" THEN Answer(x, "ready") ELSE Goto(x, "claim")
    /\ UNCHANGED <<run, job, faults, deaths>>

-----------------------------------------------------------------------------
(* The dispatch claim.                                                     *)

(* Faulty variant: every claim draws a job id instead of keeping the one   *)
(* the row has.                                                            *)
ClaimFreshId(x) ==
    /\ At(x, "claim")
    /\ ~run.dispatched /\ (run.token = Nobody \/ run.aged)
    /\ run' = [run EXCEPT !.jobId = @ + 1, !.token = x, !.aged = FALSE]
    /\ d' = [d EXCEPT ![x].pc = IF Rotates THEN "send" ELSE "arm",
                      ![x].job = run.jobId + 1, ![x].retried = FALSE]
    /\ UNCHANGED <<job, faults, deaths>>

Claim(x) ==
    /\ At(x, "claim")
    /\ \/ /\ ~run.dispatched /\ (run.token = Nobody \/ run.aged)
          /\ LET id == IF run.jobId = 0 THEN 1 ELSE run.jobId IN
             /\ run' = [run EXCEPT !.jobId = id, !.token = x, !.aged = FALSE]
             /\ d' = [d EXCEPT ![x].pc = IF Rotates THEN "send" ELSE "arm",
                               ![x].job = id, ![x].retried = FALSE]
       \/ /\ run.dispatched \/ (run.token # Nobody /\ ~run.aged)
          /\ Goto(x, "inspect") /\ UNCHANGED run
    /\ UNCHANGED <<job, faults, deaths>>

(* A second statement reads what beat the claim: by then it may be gone.   *)
Inspect(x) ==
    /\ At(x, "inspect")
    /\ IF run.dispatched THEN Answer(x, "ready")
       ELSE IF Rotates /\ run.jobId # 0
            THEN d' = [d EXCEPT ![x].pc = "probe", ![x].job = run.jobId]
            ELSE Answer(x, "busy")
    /\ UNCHANGED <<run, job, faults, deaths>>

Probe(x) ==
    /\ At(x, "probe")
    /\ Answer(x, IF job[d[x].job] \in Live \cup {"completed"} THEN "ready" ELSE "busy")
    /\ UNCHANGED <<run, job, faults, deaths>>

-----------------------------------------------------------------------------
(* Sending under the claim.                                                *)

(* The convergence route arms the items before the external write.         *)
ArmFirst(x) ==
    /\ At(x, "arm")
    /\ \/ run' = [run EXCEPT !.armed = @ \/ run.status \in Open]
          /\ Proceed(x, "send") /\ UNCHANGED job
       \/ NoEffect(x)
    /\ UNCHANGED deaths

(* A job id already taken sends nothing; the convergence route does not    *)
(* look at the answer.                                                     *)
Send(x) ==
    /\ At(x, "send")
    /\ \/ /\ job[d[x].job] = "none"
          /\ job' = [job EXCEPT ![d[x].job] = "created"]
          /\ Proceed(x, "mark") /\ UNCHANGED run
       \/ /\ job[d[x].job] # "none"
          /\ Proceed(x, IF Rotates THEN "look" ELSE "mark") /\ UNCHANGED <<run, job>>
       \/ NoEffect(x)
    /\ UNCHANGED deaths

Look(x) ==
    /\ At(x, "look")
    /\ \/ /\ NoFault
          /\ Goto(x, IF job[d[x].job] \in Live \cup {"completed"} THEN "mark"
                     ELSE IF ~d[x].retried THEN "rotate" ELSE "release")
       \/ Fault /\ Goto(x, "release")
    /\ UNCHANGED <<run, job, deaths>>

(* Faulty variant: a rotation that does not compare the token.             *)
RotateUnchecked(x) ==
    /\ At(x, "rotate")
    /\ run.jobId < MaxDeaths + 1
    /\ run' = [run EXCEPT !.jobId = @ + 1]
    /\ NoFault
    /\ d' = [d EXCEPT ![x].pc = "send", ![x].job = run.jobId + 1, ![x].retried = TRUE]
    /\ UNCHANGED <<job, deaths>>

Rotate(x) ==
    /\ At(x, "rotate")
    /\ \/ /\ Owns(x)
          /\ run' = [run EXCEPT !.jobId = @ + 1]
          /\ \/ /\ NoFault
                /\ d' = [d EXCEPT ![x].pc = "send", ![x].job = run.jobId + 1,
                                  ![x].retried = TRUE]
             \/ Fault /\ Goto(x, "release")
          /\ UNCHANGED job
       \/ ~Owns(x) /\ NoFault /\ Goto(x, "release") /\ UNCHANGED <<run, job>>
       \/ NoEffect(x)
    /\ UNCHANGED deaths

(* One transaction: the run is dispatched and its pending items armed.  A  *)
(* dispatcher whose claim was taken changes nothing and is content.        *)
Mark(x) ==
    /\ At(x, "mark")
    /\ \/ /\ run' = IF run.token = x
                    THEN [Unclaimed(run) EXCEPT !.dispatched = TRUE, !.armed = TRUE]
                    ELSE run
          /\ \/ NoFault /\ Answer(x, "ready")
             \/ Fault /\ Goto(x, "release")
          /\ UNCHANGED job
       \/ NoEffect(x)
    /\ UNCHANGED deaths

(* The catch block frees the claim and rethrows; when this statement fails *)
(* too the token outlives its owner.                                       *)
Release(x) ==
    /\ At(x, "release")
    /\ Answer(x, "error")
    /\ \/ NoFault /\ run' = IF Owns(x) THEN Unclaimed(run) ELSE run
       \/ Fault /\ run' = IF run.token = x THEN [run EXCEPT !.token = Lost] ELSE run
    /\ UNCHANGED <<job, deaths>>

(* The process dies; its token stays in the row.                           *)
Crash(x) ==
    /\ d[x].pc \notin {"start", "end"}
    /\ Fault
    /\ Answer(x, "error")
    /\ run' = IF run.token = x THEN [run EXCEPT !.token = Lost] ELSE run
    /\ UNCHANGED <<job, deaths>>

(* The import job is redelivered, or its caller asks again, until the      *)
(* evaluation is durably queued.                                           *)
AskAgain(x) ==
    /\ At(x, "end") /\ d[x].answer # "ready"
    /\ d' = [d EXCEPT ![x] = Idle]
    /\ UNCHANGED <<run, job, faults, deaths>>

DispatcherStep(x) ==
    \/ Find(x) \/ Create(x) \/ Check(x) \/ Claim(x) \/ Inspect(x) \/ Probe(x)
    \/ ArmFirst(x) \/ Send(x) \/ Look(x) \/ Rotate(x) \/ Mark(x) \/ Release(x)
    \/ AskAgain(x)

-----------------------------------------------------------------------------
(* Time and the queue.                                                     *)

(* Five minutes pass.  Against a live owner that is a stall, hence a fault. *)
ClaimAges ==
    /\ run.token # Nobody /\ ~run.aged
    /\ IF run.token = Lost THEN NoFault ELSE Fault
    /\ run' = [run EXCEPT !.aged = TRUE]
    /\ UNCHANGED <<job, d, deaths>>

JobStarts(j) ==
    /\ job[j] = "created"
    /\ job' = [job EXCEPT ![j] = "active"]
    /\ UNCHANGED <<run, d, faults, deaths>>

JobMarksRun(j) ==
    /\ job[j] = "active"
    /\ job' = [job EXCEPT ![j] = IF run.status \in Open THEN "marked" ELSE "completed"]
    /\ run' = IF run.status \in Open THEN [run EXCEPT !.status = "running"] ELSE run
    /\ UNCHANGED <<d, faults, deaths>>

(* Arms the pending items, sends their jobs (EvalRun) and returns.         *)
JobArms(j) ==
    /\ job[j] = "marked"
    /\ job' = [job EXCEPT ![j] = "completed"]
    /\ run' = IF run.status \in Open THEN [run EXCEPT !.armed = TRUE] ELSE run
    /\ UNCHANGED <<d, faults, deaths>>

JobFails(j) ==
    /\ job[j] \in {"active", "marked"}
    /\ Fault
    /\ job' = [job EXCEPT ![j] = "created"]
    /\ UNCHANGED <<run, d, deaths>>

JobDies(j) ==
    /\ job[j] \in Live
    /\ deaths < MaxDeaths /\ deaths' = deaths + 1
    /\ job' = [job EXCEPT ![j] = "dead"]
    /\ UNCHANGED <<run, d, faults>>

(* An armed item is judged or swept (EvalRun): the run ends.               *)
RunCloses ==
    /\ run.armed /\ run.status \in Open
    /\ run' = [run EXCEPT !.status = "closed"]
    /\ UNCHANGED <<job, d, faults, deaths>>

JobStep(j) == JobStarts(j) \/ JobMarksRun(j) \/ JobArms(j)

Next ==
    \/ \E x \in Dispatchers : DispatcherStep(x) \/ Crash(x)
    \/ \E j \in JobIds : JobStep(j) \/ JobFails(j) \/ JobDies(j)
    \/ ClaimAges
    \/ RunCloses

Spec == Init /\ [][Next]_vars

(* Callers that are answered "busy" or with an error come back (importers  *)
(* throw, the routes answer 503 with Retry-After); the queue delivers.     *)
Fairness ==
    /\ \A x \in Dispatchers : WF_vars(DispatcherStep(x))
    /\ \A j \in JobIds : WF_vars(JobStep(j))
    /\ WF_vars(ClaimAges /\ run.token = Lost)

FairSpec == Spec /\ Fairness

-----------------------------------------------------------------------------
(* Properties.                                                             *)

TypeOK ==
    /\ run \in Run
    /\ job \in [JobIds -> Live \cup {"none", "completed", "dead"}]
    /\ d \in [Dispatchers -> Dispatcher]
    /\ faults \in 0..MaxFaults /\ deaths \in 0..MaxDeaths

(* However claims are stolen, released and rotated, a job that can still   *)
(* run is the one the row names: two fan-outs of one run never overlap     *)
(* through the dispatch, and the next dispatcher will recognise it.        *)
LiveJobIsTheRecordedOne ==
    \A j \in JobIds : job[j] \in Live => j = run.jobId

(* A dispatcher that stalled past its lease may wake after another one     *)
(* marked the run dispatched: nothing it then does queues the run anew.    *)
QueuesNothingOnceDispatched ==
    run.dispatched => \A j \in JobIds : job[j] = "none" => job'[j] = "none"

NothingIsQueuedAfterDispatch == [][QueuesNothingOnceDispatched]_vars

(* A caller told "ready" by any of the paths (marked, dispatched by        *)
(* another, beaten but alive, lost claim) was told the truth: the queue    *)
(* accepted a job for the run.                                             *)
ReadyMeansAccepted ==
    \A x \in Dispatchers :
        d[x].answer = "ready" => \E j \in JobIds : job[j] # "none"

(* A saved run reaches its deadlines, or its end, despite a crash or a     *)
(* failed statement at any point, as long as some job is not refused every *)
(* delivery.                                                               *)
SavedRunIsCarried == run.exists ~> (run.armed \/ run.status = "closed")
=============================================================================

--------------------------- MODULE RegressionGate ---------------------------
(***************************************************************************)
(* The regression gate of one saved evaluator version: the gate.run jobs a *)
(* save (and a repeated save) sends, their at-least-once deliveries, the   *)
(* session advisory lock around the execution, the transaction that        *)
(* records its outcome and the finalizer of the last delivery.             *)
(* EvalDispatch goes on where the backfill of the existing cases starts.   *)
(*                                                                         *)
(* An execution is <<job, delivery>>; an expired job is delivered again    *)
(* while its handler runs on.                                              *)
(***************************************************************************)
EXTENDS Naturals, Sequences, SequencesExt

CONSTANTS
    Jobs,          \* gate.run jobs that may be sent for the version
    Retries,       \* retryLimit
    Nobody,
    MaxFaults,     \* bound: failed statements and provider calls
    MaxCrashes,    \* bound: handlers that stop without a word
    MaxExpiries,   \* bound: jobs that outlive their time
    MaxLockLosses  \* bound: connections of the advisory lock that drop

BoundsAssumption ==
    /\ Retries \in Nat /\ MaxFaults \in Nat /\ MaxCrashes \in Nat
    /\ MaxExpiries \in Nat /\ MaxLockLosses \in Nat

Executions == Jobs \X (0 .. Retries)
NobodyAssumption == Nobody \notin Executions

VARIABLES
    status,    \* skill_versions.status
    rows,      \* regression_runs of the version, by created_at
    backfill,  \* a delivery went on to judge the existing cases
    q,         \* pg-boss: state and retryCount of each job
    w,         \* the executions
    lock,      \* the session that holds the advisory lock
    faults, crashes, expiries, losses

vars == <<status, rows, backfill, q, w, lock, faults, crashes, expiries, losses>>
bounds == <<faults, crashes, expiries, losses>>

Judged == {"passed", "blocked"}
Fresh  == [pc |-> "none", out |-> "none", at |-> 0]

Init ==
    /\ status = "none" /\ rows = <<>> /\ backfill = FALSE
    /\ q = [j \in Jobs |-> [state |-> "none", tries |-> 0]]
    /\ w = [x \in Executions |-> Fresh]
    /\ lock = Nobody
    /\ faults = 0 /\ crashes = 0 /\ expiries = 0 /\ losses = 0

At(x, pc)   == w[x].pc = pc
Goto(x, pc) == w' = [w EXCEPT ![x].pc = pc]
Running(x)  == w[x].pc \notin {"none", "end"}

-----------------------------------------------------------------------------
(* Saving the version, and the queue.                                      *)

(* createSkillVersionPending commits the version before anything is sent.  *)
Submit ==
    /\ status = "none" /\ status' = "calibrating"
    /\ UNCHANGED <<rows, backfill, q, w, lock, bounds>>

(* The request sends the job; a repeated first Check replays the version   *)
(* and sends another.  A request that dies in between sends none.          *)
Send(j) ==
    /\ status # "none" /\ q[j].state = "none"
    /\ q' = [q EXCEPT ![j].state = "queued"]
    /\ UNCHANGED <<status, rows, backfill, w, lock, bounds>>

Deliver(j) ==
    /\ q[j].state = "queued"
    /\ q' = [q EXCEPT ![j].state = "active"]
    /\ Goto(<<j, q[j].tries>>, "lock")
    /\ UNCHANGED <<status, rows, backfill, lock, bounds>>

(* What the queue does with a delivery that failed or ran out of time.     *)
Retried(e) == IF e.tries < Retries THEN [state |-> "queued", tries |-> e.tries + 1]
              ELSE [e EXCEPT !.state = "failed"]

Expire(j) ==
    /\ q[j].state = "active" /\ expiries < MaxExpiries
    /\ q' = [q EXCEPT ![j] = Retried(@)]
    /\ expiries' = expiries + 1
    /\ UNCHANGED <<status, rows, backfill, w, lock, faults, crashes, losses>>

(* The delivery the queue still waits for ends as `e`; it no longer hears  *)
(* of an expired one.                                                      *)
Report(x, e) ==
    q' = IF q[x[1]].state = "active" /\ q[x[1]].tries = x[2] THEN [q EXCEPT ![x[1]] = e] ELSE q

-----------------------------------------------------------------------------
(* One execution of runRegressionGateForVersion.                           *)

(* Faulty variant: the gate runs without the advisory lock.                *)
TakeLockNot(x) ==
    /\ At(x, "lock") /\ lock' = x
    /\ Goto(x, "load")
    /\ UNCHANGED <<status, rows, backfill, q, bounds>>

TakeLock(x) ==
    /\ At(x, "lock") /\ lock = Nobody /\ lock' = x
    /\ Goto(x, "load")
    /\ UNCHANGED <<status, rows, backfill, q, bounds>>

(* A newest row, whatever it says, is replayed; otherwise the execution is *)
(* authorized and the frozen revision, the prior run and the key are read. *)
Load(x) ==
    /\ At(x, "load")
    /\ IF rows # <<>> THEN w' = [w EXCEPT ![x].pc = "unlock", ![x].out = Last(rows)]
       ELSE Goto(x, "judge")
    /\ UNCHANGED <<status, rows, backfill, q, lock, bounds>>

(* The provider judges the golden set, an overridden block is a pass; the  *)
(* row is dated now.                                                       *)
Judge(x) ==
    /\ At(x, "judge")
    /\ \E out \in Judged : w' = [w EXCEPT ![x] = [pc |-> "save", out |-> out, at |-> Len(rows)]]
    /\ UNCHANGED <<status, rows, backfill, q, lock, bounds>>

(* Status, row, exposure and override audit in one transaction.            *)
Save(x) ==
    /\ At(x, "save")
    /\ status' = IF w[x].out = "blocked" THEN "regressing" ELSE "approved"
    /\ rows' = InsertAt(rows, w[x].at + 1, w[x].out)
    /\ Goto(x, "unlock")
    /\ UNCHANGED <<backfill, q, lock, bounds>>

Unlock(x) ==
    /\ w[x].pc \in {"unlock", "undo"}
    /\ lock' = IF lock = x THEN Nobody ELSE lock
    /\ Goto(x, IF At(x, "unlock") THEN "decide" ELSE "error")
    /\ UNCHANGED <<status, rows, backfill, q, bounds>>

(* A version that was not blocked judges the existing cases.               *)
Decide(x) ==
    /\ At(x, "decide")
    /\ backfill' = (backfill \/ w[x].out # "blocked")
    /\ Goto(x, "end") /\ Report(x, [state |-> "completed", tries |-> x[2]])
    /\ UNCHANGED <<status, rows, lock, bounds>>

(* A statement or a provider call fails: the lock is given back on the way *)
(* out; without it yet, there is nothing to give back.                     *)
Fault(x) ==
    /\ w[x].pc \in {"lock", "load", "judge", "save", "decide"}
    /\ faults < MaxFaults /\ faults' = faults + 1
    /\ Goto(x, IF w[x].pc \in {"lock", "decide"} THEN "error" ELSE "undo")
    /\ UNCHANGED <<status, rows, backfill, q, lock, crashes, expiries, losses>>

OnError(x) ==
    /\ At(x, "error")
    /\ IF x[2] = Retries THEN Goto(x, "final") /\ UNCHANGED q
       ELSE Goto(x, "end") /\ Report(x, Retried(q[x[1]]))
    /\ UNCHANGED <<status, rows, backfill, lock, bounds>>

(* Faulty variant: the finalizer does not ask whether the version is still *)
(* calibrating.                                                            *)
FinalizeAlways(x) ==
    /\ At(x, "final")
    /\ status' = "failed" /\ rows' = Append(rows, "error")
    /\ Goto(x, "end") /\ Report(x, [state |-> "completed", tries |-> x[2]])
    /\ UNCHANGED <<backfill, lock, bounds>>

(* failRegressionGateForVersion, under the row lock of the version but not *)
(* under the advisory lock.                                                *)
Finalize(x) ==
    /\ At(x, "final")
    /\ \/ status = "calibrating" /\ status' = "failed" /\ rows' = Append(rows, "error")
       \/ status # "calibrating" /\ UNCHANGED <<status, rows>>
    /\ Goto(x, "end") /\ Report(x, [state |-> "completed", tries |-> x[2]])
    /\ UNCHANGED <<backfill, lock, bounds>>

FinalizeFails(x) ==
    /\ At(x, "final")
    /\ faults < MaxFaults /\ faults' = faults + 1
    /\ Goto(x, "end") /\ Report(x, Retried(q[x[1]]))
    /\ UNCHANGED <<status, rows, backfill, lock, crashes, expiries, losses>>

(* A process dies: its sessions with it.                                   *)
Crash(x) ==
    /\ Running(x) /\ crashes < MaxCrashes /\ crashes' = crashes + 1
    /\ Goto(x, "end")
    /\ lock' = IF lock = x THEN Nobody ELSE lock
    /\ UNCHANGED <<status, rows, backfill, q, faults, expiries, losses>>

(* The connection of the lock drops; the execution does not notice.        *)
LoseLock ==
    /\ lock # Nobody /\ losses < MaxLockLosses /\ losses' = losses + 1
    /\ lock' = Nobody
    /\ UNCHANGED <<status, rows, backfill, q, w, faults, crashes, expiries>>

Advance(x) ==
    \/ TakeLock(x) \/ Load(x) \/ Judge(x) \/ Save(x) \/ Unlock(x) \/ Decide(x)
    \/ OnError(x) \/ Finalize(x)

Queue == LoseLock \/ \E j \in Jobs : Send(j) \/ Deliver(j) \/ Expire(j)
Next == Submit \/ Queue
        \/ \E x \in Executions : Advance(x) \/ Fault(x) \/ FinalizeFails(x) \/ Crash(x)

Spec == Init /\ [][Next]_vars

(* An accepted job is delivered, a job whose handler died expires, a       *)
(* running handler goes on and gets the lock when it is free often enough. *)
Fairness ==
    /\ \A j \in Jobs : WF_vars(Deliver(j))
    /\ \A j \in Jobs : WF_vars(~Running(<<j, q[j].tries>>) /\ Expire(j))
    /\ \A x \in Executions : SF_vars(TakeLock(x)) /\ WF_vars(Advance(x))
FairSpec == Spec /\ Fairness

-----------------------------------------------------------------------------
(* Properties.                                                             *)

(* The variables keep their types, and a version still calibrating has no  *)
(* terminal row.                                                           *)
TypeOK ==
    /\ status \in {"none", "calibrating", "approved", "regressing", "failed"}
    /\ rows \in Seq(Judged \cup {"error"})
    /\ (rows = <<>>) = (status \in {"none", "calibrating"})
    /\ backfill \in BOOLEAN
    /\ \A j \in Jobs : q[j].tries \in 0 .. Retries
    /\ \A x \in Executions : w[x].at \in Nat
    /\ lock \in Executions \cup {Nobody}

(* The comment on failRegressionGateForVersion: a late or replayed         *)
(* finalizer cannot replace a successful, blocked or failed outcome.       *)
FinalizerNeverReplaces == [][status' = "failed" => status \in {"calibrating", "failed"}]_vars

(* While the lock's connection lives, deliveries that overlap never have   *)
(* the provider judge the same version twice at a time.                    *)
JudgingIsExclusive ==
    \A x, y \in Executions : w[x].pc \in {"judge", "save"} /\ w[y].pc \in {"judge", "save"} => x = y

(* gate.ts and GateRunJobSchema: a blocked version must never judge        *)
(* traffic.                                                                *)
BlockedNeverJudges == backfill => status # "regressing"

(* runRegressionGateForVersion: the loser of an overlap replays the        *)
(* immutable terminal regression row, so there is one.                     *)
OneTerminalRow == Len(rows) <= 1

(* A version whose gate job was accepted leaves calibrating: judged, or    *)
(* failed by the finalizer once the retries are used up.                   *)
AcceptedIsDecided == (\E j \in Jobs : q[j].state = "queued") ~> status # "calibrating"
=============================================================================

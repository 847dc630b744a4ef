--------------------------- MODULE StudyDeadlines --------------------------
(***************************************************************************)
(* The closer of overdue studies: every process runs bounded passes over   *)
(* the oldest due studies; a study whose closure throws backs off, so that *)
(* it does not take the place of the others in the batch.  Requests close  *)
(* the due study they look at, and record a failure in the same way.       *)
(*                                                                         *)
(* Source: analysis-study/deadline.ts, closeDueStudies of                  *)
(* analysis-study/repository.pg.ts, ensureDueClosure of                    *)
(* analysis-study/repository.pg-support.ts and the deadline retry          *)
(* functions of the baseline migration.                                    *)
(*                                                                         *)
(* A tick is the interval of the closer, five seconds, which is also the   *)
(* first delay.  Times are kept as ticks from now.  What a closure says is *)
(* the subject of AnalysisStudy.                                           *)
(***************************************************************************)
EXTENDS Naturals, Sequences, FiniteSets

CONSTANTS
  Studies,     \* open studies, numbered in the order of their deadlines and ids
  Closers,     \* processes that registered a closer
  Limit,       \* batchSize
  MaxDoubling, \* doublings until the delay reaches its cap of an hour
  MaxUntil,    \* bound: ticks until the last deadline
  MaxFaults,   \* bound: closures that fail for no lasting reason
  MaxPassedOver \* passes that may leave out a healthy due study

BoundsAssumption ==
  /\ Studies \subseteq Nat /\ Limit \in Nat \ {0}
  /\ {MaxDoubling, MaxUntil, MaxFaults, MaxPassedOver} \subseteq Nat

VARIABLES
  until,    \* ticks until the deadline of each study
  closed,   \* studies whose closure is stored
  poisoned, \* studies whose closure throws
  failures, \* failure_count, up to where the delay is capped; 0: no retry state
  wait,     \* ticks until next_retry_at
  closer,   \* of each process: whether its timer fired, and the pass in flight
  unrecorded, \* studies whose closure threw in a request that has yet to record it
  passedOver, \* history: passes that left out each study since one last took it
  faults

vars == <<until, closed, poisoned, failures, wait, closer, unrecorded, passedOver, faults>>

NoPass == [on |-> FALSE, batch |-> <<>>, failed |-> FALSE, late |-> FALSE]

Init ==
  /\ until \in {u \in [Studies -> 0 .. MaxUntil] : \A s, t \in Studies : s < t => u[s] <= u[t]}
  /\ closed = {}
  /\ poisoned \in SUBSET Studies
  /\ failures = [s \in Studies |-> 0] /\ wait = [s \in Studies |-> 0]
  /\ closer = [c \in Closers |-> [fired |-> TRUE, pass |-> NoPass]]
  /\ unrecorded = {} /\ passedOver = [s \in Studies |-> 0]
  /\ faults = 0

Due == {s \in Studies \ closed : until[s] = 0}

-----------------------------------------------------------------------------
(* One transaction closes the study, if that is due and nobody did, and    *)
(* ends its retry state in any case.                                       *)
ClearCount(s) == failures' = [failures EXCEPT ![s] = 0] /\ UNCHANGED wait    \* Faulty variant: the study still backs off
Clear(s) == failures' = [failures EXCEPT ![s] = 0] /\ wait' = [wait EXCEPT ![s] = 0]

Close(s) ==
  /\ s \notin Due \cap poisoned
  /\ closed' = closed \cup (Due \cap {s})
  /\ Clear(s)

Throws(s) ==
  \/ s \in Due \cap poisoned /\ UNCHANGED faults
  \/ faults < MaxFaults /\ faults' = faults + 1

(* analysis_record_deadline_retry_v1, which raises for a study that is not *)
(* overdue or not open; an error of its own is swallowed by its callers.   *)
BackOffOnce(s) == failures' = [failures EXCEPT ![s] = 1] /\ wait' = [wait EXCEPT ![s] = 1]    \* Faulty variant: the delay does not grow
BackOff(s) ==
  LET n == IF failures[s] > MaxDoubling THEN failures[s] ELSE failures[s] + 1
  IN failures' = [failures EXCEPT ![s] = n] /\ wait' = [wait EXCEPT ![s] = 2 ^ (n - 1)]

RecordUnchecked(s) == BackOff(s) /\ UNCHANGED faults    \* Faulty variant: also of a study that was closed meanwhile
Record(s) ==
  \/ s \in Due /\ BackOff(s) /\ UNCHANGED faults
  \/ s \notin Due /\ UNCHANGED <<failures, wait, faults>>
  \/ faults < MaxFaults /\ faults' = faults + 1 /\ UNCHANGED <<failures, wait>>

-----------------------------------------------------------------------------
(* The query of a pass: due, not backing off, the oldest first.            *)
Eligible == {s \in Due : wait[s] = 0}

OldestFirst(S) ==
  CHOOSE b \in [1 .. Cardinality(S) -> S] : \A i, j \in 1 .. Cardinality(S) : i < j => b[i] < b[j]

Count(batch) ==
  passedOver' = [s \in Studies |-> IF \E i \in DOMAIN batch : batch[i] = s THEN 0
                                   ELSE IF s \in Eligible \ poisoned THEN passedOver[s] + 1 ELSE passedOver[s]]

CloseDue(c) ==
  LET b == OldestFirst(Eligible)
      batch == SubSeq(b, 1, IF Limit < Len(b) THEN Limit ELSE Len(b))
  IN /\ closer[c].fired /\ ~closer[c].pass.on
     /\ closer' = [closer EXCEPT ![c] = [fired |-> FALSE, pass |-> [NoPass EXCEPT !.on = TRUE, !.batch = batch]]]
     /\ Count(batch)
     /\ UNCHANGED <<until, closed, poisoned, failures, wait, unrecorded, faults>>

Next1(c) == closer' = [closer EXCEPT ![c].pass.batch = Tail(@), ![c].pass.failed = FALSE]

CloseOne(c) ==
  LET p == closer[c].pass IN
  /\ p.on /\ p.batch # <<>> /\ ~p.failed
  /\ Close(Head(p.batch)) /\ Next1(c)
  /\ UNCHANGED <<until, poisoned, unrecorded, passedOver, faults>>

CloseThrows(c) ==
  LET p == closer[c].pass IN
  /\ p.on /\ p.batch # <<>> /\ ~p.failed
  /\ Throws(Head(p.batch))
  /\ closer' = [closer EXCEPT ![c].pass.failed = TRUE]
  /\ UNCHANGED <<until, closed, poisoned, failures, wait, unrecorded, passedOver>>

RecordRetry(c) ==
  LET p == closer[c].pass IN
  /\ p.on /\ p.failed
  /\ Record(Head(p.batch)) /\ Next1(c)
  /\ UNCHANGED <<until, closed, poisoned, unrecorded, passedOver>>

EndPass(c) ==
  /\ closer[c].pass.on /\ closer[c].pass.batch = <<>>
  /\ closer' = [closer EXCEPT ![c].pass = NoPass]
  /\ UNCHANGED <<until, closed, poisoned, failures, wait, unrecorded, passedOver, faults>>

(* The clock, and the timer of every process.  A pass lasts less than two  *)
(* intervals; a timer that fires into a pass joins it.                     *)
Tick ==
  /\ \A c \in Closers : ~closer[c].fired /\ ~closer[c].pass.late
  /\ until' = [s \in Studies |-> IF until[s] = 0 THEN 0 ELSE until[s] - 1]
  /\ wait' = [s \in Studies |-> IF wait[s] = 0 THEN 0 ELSE wait[s] - 1]
  /\ closer' = [c \in Closers |->
       IF closer[c].pass.on THEN [closer[c] EXCEPT !.pass.late = TRUE] ELSE [closer[c] EXCEPT !.fired = TRUE]]
  /\ UNCHANGED <<closed, poisoned, failures, unrecorded, passedOver, faults>>

(* A request that looks at a study closes it if it is due, whether or not  *)
(* it backs off.  When that throws, the request records the failure in a   *)
(* statement of its own, after the transaction was rolled back.            *)
EnsureDueClosure(s) ==
  /\ Close(s)
  /\ UNCHANGED <<until, poisoned, closer, unrecorded, passedOver, faults>>

EnsureThrows(s) ==
  /\ s \notin unrecorded /\ Throws(s)
  /\ unrecorded' = unrecorded \cup {s}
  /\ UNCHANGED <<until, closed, poisoned, failures, wait, closer, passedOver>>

EnsureRecords(s) ==
  /\ s \in unrecorded /\ Record(s)
  /\ unrecorded' = unrecorded \ {s}
  /\ UNCHANGED <<until, closed, poisoned, closer, passedOver>>

(* What made the closure throw is repaired. *)
Repair(s) ==
  /\ s \in poisoned
  /\ poisoned' = poisoned \ {s}
  /\ UNCHANGED <<until, closed, failures, wait, closer, unrecorded, passedOver, faults>>

Pass(c) == CloseDue(c) \/ CloseOne(c) \/ CloseThrows(c) \/ RecordRetry(c) \/ EndPass(c)

Next ==
  \/ Tick
  \/ \E s \in Studies : EnsureDueClosure(s) \/ EnsureThrows(s) \/ EnsureRecords(s) \/ Repair(s)
  \/ \E c \in Closers : Pass(c)

Spec == Init /\ [][Next]_vars

-----------------------------------------------------------------------------
(* Every variable keeps its type. *)
TypeOK ==
  /\ until \in [Studies -> 0 .. MaxUntil] /\ closed \subseteq Studies /\ poisoned \subseteq Studies
  /\ failures \in [Studies -> 0 .. MaxDoubling + 1] /\ unrecorded \subseteq Studies
  /\ \A c \in Closers : Len(closer[c].pass.batch) <= Limit

(* Retry state is of overdue studies that are open: a failure recorded     *)
(* late, by another pass or request, leaves none with a study that was     *)
(* closed meanwhile, and no study backs off without a recorded failure.    *)
RetryIsOfTheOverdue ==
  \A s \in Studies : (failures[s] > 0 => s \in Due) /\ (wait[s] > 0 => failures[s] > 0)

(* Malformed studies do not starve the rest: a due study whose closure     *)
(* does not throw and that does not back off itself is left out by few     *)
(* passes, whoever fails in front of it: the delays double until they      *)
(* outlast a pass.  (It takes Limit times the capped delay of malformed    *)
(* studies, 72000, to fill every pass.)                                    *)
NobodyIsStarved == \A s \in Studies : passedOver[s] <= MaxPassedOver
=============================================================================

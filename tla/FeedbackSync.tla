---------------------------- MODULE FeedbackSync ----------------------------
(***************************************************************************)
(* Writing assessments back to Ironside: the feedback.sync jobs, their     *)
(* deliveries, the quarantine they run into and the connection test that   *)
(* sends parked ones again.                                                *)
(*                                                                         *)
(* Source: workers/feedback-sync.ts, workers/eval-run.ts,                  *)
(* repository.pg/judge-feedback-repository.ts, the connection test of      *)
(* routes/integration-administration.ts and quarantineIronsideIntegration. *)
(*                                                                         *)
(* "The revision is the one I read" is a flag of each reader that every    *)
(* change of the connection clears.  IronsideSync has the other changes of *)
(* a connection; here it is only quarantined and revalidated.              *)
(***************************************************************************)
EXTENDS Naturals, FiniteSets

CONSTANTS
  Jobs,        \* feedback_sync_jobs of the connection
  Deliveries,  \* bound: feedback.sync messages in the queue at one time
  Tests,       \* connection tests of owners
  Retries,     \* retryLimit (5 in the code)
  MaxItems,    \* bound: evaluation items that settle on a judge run of the connection
  MaxChanges,  \* bound: how often the credential changes its project
  MaxFaults    \* bound: failed statements, requests and sends, crashes

BoundsAssumption == Retries \in Nat /\ MaxItems \in Nat /\ MaxChanges \in Nat /\ MaxFaults \in Nat

NoJob == "no job"
NoJobAssumption == NoJob \notin Jobs

VARIABLES
  quarantined,  \* revalidationRequired of the connection
  own,          \* the credential belongs to the remote project it was made for
  status,       \* feedback_sync_jobs.status
  prepared,     \* created, and not sent yet
  written,      \* jobs whose score is stored upstream
  d,            \* deliveries
  t,            \* connection tests
  parked,       \* jobs whose last delivery was parked (history)
  items, changes, faults

vars == <<quarantined, own, status, prepared, written, d, t, parked, items, changes, faults>>
bounds == <<items, changes, faults>>

NoDelivery == [pc |-> "none", job |-> NoJob, tries |-> 0, saw |-> FALSE, fresh |-> FALSE]
NoTest == [pc |-> "idle", todo |-> {}, job |-> NoJob, fresh |-> FALSE]

Init ==
  /\ quarantined = FALSE /\ own = TRUE
  /\ status = [f \in Jobs |-> "none"]
  /\ prepared = {} /\ written = {} /\ parked = {}
  /\ d = [x \in Deliveries |-> NoDelivery] /\ t = [x \in Tests |-> NoTest]
  /\ items = 0 /\ changes = 0 /\ faults = 0

Goto(x, pc) == d' = [d EXCEPT ![x].pc = pc]
Ends(x) == d' = [d EXCEPT ![x] = NoDelivery]
Outdated(xs) == [x \in DOMAIN xs |-> [xs[x] EXCEPT !.fresh = FALSE]]
OnItsWay(f) == f \in prepared \/ \E x \in Deliveries : d[x].job = f

-----------------------------------------------------------------------------
(* Preparing and dispatching, after the item is terminal: a crash between  *)
(* the two leaves a pending row, which a later evaluation that settles on  *)
(* the same judge run sends again, as it does any row not synced.          *)
CreateFeedbackSyncJob(f) ==
  /\ items < MaxItems /\ items' = items + 1
  /\ status[f] # "synced" /\ f \notin prepared
  /\ status' = [status EXCEPT ![f] = IF @ = "none" THEN "pending" ELSE @]
  /\ prepared' = prepared \cup {f}
  /\ UNCHANGED <<quarantined, own, written, d, t, parked, changes, faults>>

Enqueue(x, f) == d[x].pc = "none" /\ d' = [d EXCEPT ![x] = [NoDelivery EXCEPT !.pc = "queued", !.job = f]]

Dispatch(f, x) ==
  /\ f \in prepared /\ Enqueue(x, f)
  /\ prepared' = prepared \ {f}
  /\ UNCHANGED <<quarantined, own, status, written, t, parked, bounds>>

ChangeProject ==
  /\ changes < MaxChanges /\ changes' = changes + 1
  /\ own' = ~own
  /\ UNCHANGED <<quarantined, status, prepared, written, d, t, parked, items, faults>>

-----------------------------------------------------------------------------
(* One delivery.                                                           *)

LoadContext(x) ==
  /\ d[x].pc = "queued"
  /\ d' = [d EXCEPT ![x].pc = IF quarantined THEN "park" ELSE "identity", ![x].fresh = TRUE]
  /\ UNCHANGED <<quarantined, own, status, prepared, written, t, parked, bounds>>

CheckIdentity(x) ==
  /\ d[x].pc = "identity"
  /\ Goto(x, IF own THEN "write" ELSE "quarantine")
  /\ UNCHANGED <<quarantined, own, status, prepared, written, t, parked, bounds>>

Quarantine(x) ==
  /\ d[x].pc = "quarantine"
  /\ IF d[x].fresh
     THEN /\ quarantined' = TRUE /\ t' = Outdated(t)
          /\ d' = [Outdated(d) EXCEPT ![x].pc = "park"]
     ELSE Goto(x, "fail") /\ UNCHANGED <<quarantined, t>>
  /\ UNCHANGED <<own, status, prepared, written, parked, bounds>>

(* createFeedback under the id of the job; a repeated write changes nothing. *)
WriteUnheard(x) ==    \* Faulty variant: a refused write is not noticed
  /\ d[x].pc = "write"
  /\ written' = IF own THEN written \cup {d[x].job} ELSE written
  /\ Goto(x, "synced")
  /\ UNCHANGED <<quarantined, own, status, prepared, t, parked, bounds>>
Write(x) ==
  /\ d[x].pc = "write"
  /\ IF own THEN written' = written \cup {d[x].job} /\ Goto(x, "synced")
     ELSE Goto(x, "fail") /\ UNCHANGED written
  /\ UNCHANGED <<quarantined, own, status, prepared, t, parked, bounds>>

Mark(x, s) == status' = [status EXCEPT ![d[x].job] = s]

MarkFeedbackSyncSucceeded(x) ==
  /\ d[x].pc = "synced"
  /\ Mark(x, "synced") /\ Ends(x) /\ parked' = parked \ {d[x].job}
  /\ UNCHANGED <<quarantined, own, prepared, written, t, bounds>>

(* Parked: the row waits for a connection test, and the delivery is dropped. *)
MarkFeedbackSyncBlocked(x) ==
  /\ d[x].pc = "park"
  /\ Mark(x, "blocked") /\ Ends(x) /\ parked' = parked \cup {d[x].job}
  /\ UNCHANGED <<quarantined, own, prepared, written, t, bounds>>

(* A permanent error is dropped, another one delivered again. *)
Again(x) ==
  \/ /\ d[x].tries < Retries
     /\ d' = [d EXCEPT ![x] = [NoDelivery EXCEPT !.pc = "queued", !.job = d[x].job, !.tries = d[x].tries + 1]]
  \/ Ends(x)

MarkFeedbackSyncFailed(x) ==
  /\ d[x].pc = "fail"
  /\ Mark(x, "failed") /\ parked' = parked \ {d[x].job}
  /\ Again(x)
  /\ UNCHANGED <<quarantined, own, prepared, written, t, bounds>>

-----------------------------------------------------------------------------
(* A connection test.                                                      *)

Test(x, pc) == t' = [t EXCEPT ![x].pc = pc]

ReadContext(x) ==
  /\ t[x].pc = "idle"
  /\ t' = [t EXCEPT ![x].pc = "identity", ![x].fresh = TRUE]
  /\ UNCHANGED <<quarantined, own, status, prepared, written, d, parked, bounds>>

TestIdentity(x) ==
  /\ t[x].pc = "identity"
  /\ Test(x, IF own THEN "revalidate" ELSE "mismatch")
  /\ UNCHANGED <<quarantined, own, status, prepared, written, d, parked, bounds>>

RecordMismatch(x) ==
  /\ t[x].pc = "mismatch"
  /\ IF t[x].fresh THEN quarantined' = TRUE /\ d' = Outdated(d) /\ t' = [Outdated(t) EXCEPT ![x] = NoTest]
     ELSE t' = [t EXCEPT ![x] = NoTest] /\ UNCHANGED <<quarantined, d>>
  /\ UNCHANGED <<own, status, prepared, written, parked, bounds>>

Revalidate(x) ==
  /\ t[x].pc = "revalidate"
  /\ IF t[x].fresh
     THEN /\ quarantined' = FALSE /\ d' = Outdated(d)
          /\ t' = [Outdated(t) EXCEPT ![x] = [NoTest EXCEPT !.pc = "list"]]
     ELSE t' = [t EXCEPT ![x] = NoTest] /\ UNCHANGED <<quarantined, d>>
  /\ UNCHANGED <<own, status, prepared, written, parked, bounds>>

ListBlocked(x) ==
  /\ t[x].pc = "list"
  /\ t' = [t EXCEPT ![x].pc = "send", ![x].todo = {f \in Jobs : status[f] = "blocked"}]
  /\ UNCHANGED <<quarantined, own, status, prepared, written, d, parked, bounds>>

SendBlocked(x, f, y) ==
  /\ t[x].pc = "send" /\ f \in t[x].todo /\ Enqueue(y, f)
  /\ t' = [t EXCEPT ![x].pc = "sent", ![x].todo = @ \ {f}, ![x].job = f]
  /\ UNCHANGED <<quarantined, own, status, prepared, written, parked, bounds>>

MarkFeedbackSyncPending(x) ==
  /\ t[x].pc = "sent"
  /\ status' = [status EXCEPT ![t[x].job] = IF @ = "blocked" THEN "pending" ELSE @]
  /\ t' = [t EXCEPT ![x].pc = "send", ![x].job = NoJob]
  /\ UNCHANGED <<quarantined, own, prepared, written, d, parked, bounds>>

EndTest(x) ==
  /\ t[x].pc = "send" /\ t[x].todo = {}
  /\ t' = [t EXCEPT ![x] = NoTest]
  /\ UNCHANGED <<quarantined, own, status, prepared, written, d, parked, bounds>>

-----------------------------------------------------------------------------
(* A crash before a dispatch, a failed send of a test or a test that ends, *)
(* a delivery that fails or expires: delivered again, or dropped.          *)
Fault ==
  /\ faults < MaxFaults /\ faults' = faults + 1
  /\ \/ \E f \in prepared : prepared' = prepared \ {f} /\ UNCHANGED <<d, t>>
     \/ \E x \in Tests : t[x].pc # "idle" /\ t' = [t EXCEPT ![x] = NoTest] /\ UNCHANGED <<prepared, d>>
     \/ \E x \in Tests : /\ t[x].pc = "send" /\ t[x].todo # {}
                         /\ \E f \in t[x].todo : t' = [t EXCEPT ![x].todo = @ \ {f}]
                         /\ UNCHANGED <<prepared, d>>
     \/ \E x \in Deliveries : /\ d[x].pc \notin {"none", "queued"}
                              /\ Again(x)
                              /\ UNCHANGED <<prepared, t>>
  /\ UNCHANGED <<quarantined, own, status, written, parked, items, changes>>

Deliver(x) ==
  \/ LoadContext(x) \/ CheckIdentity(x) \/ Quarantine(x) \/ Write(x)
  \/ MarkFeedbackSyncSucceeded(x) \/ MarkFeedbackSyncBlocked(x) \/ MarkFeedbackSyncFailed(x)
TestStep(x) ==
  \/ ReadContext(x) \/ TestIdentity(x) \/ RecordMismatch(x) \/ Revalidate(x) \/ ListBlocked(x)
  \/ \E f \in Jobs, y \in Deliveries : SendBlocked(x, f, y)
  \/ MarkFeedbackSyncPending(x) \/ EndTest(x)

Next ==
  \/ \E f \in Jobs : CreateFeedbackSyncJob(f) \/ \E x \in Deliveries : Dispatch(f, x)
  \/ ChangeProject
  \/ \E x \in Deliveries : Deliver(x)
  \/ \E x \in Tests : TestStep(x)
  \/ Fault

Spec == Init /\ [][Next]_vars

(* The queue delivers, and owners go on testing a quarantined connection. *)
FairSpec ==
  /\ Spec
  /\ \A x \in Deliveries : WF_vars(Deliver(x))
  /\ \A x \in Tests : WF_vars(TestStep(x))

-----------------------------------------------------------------------------
(* Every variable keeps its type; a message and a test's send name a job.  *)
TypeOK ==
  /\ \A f \in Jobs : status[f] \in {"none", "pending", "synced", "failed", "blocked"}
  /\ prepared \subseteq {f \in Jobs : status[f] # "none"} /\ written \subseteq Jobs
  /\ \A x \in Deliveries : d[x].tries \in 0 .. Retries /\ (d[x].pc = "none" <=> d[x].job = NoJob)
  /\ \A x \in Tests : t[x].todo \subseteq Jobs /\ (t[x].pc = "sent" <=> t[x].job # NoJob)

(* A job marked synced has its score stored upstream, whatever deliveries  *)
(* overlapped and however the credential changed meanwhile.                *)
SyncedIsWritten == \A f \in Jobs : status[f] = "synced" => f \in written

(* A parked job is not lost: once the credential stays the right one,      *)
(* connection tests send every blocked job again until none is left.       *)
BlockedIsResumed == <>[]own => <>[](\A f \in Jobs : status[f] # "blocked")

(* docs/ironside-integration.md: feedback that encounters quarantine is    *)
(* parked durably; the next successful connection test re-enqueues it.  A  *)
(* parked job with no delivery under way is one a test will list.          *)
ParkedIsKept ==
  \A f \in parked : OnItsWay(f) \/ status[f] = "blocked"
=============================================================================

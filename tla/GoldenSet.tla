----------------------------- MODULE GoldenSet -----------------------------
(***************************************************************************)
(* The verdicts people record on cases, the queues that ask for them, and  *)
(* the golden set of a criterion with the series of regression revisions   *)
(* that freezes it.                                                        *)
(*                                                                         *)
(* Source: promoteExceptionToGoldenSet and retireGoldenSetEntry of         *)
(* repository.pg/golden-evidence-repository.ts, getOrCreateRegression-     *)
(* DatasetRevisionWithClient of dataset-revision-commands.ts, recordVerdict*)
(* of case-evidence-repository.ts and review-queue-repository.ts.          *)
(*                                                                         *)
(* One criterion version.  A transaction on the golden set takes the lock  *)
(* of the project row, reads, and commits; verdicts are recorded without it*)
(* and carry the time their transaction began.                             *)
(***************************************************************************)
EXTENDS Naturals, Sequences, FiniteSets

CONSTANTS
  Cases, Reviewers,
  Handlers,      \* requests in progress
  MaxRequests, MaxVerdicts, MaxQueued, MaxFaults   \* bounds

BoundsAssumption == {MaxRequests, MaxVerdicts, MaxQueued, MaxFaults} \subseteq Nat

None == "none"
NoneAssumption == None \notin Cases \cup Reviewers \cup Handlers
Labels == {"pass", "fail"}

VARIABLES
  verdicts,  \* human and adjudicated verdicts
  entries,   \* golden_set_entries
  revs,      \* dataset_revisions of the golden series: the items of each
  pointer,   \* criterion_regression_revisions
  versions,  \* the regression revision each skill version was created with
  queue,     \* review_queue_items: a case and whom it is assigned to, and its status
  lock,      \* the project row
  h,         \* handlers
  clock, requests, faults

vars == <<verdicts, entries, revs, pointer, versions, queue, lock, h, clock, requests, faults>>
golden == <<entries, revs, pointer, versions>>

Idle == [pc |-> "idle", kind |-> None, case |-> None, label |-> None, by |-> None, entry |-> 0, began |-> 0, content |-> {}]

Init ==
  /\ verdicts = <<>> /\ entries = <<>> /\ revs = <<>> /\ pointer = 0 /\ versions = <<>>
  /\ queue = [q \in {} |-> "pending"]
  /\ lock = None /\ h = [k \in Handlers |-> Idle]
  /\ clock = 0 /\ requests = 0 /\ faults = 0

-----------------------------------------------------------------------------
(* effectiveHumanVerdict: an adjudication outranks, then the latest wins.  *)
Outranks(v, w) ==
  IF v.source # w.source THEN v.source = "adjudicated" ELSE v.at >= w.at
EffectiveHumanLabel(case) ==
  LET ofCase == {i \in DOMAIN verdicts : verdicts[i].case = case} IN
  IF ofCase = {} THEN None
  ELSE verdicts[CHOOSE i \in ofCase : \A j \in ofCase : Outranks(verdicts[i], verdicts[j])].label

Active(es) == {e \in DOMAIN es : ~es[e].retired}

(* Verdicts are known by their times, which are distinct here. *)
Supporting(vs, case, label) == {vs[i].at : i \in {j \in DOMAIN vs : vs[j].case = case /\ vs[j].label = label}}

(* The items of a revision: the active entries with the verdicts that      *)
(* support them.                                                           *)
Snapshot(es, vs) ==
  {[entry |-> e, case |-> es[e].case, label |-> es[e].label,
    support |-> Supporting(vs, es[e].case, es[e].label)] : e \in Active(es)}

-----------------------------------------------------------------------------
Start(k, request) ==
  /\ h[k].pc = "idle" /\ requests < MaxRequests /\ requests' = requests + 1
  /\ h' = [h EXCEPT ![k] = request]
  /\ UNCHANGED <<verdicts, golden, queue, lock, clock, faults>>

Ask(k) ==
  \/ \E case \in Cases, l \in Labels : Start(k, [Idle EXCEPT !.pc = "detail", !.kind = "promote", !.case = case, !.label = l])
  \/ \E e \in DOMAIN entries : Start(k, [Idle EXCEPT !.pc = "lock", !.kind = "retire", !.entry = e])
  \/ \E kind \in {"version", "read"} : Start(k, [Idle EXCEPT !.pc = "lock", !.kind = kind])

Goto(k, pc) == h' = [h EXCEPT ![k].pc = pc]
End(k) == h' = [h EXCEPT ![k] = Idle]

(* A promotion looks at the case first: it may not contradict the ruling.  *)
ReadDetail(k) ==
  /\ h[k].pc = "detail"
  /\ IF EffectiveHumanLabel(h[k].case) \in {None, h[k].label} THEN Goto(k, "lock") ELSE End(k)
  /\ UNCHANGED <<verdicts, golden, queue, lock, clock, requests, faults>>

Begin(k) ==
  /\ h[k].pc = "lock" /\ h[k].began = 0
  /\ clock' = clock + 1 /\ h' = [h EXCEPT ![k].began = clock']
  /\ UNCHANGED <<verdicts, golden, queue, lock, requests, faults>>

PassLock(k) == lock' = lock              \* Faulty variant: the project row is not locked
TakeLock(k) == lock = None /\ lock' = k
LockProject(k) ==
  /\ h[k].pc = "lock" /\ h[k].began # 0
  /\ TakeLock(k) /\ Goto(k, "freeze")
  /\ UNCHANGED <<verdicts, golden, queue, clock, requests, faults>>

(* What the transaction itself writes first, visible to nobody else. *)
WithoutVerdict(k) == verdicts            \* Faulty variant: a promotion leaves no verdict
Judged(k) ==
  IF h[k].kind # "promote" THEN verdicts
  ELSE Append(verdicts, [case |-> h[k].case, label |-> h[k].label, source |-> "human", by |-> "promotion", at |-> h[k].began])

Replaced(k) == {e \in Active(entries) : entries[e].case = h[k].case}

Entered(k) ==
  CASE h[k].kind = "promote" ->
         LET old == Replaced(k)
             new == [case |-> h[k].case, label |-> h[k].label, retired |-> FALSE] IN
         IF old = {} THEN Append(entries, new) ELSE [e \in DOMAIN entries |-> IF e \in old THEN new ELSE entries[e]]
    [] h[k].kind = "retire" -> [entries EXCEPT ![h[k].entry].retired = TRUE]
    [] OTHER -> entries

(* The second retirement of an entry is told of the first. *)
Freeze(k) ==
  /\ h[k].pc = "freeze"
  /\ IF h[k].kind = "retire" /\ entries[h[k].entry].retired
     THEN End(k) /\ lock' = (IF lock = k THEN None ELSE lock)
     ELSE h' = [h EXCEPT ![k].pc = "commit", ![k].content = Snapshot(Entered(k), Judged(k))] /\ UNCHANGED lock
  /\ UNCHANGED <<verdicts, golden, queue, clock, requests, faults>>

(* The revision of the same content is kept, else one is added and the     *)
(* pointer moves to it.                                                    *)
SameEntries(k) ==                        \* Faulty variant: provenance is left out of the digest
  pointer # 0 /\ {i.entry : i \in revs[pointer]} = {i.entry : i \in h[k].content}
Unchanged(k) == pointer # 0 /\ revs[pointer] = h[k].content

Commit(k) ==
  /\ h[k].pc = "commit"
  /\ verdicts' = Judged(k) /\ entries' = Entered(k)
  /\ IF Unchanged(k) THEN UNCHANGED <<revs, pointer>>
     ELSE revs' = Append(revs, h[k].content) /\ pointer' = Len(revs')
  /\ versions' = IF h[k].kind = "version" THEN Append(versions, pointer') ELSE versions
  /\ End(k) /\ lock' = IF lock = k THEN None ELSE lock
  /\ UNCHANGED <<queue, clock, requests, faults>>

Fault(k) ==
  /\ h[k].pc \notin {"idle", "queue"} /\ faults < MaxFaults /\ faults' = faults + 1
  /\ End(k) /\ lock' = IF lock = k THEN None ELSE lock
  /\ UNCHANGED <<verdicts, golden, queue, clock, requests>>

-----------------------------------------------------------------------------
(* recordVerdict: the verdict, and then the queue items it completes, which*)
(* is best effort.                                                         *)
RecordVerdict(k, case, l, source, r) ==
  /\ h[k].pc = "idle" /\ Len(verdicts) < MaxVerdicts
  /\ clock' = clock + 1
  /\ verdicts' = Append(verdicts, [case |-> case, label |-> l, source |-> source, by |-> r, at |-> clock'])
  /\ IF source = "human" THEN h' = [h EXCEPT ![k] = [Idle EXCEPT !.pc = "queue", !.case = case, !.by = r]] ELSE UNCHANGED h
  /\ UNCHANGED <<golden, queue, lock, requests, faults>>

MineOrAny(q, k) == q.case = h[k].case    \* Faulty variant: the items of other reviewers are completed too
Mine(q, k) == q.case = h[k].case /\ q.to \in {None, h[k].by}

CompleteQueueItems(k) ==
  /\ h[k].pc = "queue" /\ End(k)
  /\ queue' = [q \in DOMAIN queue |-> IF Mine(q, k) THEN "completed" ELSE queue[q]]
  /\ UNCHANGED <<verdicts, golden, lock, clock, requests, faults>>

LeaveQueueItems(k) ==
  /\ h[k].pc = "queue" /\ faults < MaxFaults /\ faults' = faults + 1
  /\ End(k)
  /\ UNCHANGED <<verdicts, golden, queue, lock, clock, requests>>

(* createReviewQueue and addReviewQueueItems: one row for each case and    *)
(* assignee, and none in conflict.                                         *)
AddReviewQueueItem(case, to) ==
  LET q == [case |-> case, to |-> to] IN
  /\ q \notin DOMAIN queue /\ Cardinality(DOMAIN queue) < MaxQueued
  /\ queue' = [i \in DOMAIN queue \cup {q} |-> IF i = q THEN "pending" ELSE queue[i]]
  /\ UNCHANGED <<verdicts, golden, lock, h, clock, requests, faults>>

Next ==
  \/ \E k \in Handlers :
       \/ Ask(k) \/ ReadDetail(k) \/ Begin(k) \/ LockProject(k) \/ Freeze(k) \/ Commit(k) \/ Fault(k)
       \/ CompleteQueueItems(k) \/ LeaveQueueItems(k)
       \/ \E case \in Cases, l \in Labels, s \in {"human", "adjudicated"}, r \in Reviewers : RecordVerdict(k, case, l, s, r)
  \/ \E case \in Cases, to \in Reviewers \cup {None} : AddReviewQueueItem(case, to)

Spec == Init /\ [][Next]_vars

-----------------------------------------------------------------------------
TypeOK ==
  /\ \A e \in DOMAIN entries : entries[e].case \in Cases /\ entries[e].label \in Labels
  /\ pointer \in 0..Len(revs) /\ \A v \in DOMAIN versions : versions[v] \in DOMAIN revs
  /\ lock # None => h[lock].pc \in {"freeze", "commit"}
  /\ \A q \in DOMAIN queue : q.case \in Cases /\ queue[q] \in {"pending", "completed"}
  /\ \A d, e \in Active(entries) : entries[d].case = entries[e].case => d = e

(* The pointer of the criterion names, after every promotion, retirement   *)
(* and version that overlap, a revision of exactly the active entries with *)
(* their labels: what a gate judges against is the golden set.             *)
PointerIsTheGoldenSet ==
  pointer # 0 =>
    {[entry |-> i.entry, label |-> i.label] : i \in revs[pointer]} =
      {[entry |-> e, label |-> entries[e].label] : e \in Active(entries)}

(* A skill version is bound to a revision that names every human verdict in*)
(* favour of an entry that was recorded before its transaction began: the  *)
(* reuse of the last revision compares provenance, not only entries.       *)
BindingStep ==
  versions' # versions =>
    \E k \in Handlers : h[k].kind = "version" /\ h'[k].kind = None /\
      \A i \in revs'[versions'[Len(versions')]], at \in 1..h[k].began :
        at \in Supporting(verdicts, i.case, i.label) => at \in i.support
VersionsBindWhatWasRecorded == [][BindingStep]_vars

(* No revision calls an entry golden without a retained human verdict of   *)
(* its label on its case: a promotion is itself such a verdict, so the     *)
(* provenance of a revision is never empty.                                *)
EveryItemIsSupported ==
  \A r \in DOMAIN revs : \A i \in revs[r] : i.support # {} /\ i.support \subseteq Supporting(verdicts, i.case, i.label)

(* A queue item is completed by an explicit verdict of the reviewer it is  *)
(* assigned to (of anybody when it is not), and never by a promotion: the  *)
(* items of the other reviewers of a case wait for their own verdicts.     *)
CompletedByItsReviewer ==
  \A q \in DOMAIN queue : queue[q] = "completed" =>
    \E i \in DOMAIN verdicts : /\ verdicts[i].case = q.case /\ verdicts[i].source = "human"
                               /\ verdicts[i].by \in (IF q.to = None THEN Reviewers ELSE {q.to})

(* "A client-supplied label that contradicts the recorded human decision   *)
(* must not be frozen into the golden set" (golden-evidence-repository.ts).*)
RulingIsNotContradicted ==
  [][\A e \in DOMAIN entries' :
       e \notin DOMAIN entries \/ entries'[e] # entries[e] =>
         entries'[e].retired \/ EffectiveHumanLabel(entries'[e].case) \in {None, entries'[e].label}]_vars
=============================================================================

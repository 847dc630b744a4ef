--------------------------- MODULE GovernedReview ---------------------------
(***************************************************************************)
(* One governed review batch: the blind tasks of its reviewers, the        *)
(* labeling barrier, alignment, adjudication, resolution and the freeze of *)
(* its truth into a dataset revision.                                      *)
(*                                                                         *)
(* Commands of two kinds meet on the batch row.  Task actions and          *)
(* alignment events are READ COMMITTED transactions that lock the row      *)
(* first, so each is one action over the current rows.  Transitions,       *)
(* adjudications and post-barrier reads are SERIALIZABLE: the snapshot is  *)
(* taken by the statement that waits for the row lock, a lock that is only *)
(* released (the row itself is never updated) does not make them fail, and *)
(* the serialization checks see serializable transactions only.  So such a *)
(* command is two actions: Begin, which takes the snapshot, and its end,   *)
(* which decides on the snapshot and writes to the current rows.           *)
(***************************************************************************)
EXTENDS Naturals, Sequences, FiniteSets, SequencesExt

CONSTANTS Items, Reviewers,
          Outsiders,        \* owners who rate nothing, and may adjudicate
          Custodian,        \* the custodian of a sealed batch, an outsider
          Sealed,           \* BOOLEAN: role_intent is sealed_validation
          Labels,           \* the answers reviewers give
          Developers,       \* subjects who may come to work on an evaluator
          Decisions,        \* what adjudicators decide
          Commands,         \* serializable commands that may be under way
          Nothing,
          MaxTaskEvents,    \* bound on the event stream of a task
          MaxAlignment,     \* bound on alignment events
          MaxChain          \* bound on adjudications of an item

GovernedReviewAssumption ==
    /\ IsFiniteSet(Items) /\ IsFiniteSet(Reviewers) /\ Reviewers # {}
    /\ Custodian \in Outsiders /\ Outsiders \cap Reviewers = {}
    /\ Labels \subseteq {"pass", "fail", "cannot_determine"}
    /\ Decisions \subseteq {"pass", "fail", "unresolvable"}
    /\ Developers \subseteq Reviewers \cup Outsiders
    /\ Sealed \in BOOLEAN
    /\ {MaxTaskEvents, MaxAlignment, MaxChain} \subseteq Nat

VARIABLES
    db,        \* the rows of the batch
    stopped,   \* the fixed stop time has passed
    tx,        \* serializable commands: what they ask and their snapshot
    readers    \* subjects who were shown labels and payload of a sealed item

vars == <<db, stopped, tx, readers>>

(* Every item is assigned to every reviewer: required_labels_per_item.     *)
Tasks == Items \X Reviewers
Subjects == Reviewers \cup Outsiders

TaskStates == {"assigned", "viewed", "deferred", "submitted", "withdrawn", "expired"}
BatchStates == {"draft", "open", "labeling_closed", "alignment_open",
                "adjudicating", "resolved", "incomplete", "frozen"}
Transitions == {"open", "close_labeling", "open_alignment", "start_adjudication",
                "finalize", "freeze"}
Kinds == {"coverage_gap", "single_rater", "unanimous", "conflict",
          "unresolvable", "adjudicated"}
AfterBarrier == BatchStates \ {"draft", "open"}

NewTask == [state |-> "assigned", version |-> 0, label |-> Nothing, attempt |-> 0]
Idle == [do |-> "none"]
Init ==
    /\ db = [state |-> "draft", version |-> 0,
             task |-> [t \in Tasks |-> NewTask],
             closure |-> Nothing,
             alignment |-> <<>>,
             chain |-> [i \in Items |-> <<>>],
             passed |-> {},
             developed |-> {},
             truth |-> [i \in Items |-> Nothing],
             representative |-> FALSE]
    /\ stopped = FALSE
    /\ tx = [c \in Commands |-> Idle]
    /\ readers = {}
-----------------------------------------------------------------------------
(* What the SQL functions say of a state of the rows.                      *)

(* The view governed_active_review_labels: an attempt and what it says.    *)
Active(d) == {t \in Tasks : d.task[t].state = "submitted"}
ActiveLabels(d, ts) == {<<t, d.task[t].attempt, d.task[t].label>> : t \in Active(d) \cap ts}
TasksOf(i) == {i} \X Reviewers
Said(d, i) == {d.task[t].label : t \in Active(d) \cap TasksOf(i)}
Covered(d, i) == TasksOf(i) \subseteq Active(d)
Clear(d, i) == Said(d, i) \in {{"pass"}, {"fail"}}

(* governed_review_item_resolution: the kind and the label it resolves to. *)
Resolution(d, i) ==
    CASE ~Covered(d, i) -> <<"coverage_gap", Nothing>>
      [] Covered(d, i) /\ Clear(d, i) ->
            <<IF Cardinality(Reviewers) = 1 THEN "single_rater" ELSE "unanimous",
              CHOOSE l \in Said(d, i) : TRUE>>
      [] Covered(d, i) /\ ~Clear(d, i) /\ d.chain[i] = <<>> -> <<"conflict", Nothing>>
      [] OTHER -> IF Last(d.chain[i]).decision = "unresolvable"
                  THEN <<"unresolvable", Nothing>>
                  ELSE <<"adjudicated", Last(d.chain[i]).decision>>

KindOf(d, i) == Resolution(d, i)[1]
Resolved(d) == \A i \in Items : KindOf(d, i) \in {"single_rater", "unanimous", "adjudicated"}
Hopeless(d) == \E i \in Items : KindOf(d, i) \in {"coverage_gap", "unresolvable"}
Disputed(d) == /\ \E i \in Items : KindOf(d, i) = "conflict"
               /\ \A i \in Items : KindOf(d, i) # "coverage_gap"
AlignmentClosed(d) == d.alignment # <<>> /\ Last(d.alignment).closes

(* evaluateCapability: a subject with a recorded development exposure is   *)
(* not eligible; a sealed batch asks, any other does not.                  *)
Eligible(d, subjects) == Sealed => subjects \cap d.developed = {}

(* contentExposedSubjects, at the opening and at the freeze.               *)
Assigned == {Custodian} \cup Reviewers
Exposed(d) == Assigned \cup d.passed
              \cup UNION {{d.chain[i][n].by : n \in DOMAIN d.chain[i]} : i \in Items}
-----------------------------------------------------------------------------
(* Reviewers: task actions under the lock of the batch, then of the task.  *)

Append1(t, new) == db' = [db EXCEPT !.task[t] = [new EXCEPT !.version = db.task[t].version + 1]]

TaskAction(t, from, new) ==
    /\ db.state = "open"
    /\ db.task[t].state \in from
    /\ db.task[t].version < MaxTaskEvents
    /\ Append1(t, new)
    /\ UNCHANGED <<stopped, tx, readers>>

View(t) == TaskAction(t, {"assigned"}, [db.task[t] EXCEPT !.state = "viewed"])
Defer(t) == TaskAction(t, {"viewed"}, [db.task[t] EXCEPT !.state = "deferred"])
Resume(t) == TaskAction(t, {"deferred"}, [db.task[t] EXCEPT !.state = "viewed"])

SubmitLabel(t, l) ==
    TaskAction(t, {"viewed", "withdrawn"},
               [db.task[t] EXCEPT !.state = "submitted", !.label = l, !.attempt = @ + 1])

(* Only the active label can be withdrawn, and not once it was revealed:   *)
(* the alignment events and adjudications it could be in need the barrier. *)
Revealed(t) ==
    \/ \E n \in DOMAIN db.alignment :
          \E x \in db.alignment[n].labels : x[1] = t /\ x[2] = db.task[t].attempt
    \/ \E i \in Items : \E n \in DOMAIN db.chain[i] :
          \E x \in db.chain[i][n].labels : x[1] = t /\ x[2] = db.task[t].attempt

(* Faulty variant: a label may be withdrawn after the barrier.             *)
WithdrawLate(t) ==
    /\ db.state \in {"open", "labeling_closed", "adjudicating"}
    /\ db.task[t].state = "submitted" /\ db.task[t].version < MaxTaskEvents
    /\ Append1(t, [db.task[t] EXCEPT !.state = "withdrawn"])
    /\ UNCHANGED <<stopped, tx, readers>>

WithdrawLabel(t) ==
    /\ ~Revealed(t)
    /\ TaskAction(t, {"submitted"}, [db.task[t] EXCEPT !.state = "withdrawn"])

(* appendAlignmentEvent: READ COMMITTED too; by a reviewer or an owner.  A *)
(* refused sealed actor leaves no check: the command throws.               *)
AlignmentEvent(s, closes) ==
    /\ db.state = "alignment_open"
    /\ Eligible(db, {s})
    /\ Active(db) # {} /\ ~AlignmentClosed(db)
    /\ Len(db.alignment) < MaxAlignment
    /\ db' = [db EXCEPT !.alignment = Append(@, [closes |-> closes,
                                                 labels |-> ActiveLabels(db, Tasks)]),
                        !.passed = IF Sealed THEN @ \cup {s} ELSE @]
    /\ UNCHANGED <<stopped, tx, readers>>

(* Somebody works on an evaluator of the criterion: the exposure is        *)
(* recorded by transactions that know nothing of the batch.                *)
RecordDevelopment(s) ==
    /\ s \notin db.developed
    /\ db' = [db EXCEPT !.developed = @ \cup {s}]
    /\ UNCHANGED <<stopped, tx, readers>>

PassStop == ~stopped /\ stopped' = TRUE /\ UNCHANGED <<db, tx, readers>>
-----------------------------------------------------------------------------
(* Serializable commands.  The version an owner names is compared with the *)
(* one of the snapshot; a command that names another one, or repeats a key *)
(* that was used, changes nothing.                                         *)

Begin(c, request) ==
    /\ tx[c].do = "none"
    /\ tx' = [tx EXCEPT ![c] = request @@ [snap |-> db]]
    /\ UNCHANGED <<db, stopped, readers>>

(* The states each transition starts from, deriveBatchEventKind: what the  *)
(* snapshot refuses ends without a row, so only the others are begun.      *)
From == [open |-> {"draft"}, close_labeling |-> {"open"},
         open_alignment |-> {"labeling_closed"},
         start_adjudication |-> {"labeling_closed", "alignment_open"},
         finalize |-> {"labeling_closed", "alignment_open", "adjudicating"},
         freeze |-> {"resolved"}]

BeginTransition(c, action) ==
    /\ db.state \in From[action]
    /\ Begin(c, [do |-> "transition", action |-> action])
BeginAdjudication(c, s, i, decision) ==
    /\ db.state = "adjudicating"
    /\ Begin(c, [do |-> "adjudicate", by |-> s, item |-> i, decision |-> decision])
BeginRead(c, s) ==
    /\ Sealed /\ db.state \in AfterBarrier
    /\ Begin(c, [do |-> "read", by |-> s])

Ended(c) == tx' = [tx EXCEPT ![c] = Idle]

(* The command is refused, its transaction is rolled back by an error or a *)
(* serialization failure, or its process dies: no row is written.          *)
Rollback(c) ==
    /\ tx[c].do # "none" /\ Ended(c)
    /\ UNCHANGED <<db, stopped, readers>>

Doing(c, action) == tx[c].do = "transition" /\ tx[c].action = action

(* A transition reads and writes the event stream of the batch and reads   *)
(* the adjudications and checks; an adjudication or a read that committed  *)
(* meanwhile read the state and wrote one of those: a cycle, so one fails. *)
NoConflict(c) ==
    /\ db.version = tx[c].snap.version
    /\ db.chain = tx[c].snap.chain
    /\ db.passed = tx[c].snap.passed

(* The insert of the batch event; the unique version of the stream.        *)
Commit(c, event, new) ==
    /\ NoConflict(c)
    /\ db' = [new EXCEPT !.state = event, !.version = @ + 1]
    /\ Ended(c)
    /\ UNCHANGED <<stopped, readers>>

Open(c) ==
    /\ Doing(c, "open")
    /\ Eligible(tx[c].snap, Assigned)
    /\ Commit(c, "open", db)

(* Closing: what is recorded, who is expired and whether anything is left  *)
(* open is decided on the snapshot; the clock is not part of it.  An       *)
(* expiry whose version was taken meanwhile violates the unique key of the *)
(* task's stream and rolls the closure back.                               *)
Pending(d) == {t \in Tasks : d.task[t].state \in {"assigned", "viewed", "withdrawn"}}
Deferred(d) == {t \in Tasks : d.task[t].state = "deferred"}

CloseLabeling(c) ==
    LET d == tx[c].snap
        expired == IF stopped THEN Pending(d) ELSE {} IN
    /\ Doing(c, "close_labeling")
    /\ stopped \/ Pending(d) = {}
    /\ \A t \in expired : db.task[t].version = d.task[t].version
    /\ Commit(c, "labeling_closed",
              [db EXCEPT !.task = [t \in Tasks |->
                                      IF t \in expired
                                      THEN [@[t] EXCEPT !.state = "expired", !.version = @ + 1]
                                      ELSE @[t]],
                         !.closure = [labels |-> ActiveLabels(d, Tasks),
                                      deferred |-> Deferred(d), expired |-> expired]])

OpenAlignment(c) ==
    /\ Doing(c, "open_alignment")
    /\ Disputed(tx[c].snap)
    /\ Commit(c, "alignment_open", db)

StartAdjudication(c) ==
    /\ Doing(c, "start_adjudication")
    /\ tx[c].snap.state = "alignment_open" => AlignmentClosed(tx[c].snap)
    /\ Disputed(tx[c].snap)
    /\ Commit(c, "adjudicating", db)

(* Faulty variant: a remaining conflict does not keep the batch open.      *)
FinalizeEarly(c) ==
    /\ Doing(c, "finalize")
    /\ Commit(c, "resolved", db)

(* deriveBatchEventKind for finalize: all items resolved, or none can be   *)
(* helped any more; otherwise the command is refused.                      *)
Finalize(c) ==
    /\ Doing(c, "finalize")
    /\ \/ Resolved(tx[c].snap) /\ Commit(c, "resolved", db)
       \/ Hopeless(tx[c].snap) /\ Commit(c, "incomplete", db)

(* materializeFrozenTruth: one truth link an item, the revision and the    *)
(* representative claim, which asks for every task and a clear answer.     *)
FreezeOf(d, c) ==
    Commit(c, "frozen",
           [db EXCEPT !.truth = [i \in Items |-> Resolution(d, i)
                                     \o <<IF KindOf(d, i) = "adjudicated" THEN {}
                                          ELSE ActiveLabels(d, TasksOf(i))>>],
                      !.representative =
                          /\ Active(d) = Tasks
                          /\ \A t \in Tasks : d.task[t].label # "cannot_determine"])

(* Faulty variant: only those who were assigned are checked again.         *)
FreezeAssigned(c) ==
    /\ Doing(c, "freeze")
    /\ Eligible(tx[c].snap, Assigned)
    /\ FreezeOf(tx[c].snap, c)

Freeze(c) ==
    /\ Doing(c, "freeze")
    /\ Eligible(tx[c].snap, Exposed(tx[c].snap))
    /\ FreezeOf(tx[c].snap, c)

(* appendAdjudication: by an owner who is no rater of the item, on the     *)
(* head of the item's chain, over the complete set of its active labels.   *)
Judgeable(d, i) == "cannot_determine" \in Said(d, i) \/ {"pass", "fail"} \subseteq Said(d, i)

(* Faulty variant: READ COMMITTED without the unique chain version: the    *)
(* state and the head it read are not defended.                            *)
AdjudicateLate(c) ==
    LET d == tx[c].snap
        i == tx[c].item IN
    /\ tx[c].do = "adjudicate"
    /\ Judgeable(d, i) /\ Len(db.chain[i]) < MaxChain
    /\ db' = [db EXCEPT !.chain[i] = Append(@, [by |-> tx[c].by, decision |-> tx[c].decision,
                                                labels |-> ActiveLabels(d, TasksOf(i))]),
                        !.passed = IF Sealed THEN @ \cup {tx[c].by} ELSE @]
    /\ Ended(c) /\ UNCHANGED <<stopped, readers>>

Adjudicate(c) ==
    LET d == tx[c].snap
        i == tx[c].item IN
    /\ tx[c].do = "adjudicate"
    /\ Eligible(d, {tx[c].by})
    /\ Judgeable(d, i)
    /\ Len(d.chain[i]) < MaxChain
    /\ db.version = d.version /\ db.chain[i] = d.chain[i]
    /\ db' = [db EXCEPT !.chain[i] = Append(@, [by |-> tx[c].by, decision |-> tx[c].decision,
                                                labels |-> ActiveLabels(d, TasksOf(i))]),
                        !.passed = IF Sealed THEN @ \cup {tx[c].by} ELSE @]
    /\ Ended(c) /\ UNCHANGED <<stopped, readers>>

(* getPostBarrierItemView: the preflight commits its check and meets a     *)
(* freeze, which reads the checks; then, outside any transaction, payload  *)
(* and labels are read and shown.                                          *)
Preflight(c) ==
    LET d == tx[c].snap IN
    /\ tx[c].do = "read"
    /\ Eligible(d, {tx[c].by})
    /\ d.state = "frozen" \/ db.state # "frozen"
    /\ db' = [db EXCEPT !.passed = IF Sealed THEN @ \cup {tx[c].by} ELSE @]
    /\ tx' = [tx EXCEPT ![c] = [do |-> "show", by |-> tx[c].by]]
    /\ UNCHANGED <<stopped, readers>>

Show(c) ==
    /\ tx[c].do = "show"
    /\ readers' = readers \cup {tx[c].by}
    /\ Ended(c) /\ UNCHANGED <<db, stopped>>
-----------------------------------------------------------------------------
Next ==
    \/ \E t \in Tasks : \/ View(t) \/ Defer(t) \/ Resume(t) \/ WithdrawLabel(t)
                        \/ \E l \in Labels : SubmitLabel(t, l)
    \/ \E s \in Subjects, closes \in BOOLEAN : AlignmentEvent(s, closes)
    \/ \E s \in Developers : RecordDevelopment(s)
    \/ PassStop
    \/ \E c \in Commands :
          \/ \E action \in Transitions : BeginTransition(c, action)
          \/ \E s \in Outsiders, i \in Items, decision \in Decisions :
                BeginAdjudication(c, s, i, decision)
          \/ \E s \in Subjects : BeginRead(c, s)
          \/ Rollback(c) \/ Open(c) \/ CloseLabeling(c) \/ OpenAlignment(c)
          \/ StartAdjudication(c) \/ Finalize(c) \/ Freeze(c) \/ Adjudicate(c)
          \/ Preflight(c) \/ Show(c)

Spec == Init /\ [][Next]_vars
-----------------------------------------------------------------------------
(* The rows have the shape the tables allow: a label exists exactly from   *)
(* the first attempt on, attempts and events are counted without a gap,    *)
(* and a closure is recorded exactly after the barrier.                    *)
LabelSets == SUBSET (Tasks \X (1..MaxTaskEvents) \X Labels)
TypeOK ==
    /\ db.state \in BatchStates /\ db.version \in 0..6
    /\ \A t \in Tasks :
          /\ db.task[t].state \in TaskStates
          /\ db.task[t].version \in 0..(MaxTaskEvents + 1)
          /\ db.task[t].attempt \in 0..db.task[t].version
          /\ db.task[t].label \in Labels \cup {Nothing}
          /\ (db.task[t].attempt = 0) = (db.task[t].label = Nothing)
    /\ (db.closure = Nothing) = (db.state \in {"draft", "open"})
    /\ \A n \in DOMAIN db.alignment :
          db.alignment[n].labels \in LabelSets /\ db.alignment[n].closes \in BOOLEAN
    /\ \A i \in Items : \A n \in DOMAIN db.chain[i] : db.chain[i][n].by \in Outsiders
    /\ db.passed \cup db.developed \cup readers \subseteq Subjects
    /\ \A c \in Commands :
          tx[c].do \in {"none", "transition", "adjudicate", "read", "show"}

(* What was shown or judged stays what counts: the labels an alignment     *)
(* event made visible and the labels an adjudication considered are, ever  *)
(* after, the active labels of the batch and of the item, although they    *)
(* were written by transactions of different isolation.                    *)
EvidenceStands ==
    /\ \A n \in DOMAIN db.alignment : db.alignment[n].labels = ActiveLabels(db, Tasks)
    /\ \A i \in Items : \A n \in DOMAIN db.chain[i] :
          db.chain[i][n].labels = ActiveLabels(db, TasksOf(i))

(* A decision is never overtaken by evidence: while a batch is resolved or *)
(* frozen every item still resolves to a label, and while it is incomplete *)
(* some item still cannot, whatever adjudication was under way when the    *)
(* owner finalized.                                                        *)
DecisionStands ==
    /\ db.state \in {"resolved", "frozen"} => Resolved(db)
    /\ db.state = "incomplete" => Hopeless(db)

(* The frozen revision says what the evidence says: each truth link names  *)
(* the kind, the label and the labels its item resolves by, and a revision *)
(* represents its population only if every assigned task was answered.     *)
TruthIsTheEvidence ==
    db.state = "frozen" =>
        /\ \A i \in Items :
              db.truth[i] = Resolution(db, i)
                  \o <<IF KindOf(db, i) = "adjudicated" THEN {} ELSE ActiveLabels(db, TasksOf(i))>>
        /\ db.representative => /\ Active(db) = Tasks
                                /\ \A i \in Items : "cannot_determine" \notin Said(db, i)

(* Whoever was shown protected labels and payloads is checked again at the *)
(* freeze: no reader of a sealed batch had developed an evaluator by then, *)
(* however the reading, the exposure and the freeze overlapped.  "By then" *)
(* is the freeze's snapshot: exposures are written without the batch lock. *)
SealedStep ==
    \A c \in Commands :
       (/\ Sealed /\ Doing(c, "freeze") /\ tx'[c].do = "none"
        /\ db.state # "frozen" /\ db'.state = "frozen")
       => readers \cap tx[c].snap.developed = {}
SealedReadersAreSeparate == [][SealedStep]_vars

(* The decision record: submitted, deferred and expired are terminal once  *)
(* labeling closes, and the closure names exactly the active labels.  Not  *)
(* what the code does: a closure that waits for the batch lock decides on  *)
(* a snapshot older than the withdrawal or resumption it waited for.       *)
TerminalOnceClosed ==
    db.state \in AfterBarrier =>
        /\ Pending(db) = {}
        /\ db.closure.labels = ActiveLabels(db, Tasks)
=============================================================================

--------------------------- MODULE AnalysisStudy ---------------------------
(***************************************************************************)
(* One analysis study: its items are coded and viewed until the owner or   *)
(* the frozen server deadline closes it, and the closure freezes what had  *)
(* been coded by then.                                                     *)
(*                                                                         *)
(* Source: analysis-study/repository.pg.ts, repository.pg-support.ts,      *)
(* lib/analysis-study.ts and the analysis_study guards and projections of  *)
(* the baseline migration.                                                 *)
(*                                                                         *)
(* A command runs in several transactions.  The one that appends holds the *)
(* advisory lock of the study from its checks to its insert; the insert's  *)
(* trigger checks again against a clock that went on.  Ids of events are   *)
(* positions in the log of their item; a digest stands for its content.    *)
(***************************************************************************)
EXTENDS Naturals, Sequences, FiniteSets, SequencesExt

CONSTANTS
  Items,       \* analysis_study_items
  Requests,    \* idempotency keys: one command each
  Executions,  \* a request may be executed more than once, and at a time
  MaxTime,     \* bound: ticks of the database clock
  MaxEvents,   \* bound: events of one item
  MaxFaults    \* bound: connections that die inside a command

BoundsAssumption == MaxTime \in Nat /\ MaxEvents \in Nat /\ MaxFaults \in Nat

None == "none"
NoneAssumption == None \notin Items \cup Requests \cup Executions

VARIABLES
  now,      \* clock_timestamp(), in milliseconds
  study,    \* head of the study's events
  log,      \* analysis_study_item_events of each item
  views,    \* analysis_study_item_views of each item, by one member
  closure,  \* analysis_study_closures and its items
  req,      \* the command each key was sent with
  stored,   \* keys whose event of the study was stored
  lock,     \* execution that holds analysis_study_lock_v1
  x,        \* executions
  faults

vars == <<now, study, log, views, closure, req, stored, lock, x, faults>>

Idle == [pc |-> "idle", key |-> None, again |-> FALSE]
NoView == [at |-> 0, counts |-> FALSE, seen |-> FALSE]
NoClosure == [at |-> 0, items |-> <<>>, representative |-> FALSE]

Init ==
  /\ now = 1
  /\ study = [state |-> "draft", version |-> 0, rule |-> None, closeAt |-> 0, at |-> 0]
  /\ log = [i \in Items |-> <<>>] /\ views = [i \in Items |-> NoView]
  /\ closure = NoClosure
  /\ req = [k \in Requests |-> [kind |-> None]]
  /\ stored = {} /\ lock = None
  /\ x = [e \in Executions |-> Idle]
  /\ faults = 0

-----------------------------------------------------------------------------
(* What the log of an item says as of a time.                              *)

Undo == [failure_observed |-> "failure_withdrawn", no_failure_observed |-> "no_failure_withdrawn",
         coding_completed |-> "coding_reopened"]

Projection(i, asOf) ==
  LET evs == {n \in DOMAIN log[i] : log[i][n].at <= asOf}
      Active(type) == {n \in evs : /\ log[i][n].type = type
                                   /\ \A m \in evs : log[i][m].type = Undo[type] => log[i][m].target # n}
      seen == views[i].seen /\ views[i].counts /\ views[i].at <= asOf
  IN [version |-> Cardinality(evs), seen |-> seen,
      failures |-> Active("failure_observed"), noFailure |-> Active("no_failure_observed"),
      completion |-> Active("coding_completed"),
      state |-> IF Active("coding_completed") # {} THEN "completed"
                ELSE IF evs = {} /\ ~seen THEN "uncoded" ELSE "in_progress"]

(* The reducer of lib/analysis-study.ts, one event at a time. *)
Reopened(q) == [q EXCEPT !.completion = {}]

Apply(p, e) ==
  LET q == [p EXCEPT !.version = @ + 1, !.state = "in_progress"]
  IN CASE e.type = "failure_observed"     -> [q EXCEPT !.failures = @ \cup {q.version}]
       [] e.type = "failure_withdrawn"    -> [q EXCEPT !.failures = @ \ {e.target}]
       [] e.type = "no_failure_observed"  -> [q EXCEPT !.noFailure = {q.version}]
       [] e.type = "no_failure_withdrawn" -> [q EXCEPT !.noFailure = {}]
       [] e.type = "coding_completed"     -> [q EXCEPT !.completion = {q.version}, !.state = "completed"]
       [] e.type = "coding_reopened"      -> Reopened(q)

Reduced(i) ==
  LET seen == views[i].seen /\ views[i].counts
  IN FoldLeft(Apply,
       [version |-> 0, seen |-> seen, failures |-> {}, noFailure |-> {}, completion |-> {},
        state |-> IF seen THEN "in_progress" ELSE "uncoded"], log[i])

-----------------------------------------------------------------------------
Overdue == study.state = "coding_open" /\ study.rule = "server_deadline" /\ study.closeAt <= now

(* materializeClosure, up to the frozen deadline or up to now. *)
Materialize(at) ==
  LET items == [i \in Items |-> Projection(i, at)] IN
  /\ closure' = [at |-> at, items |-> items,
                 representative |-> \A i \in Items : items[i].state = "completed"]
  /\ study' = [study EXCEPT !.state = "coding_closed", !.version = @ + 1, !.at = now]

CloseIfDue ==
  IF Overdue THEN Materialize(study.closeAt) ELSE UNCHANGED <<closure, study>>

StudyKinds == {"coding_opened", "study_completed", "study_abandoned", "coding_closed"}
ItemKinds == DOMAIN Undo \cup {Undo[t] : t \in DOMAIN Undo}

IsStored(k) == k \in stored \/ \E i \in Items, n \in 1 .. MaxEvents : n <= Len(log[i]) /\ log[i][n].key = k

Goto(e, pc) == x' = [x EXCEPT ![e].pc = pc]
End(e) == x' = [x EXCEPT ![e] = Idle]
Release(e) == lock' = IF lock = e THEN None ELSE lock

(* A client sends what it saw: the version of the study or item, and the   *)
(* event it withdraws or reopens.                                          *)
Ask(k) ==
  /\ req[k].kind = None
  /\ \/ \E kind \in StudyKinds \ {"coding_opened"} :
          req' = [req EXCEPT ![k] = [kind |-> kind, version |-> study.version]]
     \/ \E c \in now + 1 .. MaxTime \cup {0} :
          req' = [req EXCEPT ![k] = [kind |-> "coding_opened", version |-> study.version, closeAt |-> c]]
     \/ \E i \in Items, type \in DOMAIN Undo :
          req' = [req EXCEPT ![k] = [kind |-> type, item |-> i, version |-> Len(log[i]), target |-> 0]]
     \/ \E i \in Items, n \in 1 .. MaxEvents :
          /\ n <= Len(log[i]) /\ log[i][n].type \in DOMAIN Undo
          /\ req' = [req EXCEPT ![k] = [kind |-> Undo[log[i][n].type], item |-> i, version |-> Len(log[i]), target |-> n]]
     \/ \E i \in Items : req' = [req EXCEPT ![k] = [kind |-> "view", item |-> i]]
  /\ UNCHANGED <<now, study, log, views, closure, stored, lock, x, faults>>

Execute(e, k) ==
  /\ x[e].pc = "idle" /\ req[k].kind # None
  /\ x' = [x EXCEPT ![e] = [Idle EXCEPT !.key = k, !.pc =
             CASE req[k].kind = "view" -> "ensure" [] req[k].kind = "coding_closed" -> "lock" [] OTHER -> "replay"]]
  /\ UNCHANGED <<now, study, log, views, closure, req, stored, lock, faults>>

(* The first transaction only looks for the event of the same key. *)
FindReplay(e) ==
  /\ x[e].pc = "replay"
  /\ IF IsStored(x[e].key) THEN End(e) ELSE Goto(e, "ensure")
  /\ UNCHANGED <<now, study, log, views, closure, req, stored, lock, faults>>

EnsureDueClosure(e) ==
  /\ x[e].pc \in {"ensure", "after"} /\ lock = None
  /\ CloseIfDue
  /\ IF x[e].pc = "ensure" THEN Goto(e, "lock") ELSE End(e)
  /\ UNCHANGED <<now, log, views, req, stored, lock, faults>>

(* The pass of the deadline closer over this study. *)
CloseDueStudies ==
  /\ Overdue /\ lock = None
  /\ CloseIfDue
  /\ UNCHANGED <<now, log, views, req, stored, lock, x, faults>>

(* The checks of the appending transaction, under the lock. *)
Acceptable(r) ==
  CASE r.kind = "view" -> TRUE
    [] r.kind = "coding_closed" -> r.version = study.version /\ study.state = "coding_open" /\ study.rule = "explicit_owner_close"
    [] r.kind \in StudyKinds \ {"coding_closed"} -> r.version = study.version
    [] OTHER -> study.state = "coding_open" /\ r.version = Len(log[r.item])

LockUnreplayed(e) ==    \* Faulty variant: the key is not looked up again under the lock
  /\ x[e].pc = "lock" /\ lock = None
  /\ IF Overdue /\ req[x[e].key].kind # "view" THEN CloseIfDue /\ Goto(e, "refused") /\ UNCHANGED lock
     ELSE /\ CloseIfDue
          /\ IF Acceptable(req[x[e].key]) THEN Goto(e, "insert") /\ lock' = e ELSE Goto(e, "after") /\ UNCHANGED lock
  /\ UNCHANGED <<now, log, views, req, stored, faults>>
Lock(e) ==
  /\ x[e].pc = "lock" /\ lock = None
  /\ \/ /\ IsStored(x[e].key)
        /\ End(e) /\ UNCHANGED <<closure, study, lock>>
     \/ /\ ~IsStored(x[e].key)
        /\ CloseIfDue
        /\ IF Overdue /\ req[x[e].key].kind # "view" THEN Goto(e, "refused") /\ UNCHANGED lock
           ELSE IF Acceptable(req[x[e].key]) THEN Goto(e, "insert") /\ lock' = e
           ELSE Goto(e, "after") /\ UNCHANGED lock
  /\ UNCHANGED <<now, log, views, req, stored, faults>>

(* The owner was told that the deadline came first; the closure is kept. *)
TellRefused(e) ==
  /\ x[e].pc = "refused"
  /\ End(e)
  /\ UNCHANGED <<now, study, log, views, closure, req, stored, lock, faults>>

(* A trigger raised: the transaction is rolled back. *)
Raise(e) == Goto(e, "after") /\ UNCHANGED <<study, closure, stored>>

StudyStepAnyTime(r) ==    \* Faulty variant: the trigger does not look at the clock
  CASE r.kind = "coding_opened" -> study.state = "draft"
    [] r.kind = "study_abandoned" -> study.state \in {"draft", "coding_open"}
    [] r.kind = "study_completed" -> study.state = "coding_closed"
    [] OTHER -> study.state = "coding_open"
StudyStep(r) ==
  CASE r.kind = "coding_opened" -> study.state = "draft" /\ (r.closeAt = 0 \/ r.closeAt > now)
    [] r.kind = "study_abandoned" -> study.state = "draft" \/ (study.state = "coding_open" /\ ~Overdue)
    [] r.kind = "study_completed" -> study.state = "coding_closed"
    [] OTHER -> study.state = "coding_open"

NewState == [coding_opened |-> "coding_open", study_abandoned |-> "abandoned", study_completed |-> "completed"]

InsertStudyEvent(e) ==
  LET r == req[x[e].key] IN
  /\ x[e].pc = "insert" /\ r.kind \in StudyKinds
  /\ Release(e)
  /\ IF ~StudyStep(r) THEN Raise(e)
     ELSE /\ End(e) /\ stored' = stored \cup {x[e].key}
          /\ IF r.kind = "coding_closed" THEN Materialize(now)
             ELSE /\ study' = [study EXCEPT !.state = NewState[r.kind], !.version = @ + 1, !.at = now,
                                 !.rule = IF r.kind # "coding_opened" THEN @
                                          ELSE IF r.closeAt = 0 THEN "explicit_owner_close" ELSE "server_deadline",
                                 !.closeAt = IF r.kind = "coding_opened" THEN r.closeAt ELSE @]
                  /\ UNCHANGED closure
  /\ UNCHANGED <<now, log, views, req, faults>>

(* guard_analysis_study_item_event *)
CodableInTime(i, r) ==    \* Faulty variant: the evidence of the item is not looked at
  study.state = "coding_open" /\ ~Overdue /\ r.version = Len(log[i])
Codable(i, r) ==
  LET p == Projection(i, now) IN
  /\ study.state = "coding_open" /\ ~Overdue
  /\ r.version = Len(log[i])
  /\ p.completion # {} => r.kind = "coding_reopened"
  /\ CASE r.kind = "failure_observed" -> p.noFailure = {}
       [] r.kind = "failure_withdrawn" -> r.target \in p.failures
       [] r.kind = "no_failure_observed" -> p.failures = {} /\ p.noFailure = {}
       [] r.kind = "no_failure_withdrawn" -> r.target \in p.noFailure
       [] r.kind = "coding_completed" -> p.failures # {} \/ p.noFailure # {}
       [] r.kind = "coding_reopened" -> r.target \in p.completion

AppendStudyItemEventLate(e) ==    \* Faulty variant: only the state under the lock counts
  LET r == req[x[e].key] IN
  /\ x[e].pc = "insert" /\ r.kind \in ItemKinds
  /\ Release(e) /\ End(e)
  /\ log' = [log EXCEPT ![r.item] = Append(@, [type |-> r.kind, target |-> r.target, at |-> now, key |-> x[e].key])]
  /\ UNCHANGED <<now, study, views, closure, req, stored, faults>>
AppendStudyItemEvent(e) ==
  LET r == req[x[e].key] IN
  /\ x[e].pc = "insert" /\ r.kind \in ItemKinds
  /\ Release(e)
  /\ IF Codable(r.item, r)
     THEN /\ Len(log[r.item]) < MaxEvents
          /\ log' = [log EXCEPT ![r.item] = Append(@, [type |-> r.kind, target |-> r.target, at |-> now, key |-> x[e].key])]
          /\ End(e) /\ UNCHANGED <<study, closure, stored>>
     ELSE Raise(e) /\ UNCHANGED log
  /\ UNCHANGED <<now, views, req, faults>>

(* A refused view is tried once more after the deadline was looked at. *)
GetStudyItemContent(e) ==
  LET r == req[x[e].key] IN
  /\ x[e].pc = "insert" /\ r.kind = "view"
  /\ Release(e)
  /\ IF study.state \in {"draft", "abandoned"} \/ Overdue
     THEN /\ x' = [x EXCEPT ![e] = IF x[e].again THEN Idle ELSE [x[e] EXCEPT !.pc = "ensure", !.again = TRUE]]
          /\ UNCHANGED views
     ELSE /\ views' = [views EXCEPT ![r.item] = IF @.seen THEN @
                         ELSE [at |-> now, counts |-> study.state = "coding_open", seen |-> TRUE]]
          /\ End(e)
  /\ UNCHANGED <<now, study, log, closure, req, stored, faults>>

Tick == now < MaxTime /\ now' = now + 1 /\ UNCHANGED <<study, log, views, closure, req, stored, lock, x, faults>>

(* A connection dies: its transaction is rolled back, its lock released. *)
Fault(e) ==
  /\ faults < MaxFaults /\ faults' = faults + 1
  /\ x[e].pc # "idle"
  /\ End(e) /\ Release(e)
  /\ UNCHANGED <<now, study, log, views, closure, req, stored>>

Next ==
  \/ Tick \/ CloseDueStudies
  \/ \E k \in Requests : Ask(k) \/ \E e \in Executions : Execute(e, k)
  \/ \E e \in Executions :
       \/ FindReplay(e) \/ EnsureDueClosure(e) \/ Lock(e) \/ TellRefused(e)
       \/ InsertStudyEvent(e) \/ AppendStudyItemEvent(e) \/ GetStudyItemContent(e) \/ Fault(e)

Spec == Init /\ [][Next]_vars

-----------------------------------------------------------------------------
(* Every variable keeps its type; only an execution about to insert holds  *)
(* the lock, and a closure exists from the close on.                       *)
TypeOK ==
  /\ study.state \in {"draft", "coding_open", "coding_closed", "completed", "abandoned"}
  /\ \A i \in Items : \A n \in DOMAIN log[i] : log[i][n].type \in ItemKinds /\ log[i][n].at \in 1 .. now
  /\ \A e \in Executions : (lock = e) <=> (x[e].pc = "insert")
  /\ (study.state \in {"coding_closed", "completed"}) <=> (closure # NoClosure)

(* The closure is the coding of the study, then and for ever: nothing that *)
(* was coded or counted is missing from it, and nothing comes later.       *)
ClosureIsTheCoding ==
  closure # NoClosure => \A i \in Items : closure.items[i] = Projection(i, now)

(* No failure stands beside a no-failure, and a completed item rests on    *)
(* one of the two; a study is representative only with all items completed.*)
CompletionHasEvidence ==
  /\ \A i \in Items : LET p == Projection(i, now) IN
       /\ p.failures = {} \/ p.noFailure = {}
       /\ p.state = "completed" => p.failures # {} \/ p.noFailure # {}
  /\ closure.representative => \A i \in Items : Projection(i, now).state = "completed"

(* The projection the database computes from a whole log is the one the    *)
(* reducer of lib/analysis-study.ts reaches event by event.                *)
ReducerAgrees == \A i \in Items : Reduced(i) = Projection(i, now)

(* A study with a deadline is abandoned only before the deadline.          *)
AbandonedInTime ==
  study.state = "abandoned" /\ study.rule = "server_deadline" => study.at < study.closeAt

(* A command whose event is stored is never answered with a conflict.      *)
RefusalStep ==
  \A e \in Executions :
    x[e].pc \in {"lock", "insert"} /\ x'[e].pc \in {"after", "refused"} => ~IsStored(x[e].key)
RepeatIsNotRefused == [][RefusalStep]_vars
=============================================================================

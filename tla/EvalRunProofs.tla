---------------------------- MODULE EvalRunProofs ----------------------------
(***************************************************************************)
(* Theorems about EvalRun for every set of items, handlers and sweepers    *)
(* and every bound, and that it implements EvalRunLedger.                  *)
(***************************************************************************)
EXTENDS EvalRun, FiniteSetTheorems, TLAPS

-----------------------------------------------------------------------------
(* The inductive invariant, in four parts: the types, the claims, the      *)
(* calls and the book.                                                     *)

ItemsTyped == item \in [Items -> Item]

HandlersTyped ==
    /\ h \in [Handlers -> Handler]
    /\ \A w \in Handlers :
          /\ h[w].pc # "idle" => h[w].item \in Items
          /\ h[w].pc \in {"fail", "failThrow"} =>
                h[w].cause \in {"refused", "failure", "outcome_unknown", "not_attempted"}

SweepersTyped ==
    /\ s \in [Sweepers -> Sweeper]
    /\ \A p \in Sweepers :
          /\ s[p].pc # "idle" => s[p].item \in Items
          /\ s[p].pc = "fail" => s[p].cause \in {"outcome_unknown", "not_attempted"}

QueueTyped ==
    /\ runJob \in Job
    /\ job \in [Items -> Job]
    /\ request \in {"new", "armed", "done"}
    /\ fan \in [pc : {"idle", "arm", "list", "send"}, todo : SUBSET Items]
    /\ faults \in 0 .. MaxFaults

RunTyped == run \in [status : Open \cup {"completed", "failed"}, completed : Nat, failed : Nat]

Typed == ItemsTyped /\ HandlersTyped /\ SweepersTyped /\ QueueTyped /\ RunTyped

\* A started call belongs to a claim, and neither survives the outcome.
StartedIsHeld == \A i \in Items : item[i].started => item[i].held /\ item[i].status = "pending"

\* A handler between the start of a call and the record of what came of it.
Calling(r) ==
    \/ r.pc \in {"call", "await", "mark", "complete"}
    \/ r.pc \in {"error", "fail", "failThrow"} /\ r.cause \in {"refused", "failure"}

\* One whose request has not left.
Unsent(r) == r.pc = "call" \/ (r.pc \in {"error", "fail", "failThrow"} /\ r.cause = "refused")

\* A call leaves once: its marker stands on the item until the outcome does,
\* so that nobody else starts one.
CallersAreMarked == \A w \in Handlers :
    Calling(h[w]) => /\ item[h[w].item].status = "pending" => item[h[w].item].started
                     /\ calls[h[w].item] = IF Unsent(h[w]) THEN 0 ELSE 1
OneCaller == \A w, u \in Handlers : Calling(h[w]) /\ Calling(h[u]) /\ h[w].item = h[u].item => w = u
CallsAreMarked ==
    /\ calls \in [Items -> {0, 1}]
    /\ \A i \in Items : calls[i] = 1 /\ item[i].status = "pending" => item[i].started

OutcomesAreTruthful == \A i \in Items :
    /\ item[i].outcome = "not_attempted" =>
          calls[i] = 0 /\ \A w \in Handlers : h[w].pc = "call" => h[w].item # i
    /\ item[i].outcome \in {"verdict", "failure"} => calls[i] = 1

CallsHold == StartedIsHeld /\ CallersAreMarked /\ OneCaller /\ CallsAreMarked /\ OutcomesAreTruthful

\* What is recorded of the items, and what is counted of them.
OutcomeIsTheStatus == \A i \in Items :
    /\ item[i].status = "pending" <=> item[i].outcome = "none"
    /\ item[i].status = "completed" <=> item[i].outcome = "verdict"
Book == OutcomeIsTheStatus /\ CountersAreExact /\ ReceiptIsTheRun

IInv == Typed /\ CallsHold /\ Book
-----------------------------------------------------------------------------
(* The types.                                                              *)

LEMMA InitTyped == Init => Typed
BY NullsAssumption, BoundsAssumption
DEF Init, Typed, ItemsTyped, HandlersTyped, SweepersTyped, QueueTyped, RunTyped, Item, NewItem, Handler,
    IdleHandler, Sweeper, IdleSweeper, Job, NoJob, Live, Ended, Open, Outcomes, Causes

\* An item moves to a row of its type.
LEMMA ItemMoves ==
    ASSUME NEW i \in Items, NEW r \in Item, ItemsTyped, item' = [item EXCEPT ![i] = r]
    PROVE  ItemsTyped'
BY DEF ItemsTyped

LEMMA ClaimedTyped == ASSUME NEW i \in Items, ItemsTyped PROVE Claimed(i) \in Item
<1>1. item[i] \in Item
  BY DEF ItemsTyped
<1>2. item[i].claims + 1 \in Nat
  BY <1>1 DEF Item
<1> QED BY <1>1, <1>2 DEF Claimed, Item

LEMMA FreedTyped == ASSUME NEW i \in Items, ItemsTyped PROVE Freed(i) \in Item
BY DEF Freed, ItemsTyped, Item

LEMMA ArmedTyped == ASSUME ItemsTyped, item' = Armed PROVE ItemsTyped'
BY DEF Armed, ItemsTyped, Item

\* A transaction that settles an item leaves the rows typed.
LEMMA SettleTyped ==
    ASSUME NEW i \in Items, NEW status \in {"completed", "failed"}, NEW outcome \in Outcomes,
           ItemsTyped, RunTyped, Settle(i, status, outcome)
    PROVE  ItemsTyped' /\ RunTyped'
<1>1. [NewItem EXCEPT !.status = status, !.outcome = outcome, !.claims = item[i].claims] \in Item
  BY DEF NewItem, Item, ItemsTyped
<1>2. ItemsTyped'
  BY <1>1, ItemMoves DEF Settle
<1>3. RunTyped'
  BY DEF Settle, RunTyped, Open
<1> QED BY <1>2, <1>3

\* The end of a job, either way.
LEMMA JobTyped ==
    ASSUME NEW j \in Job
    PROVE  /\ AfterFailure(j) \in Job
           /\ [j EXCEPT !.state = "completed", !.by = NoHandler] \in Job
BY DEF AfterFailure, Job, Live, Ended

LEMMA JobEndsTyped ==
    ASSUME NEW w \in Handlers, HandlersTyped, QueueTyped, h[w].pc # "idle", Returns(w) \/ Throws(w)
    PROVE  HandlersTyped' /\ job' \in [Items -> Job]
<1>1. h[w].item \in Items /\ IdleHandler \in Handler /\ IdleHandler.pc = "idle"
  BY DEF HandlersTyped, IdleHandler, Handler, Causes
<1>2. h' = [h EXCEPT ![w] = IdleHandler]
  BY DEF Returns, Throws, JobEnds
<1>3. job' \in [Items -> Job]
  <2> DEFINE i == h[w].item
  <2>1. i \in Items /\ job \in [Items -> Job]
    BY <1>1 DEF QueueTyped
  <2>2. AfterFailure(job[i]) \in Job /\ [job[i] EXCEPT !.state = "completed", !.by = NoHandler] \in Job
    BY <2>1, JobTyped
  <2>3. \/ job' = job
        \/ job' = [job EXCEPT ![i] = AfterFailure(job[i])]
        \/ job' = [job EXCEPT ![i] = [job[i] EXCEPT !.state = "completed", !.by = NoHandler]]
    BY DEF Returns, Throws, JobEnds
  <2> HIDE DEF i
  <2> QED BY <2>1, <2>2, <2>3
<1>4. HandlersTyped'
  BY <1>1, <1>2 DEF HandlersTyped
<1> QED BY <1>3, <1>4

\* The handler of a step turns to another statement, about the same item.
LEMMA HandlerTurns ==
    ASSUME NEW w \in Handlers, HandlersTyped, h[w].pc # "idle",
           NEW pc \in {"inspect", "unknown", "await", "mark", "error", "fail", "failThrow"},
           NEW cause \in Causes, NEW claim \in Nat,
           pc \in {"fail", "failThrow"} => cause \in {"refused", "failure", "outcome_unknown", "not_attempted"},
           \/ h' = [h EXCEPT ![w].pc = pc, ![w].cause = cause]
           \/ h' = [h EXCEPT ![w].pc = pc] /\ pc \in {"await", "mark"}
           \/ h' = [h EXCEPT ![w].pc = pc, ![w].claim = claim] /\ pc = "unknown"
           \/ h' = [h EXCEPT ![w].pc = pc, ![w].cause = cause, ![w].claim = claim]
    PROVE  HandlersTyped'
<1>1. h \in [Handlers -> Handler] /\ h[w] \in Handler /\ h[w].item \in Items
  BY DEF HandlersTyped
<1>2. pc \in {"inspect", "unknown", "await", "mark", "error", "fail", "failThrow"}
  OBVIOUS
<1>3. /\ h' \in [Handlers -> Handler]
      /\ \A u \in Handlers \ {w} : h'[u] = h[u]
      /\ h'[w].item = h[w].item
      /\ h'[w].pc = pc
      /\ h'[w].cause = cause \/ pc \in {"await", "mark", "unknown"}
  <2>0. CASE h' = [h EXCEPT ![w].pc = pc] /\ pc \in {"await", "mark"}
    BY <1>1, <2>0 DEF Handler
  <2>1. CASE h' = [h EXCEPT ![w].pc = pc, ![w].cause = cause]
    BY <1>1, <2>1 DEF Handler
  <2>2. CASE h' = [h EXCEPT ![w].pc = pc, ![w].claim = claim] /\ pc = "unknown"
    BY <1>1, <2>2 DEF Handler
  <2>3. CASE h' = [h EXCEPT ![w].pc = pc, ![w].cause = cause, ![w].claim = claim]
    BY <1>1, <2>3 DEF Handler
  <2> QED BY <2>0, <2>1, <2>2, <2>3
<1> QED BY <1>1, <1>3 DEF HandlersTyped

LEMMA ProceedTyped ==
    ASSUME NEW w \in Handlers, HandlersTyped, QueueTyped, h[w].pc # "idle",
           NEW pc \in {"begin", "call", "complete"}, NEW claim \in Nat, Proceed(w, pc, claim)
    PROVE  HandlersTyped' /\ faults' \in 0 .. MaxFaults
<1>1. HandlersTyped'
  BY DEF Proceed, HandlersTyped, Handler, Causes
<1>2. faults' \in 0 .. MaxFaults
  BY BoundsAssumption DEF Proceed, Fault, QueueTyped
<1> QED BY <1>1, <1>2
LEMMA FaultTyped == QueueTyped /\ (Fault \/ UNCHANGED faults) => faults' \in 0 .. MaxFaults
BY BoundsAssumption DEF QueueTyped, Fault

\* Dispatch and fan-out keep the types.
LEMMA FanOutTyped ==
    ASSUME Typed, ArmDelivery \/ SendRun \/ FanOutStep \/ FanOutFails
    PROVE  Typed'
<1> USE DEF Typed
<1>1. CASE ArmDelivery
  BY <1>1, ArmedTyped DEF ArmDelivery, HandlersTyped, SweepersTyped, QueueTyped, RunTyped
<1>2. CASE SendRun
  BY <1>2, BoundsAssumption
  DEF SendRun, Created, NoJob, Job, Live, Fault, ItemsTyped, HandlersTyped, SweepersTyped, QueueTyped, RunTyped
<1>3. CASE FanOutStarts
  <2>1. runJob \in Job /\ runJob.retries + 1 \in Nat
    BY DEF QueueTyped, Job
  <2>2. runJob' \in Job
    BY <1>3, <2>1 DEF FanOutStarts, Job, Live, Ended
  <2>3. fan' \in [pc : {"idle", "arm", "list", "send"}, todo : SUBSET Items] /\ RunTyped'
    BY <1>3 DEF FanOutStarts, QueueTyped, RunTyped, Open
  <2> QED BY <1>3, <2>2, <2>3 DEF FanOutStarts, ItemsTyped, HandlersTyped, SweepersTyped, QueueTyped
<1>4. CASE FanOutArms
  BY <1>4, ArmedTyped DEF FanOutArms, HandlersTyped, SweepersTyped, QueueTyped, RunTyped
<1>5. CASE FanOutLists
  BY <1>5 DEF FanOutLists, ItemsTyped, HandlersTyped, SweepersTyped, QueueTyped, RunTyped
<1>6. CASE FanOutEnds
  BY <1>6 DEF FanOutEnds, Job, Ended, ItemsTyped, HandlersTyped, SweepersTyped, QueueTyped, RunTyped
<1>7. ASSUME NEW i \in Items, FanOutSends(i) PROVE Typed'
  BY <1>7
  DEF FanOutSends, Sent, Created, NoJob, Job, Live, ItemsTyped, HandlersTyped, SweepersTyped, QueueTyped, RunTyped
<1>8. CASE FanOutFails
  <2>1. AfterFailure(runJob) \in Job
    BY JobTyped DEF QueueTyped
  <2>2. faults' \in 0 .. MaxFaults
    BY <1>8, FaultTyped DEF FanOutFails
  <2> QED BY <1>8, <2>1, <2>2 DEF FanOutFails, ItemsTyped, HandlersTyped, SweepersTyped, QueueTyped, RunTyped
<1> QED BY <1>1, <1>2, <1>3, <1>4, <1>5, <1>6, <1>7, <1>8 DEF FanOutStep

\* The queue and the clock keep the types.
LEMMA AroundTyped ==
    ASSUME NEW i \in Items, Typed, JobExpires(i) \/ ClaimAges(i) \/ DeadlinePasses(i) \/ JobForgotten(i)
    PROVE  Typed'
<1> USE DEF Typed
<1>1. CASE JobExpires(i)
  <2>1. AfterFailure(job[i]) \in Job
    BY JobTyped DEF QueueTyped
  <2>2. faults' \in 0 .. MaxFaults
    BY <1>1, FaultTyped DEF JobExpires
  <2> QED BY <1>1, <2>1, <2>2 DEF JobExpires, ItemsTyped, HandlersTyped, SweepersTyped, QueueTyped, RunTyped
<1>2. CASE ClaimAges(i)
  <2>1. ItemsTyped'
    BY ZenonT(40), <1>2 DEF ClaimAges, Item, ItemsTyped
  <2>2. faults' \in 0 .. MaxFaults
    BY <1>2, FaultTyped DEF ClaimAges
  <2> QED BY <1>2, <2>1, <2>2 DEF ClaimAges, HandlersTyped, SweepersTyped, QueueTyped, RunTyped
<1>3. CASE DeadlinePasses(i)
  BY SMTT(90), <1>3 DEF DeadlinePasses, Item, ItemsTyped, HandlersTyped, SweepersTyped, QueueTyped, RunTyped
<1>4. CASE JobForgotten(i)
  BY <1>4, BoundsAssumption
  DEF JobForgotten, Fault, NoJob, Job, ItemsTyped, HandlersTyped, SweepersTyped, QueueTyped, RunTyped
<1> QED BY <1>1, <1>2, <1>3, <1>4

\* A delivery hands a typed job to an idle handler.
LEMMA DeliverTyped ==
    ASSUME NEW w \in Handlers, NEW i \in Items, Typed, Deliver(w, i)
    PROVE  Typed'
<1> USE DEF Typed
<1>1. job' \in [Items -> Job]
  <2>1. job[i].retries \in Nat
    BY DEF QueueTyped, Job
  <2> QED BY <2>1 DEF Deliver, QueueTyped, Job, Live
<1>2. HandlersTyped'
  <2> DEFINE last == job[i].retries + (IF job[i].state = "retry" THEN 1 ELSE 0) >= RetryLimit
             v    == [IdleHandler EXCEPT !.pc = "claim", !.item = i, !.last = last]
  <2>2. h' = [h EXCEPT ![w] = v]
    BY DEF Deliver
  <2>3. last \in BOOLEAN
    OBVIOUS
  <2> HIDE DEF last
  <2>1. v \in Handler /\ v.pc = "claim" /\ v.item = i
    BY <2>3 DEF IdleHandler, Handler, Causes
  <2> HIDE DEF v
  <2> QED BY <2>1, <2>2 DEF HandlersTyped
<1> QED BY <1>1, <1>2 DEF Deliver, ItemsTyped, SweepersTyped, QueueTyped, RunTyped

\* The statements of a handler keep the types.
LEMMA HandlerTyped ==
    ASSUME NEW w \in Handlers, Typed, HandlerStep(w) \/ RepositoryFails(w) \/ Crash(w)
    PROVE  Typed'
<1> USE DEF Typed
<1> DEFINE i == h[w].item
<1>a. ASSUME h[w].pc # "idle" PROVE i \in Items /\ h[w] \in Handler /\ item[i] \in Item
  BY <1>a DEF HandlersTyped, ItemsTyped
<1>1. CASE Claim(w)
  <2>1. i \in Items /\ item[i].claims + 1 \in Nat
    BY <1>1, <1>a DEF Claim, Item
  <2>2. ItemsTyped'
    BY <1>1, <2>1, ClaimedTyped, ItemMoves DEF Claim, ItemsTyped
  <2>3. HandlersTyped' /\ faults' \in 0 .. MaxFaults
    <3>1. CASE Proceed(w, "begin", item[i].claims + 1)
      BY <1>1, <2>1, <3>1, ProceedTyped DEF Claim
    <3>2. CASE h' = [h EXCEPT ![w].pc = "inspect"] /\ UNCHANGED faults
      BY <3>2, <1>1 DEF Claim, HandlersTyped, Handler, QueueTyped
    <3> QED BY <1>1, <3>1, <3>2 DEF Claim
  <2> QED BY <1>1, <2>2, <2>3 DEF Claim, SweepersTyped, QueueTyped, RunTyped
<1>2. CASE Inspect(w)
  <2>1. i \in Items /\ item[i].claims \in Nat
    BY <1>2, <1>a DEF Inspect, Item
  <2>2. HandlersTyped' /\ job' \in [Items -> Job]
    <3>1. CASE Returns(w)
      BY <1>2, <3>1, JobEndsTyped DEF Inspect
    <3>2. CASE h' = [h EXCEPT ![w].pc = "unknown", ![w].claim = item[i].claims] /\ UNCHANGED job
      BY ZenonT(40), <1>2, <3>2, <2>1, HandlerTurns DEF Inspect, Causes, QueueTyped
    <3> QED BY <1>2, <3>1, <3>2 DEF Inspect
  <2> QED BY <1>2, <2>2 DEF Inspect, ItemsTyped, SweepersTyped, QueueTyped, RunTyped
<1>3. CASE FailInterrupted(w)
  <2>1. i \in Items
    BY <1>3, <1>a DEF FailInterrupted
  <2>2. ItemsTyped' /\ RunTyped'
    BY <1>3, <2>1, SettleTyped DEF FailInterrupted, ItemsTyped, RunTyped, Outcomes
  <2>3. HandlersTyped' /\ job' \in [Items -> Job]
    BY <1>3, JobEndsTyped DEF FailInterrupted
  <2> QED BY <1>3, <2>2, <2>3 DEF FailInterrupted, SweepersTyped, QueueTyped
<1>4. CASE PreparationFails(w)
  <2>1. HandlersTyped'
    BY ZenonT(40), <1>4, HandlerTurns DEF PreparationFails, Causes
  <2> QED BY <1>4, <2>1 DEF PreparationFails, ItemsTyped, SweepersTyped, QueueTyped, RunTyped
<1>5. CASE BeginProviderCall(w)
  <2>1. i \in Items /\ h[w] \in Handler
    BY <1>5, <1>a DEF BeginProviderCall
  <2>2. ItemsTyped'
    <3>1. [item[i] EXCEPT !.started = TRUE] \in Item
      <4>1. item[i] \in Item
        BY <2>1 DEF ItemsTyped
      <4>2. \A entry \in Item : [entry EXCEPT !.started = TRUE] \in Item
        BY DEF Item
      <4> QED BY <4>1, <4>2
    <3>2. item' = [item EXCEPT ![i] = [item[i] EXCEPT !.started = TRUE]] \/ item' = item
      BY <1>5, <2>1 DEF BeginProviderCall
    <3> QED BY <2>1, <3>1, <3>2 DEF ItemsTyped
  <2>3. HandlersTyped' /\ faults' \in 0 .. MaxFaults
    <3>1. CASE Proceed(w, "call", h[w].claim)
      BY <1>5, <2>1, <3>1, ProceedTyped DEF BeginProviderCall, Handler
    <3>2. CASE h' = [h EXCEPT ![w].pc = "error", ![w].cause = "transient"] /\ UNCHANGED faults
      BY <3>2, <1>5, HandlerTurns DEF BeginProviderCall, Causes, QueueTyped
    <3> QED BY <1>5, <3>1, <3>2 DEF BeginProviderCall
  <2> QED BY <1>5, <2>2, <2>3 DEF BeginProviderCall, SweepersTyped, QueueTyped, RunTyped
<1>6. CASE ProviderCall(w)
  <2>1. HandlersTyped'
    <3>1. h[w].claim \in Nat /\ "none" \in Causes /\ "refused" \in Causes
      BY <1>6, <1>a DEF ProviderCall, Handler, Causes
    <3>2. \/ h' = [h EXCEPT ![w].pc = "await"]
          \/ h' = [h EXCEPT ![w].pc = "error", ![w].cause = "refused"]
      BY <1>6 DEF ProviderCall
    <3> QED BY <1>6, <3>1, <3>2, HandlerTurns DEF ProviderCall
  <2> QED BY <1>6, <2>1 DEF ProviderCall, ItemsTyped, SweepersTyped, QueueTyped, RunTyped
<1>7. CASE ProviderAnswers(w)
  <2>1. HandlersTyped'
    <3>1. h[w].claim \in Nat /\ {"none", "failure", "transient"} \subseteq Causes
      BY <1>7, <1>a DEF ProviderAnswers, Handler, Causes
    <3>2. \/ h' = [h EXCEPT ![w].pc = "mark"]
          \/ \E cause \in {"failure", "transient"} : h' = [h EXCEPT ![w].pc = "error", ![w].cause = cause]
      BY <1>7 DEF ProviderAnswers
    <3> QED BY ZenonT(40), <1>7, <3>1, <3>2, HandlerTurns DEF ProviderAnswers
  <2> QED BY <1>7, <2>1 DEF ProviderAnswers, ItemsTyped, SweepersTyped, QueueTyped, RunTyped
<1>8. CASE MarkReturned(w)
  <2>1. i \in Items /\ h[w] \in Handler
    BY <1>8, <1>a DEF MarkReturned
  <2>2. ItemsTyped'
    <3>1. item' = item \/ item' = [item EXCEPT ![i].returned = TRUE]
      BY <1>8 DEF MarkReturned
    <3>2. [item[i] EXCEPT !.returned = TRUE] \in Item
      BY <1>8, <1>a DEF MarkReturned, Item
    <3> HIDE DEF i
    <3> QED BY <2>1, <3>1, <3>2, ItemMoves DEF ItemsTyped
  <2>3. HandlersTyped' /\ faults' \in 0 .. MaxFaults
    <3>1. CASE Proceed(w, "complete", h[w].claim)
      BY <1>8, <2>1, <3>1, ProceedTyped DEF MarkReturned, Handler
    <3>2. CASE h' = [h EXCEPT ![w].pc = "error", ![w].cause = "transient"] /\ UNCHANGED faults
      BY <3>2, <1>8, HandlerTurns DEF MarkReturned, Causes, QueueTyped
    <3> QED BY <1>8, <3>1, <3>2 DEF MarkReturned
  <2> QED BY <1>8, <2>2, <2>3 DEF MarkReturned, SweepersTyped, QueueTyped, RunTyped
<1>9. CASE Complete(w)
  <2>1. i \in Items
    BY <1>9, <1>a DEF Complete
  <2>2. ItemsTyped' /\ RunTyped'
    BY <1>9, <2>1, SettleTyped DEF Complete, ItemsTyped, RunTyped, Outcomes
  <2>3. HandlersTyped' /\ job' \in [Items -> Job] /\ faults' \in 0 .. MaxFaults
    <3>1. CASE Returns(w) /\ UNCHANGED faults
      BY <1>9, <3>1, JobEndsTyped DEF Complete, QueueTyped
    <3>2. CASE h' = [h EXCEPT ![w].pc = "error", ![w].cause = "transient"] /\ Fault /\ UNCHANGED job
      BY <3>2, <1>9, HandlerTurns, FaultTyped DEF Complete, Causes, QueueTyped
    <3> QED BY <1>9, <3>1, <3>2 DEF Complete
  <2> QED BY <1>9, <2>2, <2>3 DEF Complete, SweepersTyped, QueueTyped
<1>10. CASE HandleError(w)
  <2>1. i \in Items /\ h[w].pc = "error"
    BY <1>10, <1>a DEF HandleError
  <2>2. ItemsTyped'
    BY <1>10, <2>1, FreedTyped, ItemMoves DEF HandleError, ItemsTyped
  <2>3. HandlersTyped' /\ job' \in [Items -> Job]
    <3>1. CASE Returns(w) \/ Throws(w)
      BY <2>1, <3>1, JobEndsTyped
    <3>2. ASSUME NEW pc \in {"fail", "failThrow"},
                 NEW cause \in {"refused", "failure", "outcome_unknown", "not_attempted"},
                 h' = [h EXCEPT ![w].pc = pc, ![w].cause = cause], UNCHANGED job
          PROVE  HandlersTyped' /\ job' \in [Items -> Job]
      BY <2>1, <3>2, HandlerTurns DEF Causes, QueueTyped
    <3>3. PostDispatch(h[w].cause, item[i].returned) \in {"refused", "failure", "outcome_unknown"}
      BY DEF PostDispatch
    <3> QED BY <1>10, <3>1, <3>2, <3>3 DEF HandleError
  <2> QED BY <1>10, <2>2, <2>3 DEF HandleError, SweepersTyped, QueueTyped, RunTyped
<1>11. CASE FailItem(w)
  <2>1. i \in Items /\ h[w].pc # "idle"
    BY <1>11, <1>a DEF FailItem
  <2>2. Recorded(h[w].cause) \in Outcomes
    BY <1>11 DEF FailItem, HandlersTyped, Recorded, Outcomes
  <2>3. ItemsTyped' /\ RunTyped'
    BY <1>11, <2>1, <2>2, SettleTyped DEF FailItem, ItemsTyped, RunTyped
  <2>4. HandlersTyped' /\ job' \in [Items -> Job]
    BY <1>11, <2>1, JobEndsTyped DEF FailItem
  <2> QED BY <1>11, <2>3, <2>4 DEF FailItem, SweepersTyped, QueueTyped
<1>12. CASE RepositoryFails(w)
  <2>1. faults' \in 0 .. MaxFaults
    BY <1>12, BoundsAssumption DEF RepositoryFails, Fault, QueueTyped
  <2>2. HandlersTyped' /\ job' \in [Items -> Job]
    <3>1. CASE h[w].pc \in {"error", "fail", "failThrow"} /\ Throws(w)
      BY <3>1, JobEndsTyped
    <3>2. CASE /\ h[w].pc \in {"claim", "inspect", "unknown", "begin", "mark", "complete"}
               /\ h' = [h EXCEPT ![w].pc = "error", ![w].cause = "transient",
                                 ![w].claim = IF h[w].pc = "unknown" THEN 0 ELSE @]
               /\ UNCHANGED job
      <4> DEFINE claim == IF h[w].pc = "unknown" THEN 0 ELSE h[w].claim
      <4>1. claim \in Nat /\ "transient" \in Causes
        BY <3>2, <1>a DEF Handler, Causes
      <4>2. h' = [h EXCEPT ![w].pc = "error", ![w].cause = "transient", ![w].claim = claim]
        BY <3>2, <1>a DEF HandlersTyped, Handler
      <4> HIDE DEF claim
      <4>3. HandlersTyped'
        <5>1. h[w].pc # "idle" /\ "error" \in {"inspect", "unknown", "await", "mark", "error", "fail", "failThrow"}
          BY <3>2
        <5> QED BY <4>1, <4>2, <5>1, HandlerTurns
      <4> QED BY <3>2, <4>3 DEF QueueTyped
    <3> QED BY <1>12, <3>1, <3>2 DEF RepositoryFails
  <2> QED BY <1>12, <2>1, <2>2 DEF RepositoryFails, ItemsTyped, SweepersTyped, QueueTyped, RunTyped
<1>13. CASE Crash(w)
  BY <1>13, BoundsAssumption
  DEF Crash, Fault, IdleHandler, Handler, Causes, ItemsTyped, HandlersTyped, SweepersTyped, QueueTyped, RunTyped
<1> QED BY <1>1, <1>2, <1>3, <1>4, <1>5, <1>6, <1>7, <1>8, <1>9, <1>10, <1>11, <1>12, <1>13 DEF HandlerStep
\* The statements of the sweep keep the types.
LEMMA SweepTyped ==
    ASSUME NEW p \in Sweepers, NEW i \in Items, Typed, Sweep(p, i)
    PROVE  Typed'
<1> USE DEF Typed
<1>1. item[i].claims \in Nat /\ s[p] \in Sweeper
  BY DEF ItemsTyped, Item, SweepersTyped
<1>2. SweepersTyped'
  <2> DEFINE cause == IF item[i].started \/ item[i].returned THEN "outcome_unknown" ELSE "not_attempted"
             stale == [pc |-> "fail", item |-> i, claim |-> item[i].claims, cause |-> cause]
             quiet == [IdleSweeper EXCEPT !.pc = "look", !.item = i]
  <2>1. stale \in Sweeper /\ stale.item = i /\ stale.pc = "fail"
        /\ stale.cause \in {"outcome_unknown", "not_attempted"}
    BY <1>1 DEF Sweeper, Causes
  <2>2. quiet \in Sweeper /\ quiet.item = i /\ quiet.pc = "look"
    BY DEF Sweeper, IdleSweeper, Causes
  <2>3. s' = [s EXCEPT ![p] = stale] \/ s' = [s EXCEPT ![p] = quiet]
    BY DEF Sweep
  <2> HIDE DEF stale, quiet
  <2> QED BY <2>1, <2>2, <2>3 DEF SweepersTyped
<1> QED BY <1>2 DEF Sweep, ItemsTyped, HandlersTyped, QueueTyped, RunTyped

LEMMA SweeperMovesTyped ==
    ASSUME NEW p \in Sweepers, SweepersTyped, s[p].pc # "idle",
           \/ SweeperStops(p)
           \/ \E to \in {"peek", "rearm", "resend", "send", "recover", "release"} : SweeperMoves(p, to)
           \/ s' = [s EXCEPT ![p].pc = "fail", ![p].cause = "not_attempted"]
    PROVE  SweepersTyped'
<1>1. CASE SweeperStops(p)
  BY <1>1 DEF SweeperStops, SweepersTyped, Sweeper, IdleSweeper, Causes
<1>2. CASE \E to \in {"peek", "rearm", "resend", "send", "recover", "release"} : SweeperMoves(p, to)
  BY <1>2 DEF SweeperMoves, SweepersTyped, Sweeper
<1>3. CASE s' = [s EXCEPT ![p].pc = "fail", ![p].cause = "not_attempted"]
  <2>1. s \in [Sweepers -> Sweeper] /\ s[p].item \in Items
    BY DEF SweepersTyped
  <2>2. /\ s' \in [Sweepers -> Sweeper]
        /\ \A q \in Sweepers \ {p} : s'[q] = s[q]
        /\ s'[p].item = s[p].item /\ s'[p].cause = "not_attempted"
    BY ZenonT(40), <1>3, <2>1 DEF Sweeper, Causes
  <2> QED BY <2>1, <2>2 DEF SweepersTyped
<1> QED BY <1>1, <1>2, <1>3

LEMMA SweeperTyped ==
    ASSUME NEW p \in Sweepers, Typed, SweeperStep(p) \/ SweeperDies(p)
    PROVE  Typed'
<1> USE DEF Typed
<1> DEFINE i == s[p].item
<1>a. ASSUME s[p].pc # "idle" PROVE i \in Items /\ item[i] \in Item /\ job \in [Items -> Job]
  BY <1>a DEF SweepersTyped, ItemsTyped, QueueTyped
<1>1. CASE Look(p)
  <2>1. SweepersTyped'
    BY <1>1, SweeperMovesTyped DEF Look
  <2>2. RunTyped'
    BY <1>1 DEF Look, RunTyped, Open
  <2> QED BY <1>1, <2>1, <2>2 DEF Look, ItemsTyped, HandlersTyped, QueueTyped
<1>2. CASE Peek(p)
  <2>1. SweepersTyped'
    BY <1>2, SweeperMovesTyped DEF Peek
  <2> QED BY <1>2, <2>1 DEF Peek, ItemsTyped, HandlersTyped, QueueTyped, RunTyped
<1>3. CASE Rearm(p)
  <2>1. SweepersTyped'
    BY <1>3, SweeperMovesTyped DEF Rearm
  <2>2. ItemsTyped'
    <3>1. [item[i] EXCEPT !.deadline = "armed"] \in Item
      BY <1>3, <1>a DEF Rearm, Item
    <3>2. i \in Items
      BY <1>3, <1>a DEF Rearm
    <3> QED BY <1>3, <3>1, <3>2, ItemMoves DEF Rearm, ItemsTyped
  <2> QED BY <1>3, <2>1, <2>2 DEF Rearm, HandlersTyped, QueueTyped, RunTyped
<1>4. CASE Resend(p)
  <2>1. SweepersTyped'
    BY <1>4, SweeperMovesTyped DEF Resend
  <2>2. job' \in [Items -> Job]
    BY <1>4, <1>a DEF Resend, Sent, Created, NoJob, Job, Live
  <2> QED BY <1>4, <2>1, <2>2 DEF Resend, ItemsTyped, HandlersTyped, QueueTyped, RunTyped
<1>5. CASE Recover(p)
  <2>1. i \in Items /\ item[i].claims + 1 \in Nat
    BY <1>5, <1>a DEF Recover, Item
  <2>2. ItemsTyped'
    BY <1>5, <2>1, ClaimedTyped, ItemMoves DEF Recover, ItemsTyped
  <2>3. SweepersTyped'
    <3>1. CASE SweeperStops(p)
      BY <1>5, <3>1, SweeperMovesTyped DEF Recover
    <3>2. CASE s' = [s EXCEPT ![p].pc = "confirm", ![p].claim = item[i].claims + 1]
      BY ZenonT(40), <2>1, <3>2 DEF SweepersTyped, Sweeper
    <3> QED BY <1>5, <3>1, <3>2 DEF Recover
  <2> QED BY <1>5, <2>2, <2>3 DEF Recover, HandlersTyped, QueueTyped, RunTyped
<1>6. CASE Confirm(p)
  <2>1. SweepersTyped'
    BY <1>6, SweeperMovesTyped DEF Confirm
  <2> QED BY <1>6, <2>1 DEF Confirm, ItemsTyped, HandlersTyped, QueueTyped, RunTyped
<1>7. CASE Release(p)
  <2>1. SweepersTyped'
    BY <1>7, SweeperMovesTyped DEF Release
  <2>2. ItemsTyped'
    BY <1>7, <1>a, FreedTyped, ItemMoves DEF Release, ItemsTyped
  <2> QED BY <1>7, <2>1, <2>2 DEF Release, HandlersTyped, QueueTyped, RunTyped
<1>8. CASE SweeperFailsItem(p)
  <2>1. SweepersTyped' /\ i \in Items /\ s[p].cause \in Outcomes
    BY <1>8, <1>a, SweeperMovesTyped DEF SweeperFailsItem, SweepersTyped, Outcomes
  <2>2. ItemsTyped' /\ RunTyped'
    BY <1>8, <2>1, SettleTyped DEF SweeperFailsItem, ItemsTyped, RunTyped
  <2> QED BY <1>8, <2>1, <2>2 DEF SweeperFailsItem, HandlersTyped, QueueTyped
<1>9. CASE SweeperDies(p)
  <2>1. SweepersTyped' /\ faults' \in 0 .. MaxFaults
    BY <1>9, SweeperMovesTyped, FaultTyped DEF SweeperDies
  <2> QED BY <1>9, <2>1 DEF SweeperDies, ItemsTyped, HandlersTyped, QueueTyped, RunTyped
<1> QED BY <1>1, <1>2, <1>3, <1>4, <1>5, <1>6, <1>7, <1>8, <1>9 DEF SweeperStep

LEMMA NextTyped == Typed /\ [Next]_vars => Typed'
<1> SUFFICES ASSUME Typed, [Next]_vars PROVE Typed'
  OBVIOUS
<1>1. CASE UNCHANGED vars
  BY <1>1 DEF vars, Typed, ItemsTyped, HandlersTyped, SweepersTyped, QueueTyped, RunTyped
<1>2. CASE Next
  BY <1>2, FanOutTyped, HandlerTyped, DeliverTyped, AroundTyped, SweepTyped, SweeperTyped DEF Next
<1> QED BY <1>1, <1>2

-----------------------------------------------------------------------------
(* The book: what a step may record, and what recording counts.            *)

\* A step that records nothing: statuses and outcomes stay, and the run at
\* most begins.
Quiet ==
    /\ receipt' = receipt
    /\ \A i \in Items : item'[i].status = item[i].status /\ item'[i].outcome = item[i].outcome
    /\ run.completed' = run.completed /\ run.failed' = run.failed
    /\ run.status' = run.status \/ (run.status \in Open /\ run'.status \in Open)

Settles == \E i \in Items :
    /\ Pending(i)
    /\ \/ Settle(i, "completed", "verdict")
       \/ \E o \in Outcomes \ {"verdict"} : Settle(i, "failed", o)

\* A claim, a mark, a release or a deadline records nothing.
LEMMA RowQuiet ==
    ASSUME NEW i \in Items, ItemsTyped, UNCHANGED <<run, receipt>>,
           \/ item' = [item EXCEPT ![i] = Claimed(i)]
           \/ item' = [item EXCEPT ![i] = Freed(i)]
           \/ item' = [item EXCEPT ![i].started = TRUE]
           \/ item' = [item EXCEPT ![i].returned = TRUE]
           \/ item' = [item EXCEPT ![i].aged = TRUE]
           \/ item' = [item EXCEPT ![i].deadline = "due"]
           \/ item' = [item EXCEPT ![i].deadline = "armed"]
    PROVE  Quiet
<1>1. item \in [Items -> Item] /\ item[i] \in Item
  BY DEF ItemsTyped
<1>2. /\ \A j \in Items \ {i} : item'[j] = item[j]
      /\ item'[i].status = item[i].status /\ item'[i].outcome = item[i].outcome
  <2>1. CASE item' = [item EXCEPT ![i] = Claimed(i)]
    BY <1>1, <2>1 DEF Claimed, Item
  <2>2. CASE item' = [item EXCEPT ![i] = Freed(i)]
    BY <1>1, <2>2 DEF Freed, Item
  <2>3. CASE item' = [item EXCEPT ![i].started = TRUE]
    BY <1>1, <2>3 DEF Item
  <2>4. CASE item' = [item EXCEPT ![i].returned = TRUE]
    BY <1>1, <2>4 DEF Item
  <2>5. CASE item' = [item EXCEPT ![i].aged = TRUE]
    BY <1>1, <2>5 DEF Item
  <2>6. CASE item' = [item EXCEPT ![i].deadline = "due"]
    BY <1>1, <2>6 DEF Item
  <2>7. CASE item' = [item EXCEPT ![i].deadline = "armed"]
    BY <1>1, <2>7 DEF Item
  <2> QED BY <2>1, <2>2, <2>3, <2>4, <2>5, <2>6, <2>7
<1> QED BY <1>2 DEF Quiet

LEMMA HandlerRecords ==
    ASSUME NEW w \in Handlers, Typed, HandlerStep(w) \/ RepositoryFails(w) \/ Crash(w)
    PROVE  Quiet \/ Settles
<1> DEFINE i == h[w].item
<1>a. ASSUME h[w].pc # "idle" PROVE i \in Items
  BY <1>a DEF Typed, HandlersTyped
<1>b. ItemsTyped
  BY DEF Typed
<1>c. ASSUME UNCHANGED <<item, run, receipt>> PROVE Quiet
  BY <1>c DEF Quiet
<1>1. CASE Claim(w)
  BY <1>1, <1>a, <1>b, <1>c, RowQuiet DEF Claim
<1>2. CASE Inspect(w) \/ PreparationFails(w) \/ ProviderCall(w) \/ ProviderAnswers(w)
  BY <1>2, <1>c DEF Inspect, PreparationFails, ProviderCall, ProviderAnswers
<1>3. CASE FailInterrupted(w)
  BY <1>3, <1>a, <1>c DEF FailInterrupted, CanFail, Owns, Settles, Outcomes
<1>4. CASE BeginProviderCall(w)
  BY <1>4, <1>a, <1>b, <1>c, RowQuiet DEF BeginProviderCall
<1>5. CASE MarkReturned(w)
  BY <1>5, <1>a, <1>b, <1>c, RowQuiet DEF MarkReturned
<1>6. CASE Complete(w)
  BY <1>6, <1>a, <1>c DEF Complete, Owns, Settles
<1>7. CASE HandleError(w)
  BY <1>7, <1>a, <1>b, <1>c, RowQuiet DEF HandleError
<1>8. CASE FailItem(w)
  <2>1. Recorded(h[w].cause) \in Outcomes \ {"verdict"}
    BY <1>8 DEF FailItem, Typed, HandlersTyped, Recorded, Outcomes
  <2> QED BY <1>8, <1>a, <1>c, <2>1 DEF FailItem, CanFail, Owns, Settles
<1>9. CASE RepositoryFails(w) \/ Crash(w)
  BY <1>9, <1>c DEF RepositoryFails, Crash
<1> QED BY <1>1, <1>2, <1>3, <1>4, <1>5, <1>6, <1>7, <1>8, <1>9 DEF HandlerStep

LEMMA SweeperRecords ==
    ASSUME NEW p \in Sweepers, Typed, SweeperStep(p) \/ SweeperDies(p)
    PROVE  Quiet \/ Settles
<1> DEFINE i == s[p].item
<1>a. ASSUME s[p].pc # "idle" PROVE i \in Items
  BY <1>a DEF Typed, SweepersTyped
<1>b. ItemsTyped
  BY DEF Typed
<1>c. ASSUME UNCHANGED <<item, run, receipt>> PROVE Quiet
  BY <1>c DEF Quiet
<1>1. CASE Look(p)
  BY <1>1 DEF Look, Quiet, Open, Typed, RunTyped
<1>2. CASE Peek(p) \/ Resend(p) \/ Confirm(p) \/ SweeperDies(p)
  BY <1>2, <1>c DEF Peek, Resend, Confirm, SweeperDies
<1>3. CASE Rearm(p)
  BY <1>3, <1>a, <1>b, <1>c, RowQuiet DEF Rearm
<1>4. CASE Recover(p)
  BY <1>4, <1>a, <1>b, <1>c, RowQuiet DEF Recover
<1>5. CASE Release(p)
  BY <1>5, <1>a, <1>b, <1>c, RowQuiet DEF Release
<1>6. CASE SweeperFailsItem(p)
  <2>1. s[p].cause \in Outcomes \ {"verdict"}
    BY <1>6 DEF SweeperFailsItem, Typed, SweepersTyped, Outcomes
  <2> QED BY <1>6, <1>a, <1>c, <2>1 DEF SweeperFailsItem, CanFail, Owns, Settles
<1> QED BY <1>1, <1>2, <1>3, <1>4, <1>5, <1>6 DEF SweeperStep

LEMMA StepsRecord == Typed /\ [Next]_vars => Quiet \/ Settles
<1> SUFFICES ASSUME Typed, [Next]_vars PROVE Quiet \/ Settles
  OBVIOUS
<1>a. item \in [Items -> Item]
  BY DEF Typed, ItemsTyped
<1>b. ASSUME UNCHANGED <<item, run, receipt>> PROVE Quiet
  BY <1>b DEF Quiet
<1>1. CASE ArmDelivery
  BY <1>1, <1>a DEF ArmDelivery, Armed, Quiet
<1>2. CASE FanOutArms
  BY <1>2, <1>a DEF FanOutArms, Armed, Quiet
<1>3. CASE FanOutStarts
  BY <1>3 DEF FanOutStarts, Quiet, Open, Typed, RunTyped
<1>4. CASE SendRun \/ FanOutLists \/ FanOutEnds \/ FanOutFails \/ \E i \in Items : FanOutSends(i)
  BY <1>4, <1>b DEF SendRun, FanOutLists, FanOutEnds, FanOutFails, FanOutSends
<1>5. CASE \E w \in Handlers, i \in Items : Deliver(w, i)
  BY <1>5, <1>b DEF Deliver
<1>6. CASE \E i \in Items : JobExpires(i) \/ JobForgotten(i)
  BY <1>6, <1>b DEF JobExpires, JobForgotten
<1>7. CASE \E i \in Items : ClaimAges(i) \/ DeadlinePasses(i)
  BY <1>7, RowQuiet DEF ClaimAges, DeadlinePasses, Typed
<1>8. CASE \E p \in Sweepers, i \in Items : Sweep(p, i)
  BY <1>8, <1>b DEF Sweep
<1>9. CASE UNCHANGED vars
  BY <1>9, <1>b DEF vars
<1> QED BY <1>1, <1>2, <1>3, <1>4, <1>5, <1>6, <1>7, <1>8, <1>9, HandlerRecords, SweeperRecords DEF Next, FanOutStep

\* Two disjoint parts of a finite set make it up exactly when they are as many.
LEMMA PartsCount ==
    ASSUME NEW S, IsFiniteSet(S), NEW A \in SUBSET S, NEW B \in SUBSET S, A \cap B = {}
    PROVE  /\ Cardinality(A) \in Nat /\ Cardinality(B) \in Nat
           /\ Cardinality(A) = 0 <=> A = {}
           /\ Cardinality(A) + Cardinality(B) >= Cardinality(S) <=> A \cup B = S
<1>1. IsFiniteSet(A) /\ IsFiniteSet(B) /\ A \cup B \in SUBSET S
  BY FS_Subset
<1>2. Cardinality(A) \in Nat /\ Cardinality(B) \in Nat /\ Cardinality(S) \in Nat
  BY <1>1, FS_CardinalityType
<1>3. Cardinality(A \cup B) = Cardinality(A) + Cardinality(B)
  <2>1. Cardinality(A \cap B) = 0
    BY FS_EmptySet
  <2>2. Cardinality(A \cup B) = Cardinality(A) + Cardinality(B) - Cardinality(A \cap B)
    BY <1>1, FS_Union
  <2> QED BY <1>2, <2>1, <2>2
<1>4. Cardinality(A \cup B) <= Cardinality(S) /\ (Cardinality(S) = Cardinality(A \cup B) => S = A \cup B)
  BY <1>1, FS_Subset
<1>5. Cardinality(A) = 0 <=> A = {}
  BY <1>1, FS_EmptySet
<1>6. Cardinality(A) + Cardinality(B) >= Cardinality(S) <=> Cardinality(A \cup B) = Cardinality(S)
  BY <1>2, <1>3, <1>4
<1>7. Cardinality(A \cup B) = Cardinality(S) <=> A \cup B = S
  BY <1>4
<1> QED BY <1>2, <1>5, <1>6, <1>7

LEMMA InitBook == Init => Book
<1> SUFFICES ASSUME Init PROVE Book
  OBVIOUS
<1>1. With("completed") = {} /\ With("failed") = {} /\ With("pending") = Items
  BY DEF Init, NewItem, With
<1>2. CountersAreExact
  BY <1>1, ItemsAssumption, FS_EmptySet DEF Init, CountersAreExact, Open
<1> QED BY <1>2 DEF Init, NewItem, Book, OutcomeIsTheStatus, ReceiptIsTheRun, Open

LEMMA QuietKeepsBook == ASSUME Typed, Book, Quiet PROVE Book'
<1>1. With("completed")' = With("completed") /\ With("failed")' = With("failed") /\ With("pending")' = With("pending")
  BY DEF Quiet, With
<1>2. CountersAreExact'
  BY <1>1 DEF Book, CountersAreExact, Quiet, Open
<1>3. ReceiptIsTheRun'
  BY DEF Book, ReceiptIsTheRun, Quiet, Open
<1>4. OutcomeIsTheStatus'
  BY DEF Book, OutcomeIsTheStatus, Quiet
<1> QED BY <1>2, <1>3, <1>4 DEF Book

\* The transaction that records an outcome counts it, and the one that records
\* the last of them ends the run and mints the receipt.
LEMMA SettleKeepsBook ==
    ASSUME NEW i \in Items, NEW status \in {"completed", "failed"}, NEW outcome \in Outcomes,
           status = "completed" <=> outcome = "verdict",
           Typed, Book, Pending(i), Settle(i, status, outcome)
    PROVE  Book'
<1> DEFINE C == With("completed")  F == With("failed")  P == With("pending")
           completed == run.completed + (IF status = "completed" THEN 1 ELSE 0)
           failed    == run.failed + (IF status = "failed" THEN 1 ELSE 0)
<1>1. /\ item \in [Items -> Item]
      /\ run.completed \in Nat /\ run.failed \in Nat
  BY DEF Typed, ItemsTyped, RunTyped
<1>2. /\ \A j \in Items \ {i} : item'[j] = item[j]
      /\ item'[i].status = status /\ item'[i].outcome = outcome
  BY <1>1 DEF Settle, NewItem, Item
<1>3. i \in P /\ run.status \in Open
  BY DEF Pending, With
<1>4. /\ C' = IF status = "completed" THEN C \cup {i} ELSE C
      /\ F' = IF status = "failed" THEN F \cup {i} ELSE F
      /\ P' = P \ {i}
  BY <1>2, <1>3 DEF With
<1>5. /\ C \in SUBSET Items /\ F \in SUBSET Items /\ i \notin C /\ i \notin F
      /\ C' \in SUBSET Items /\ F' \in SUBSET Items /\ C' \cap F' = {}
      /\ C' \cup F' = Items <=> P' = {}
      /\ F' = Items <=> P' = {} /\ C' = {}
  <2>1. \A j \in Items : item[j].status \in {"pending", "completed", "failed"}
    BY <1>1 DEF Item
  <2>2. \A j \in Items : item'[j].status \in {"pending", "completed", "failed"}
    BY <1>2, <2>1
  <2> QED BY <1>3, <2>1, <2>2 DEF With
<1>6. run'.completed = completed /\ run'.failed = failed
  BY DEF Settle
<1>7. completed = Cardinality(C') /\ failed = Cardinality(F')
  <2>1. IsFiniteSet(C) /\ IsFiniteSet(F)
    BY <1>5, ItemsAssumption, FS_Subset
  <2>2. Cardinality(C \cup {i}) = Cardinality(C) + 1 /\ Cardinality(F \cup {i}) = Cardinality(F) + 1
    BY <1>5, <2>1, FS_AddElement
  <2>3. run.completed = Cardinality(C) /\ run.failed = Cardinality(F)
    BY DEF Book, CountersAreExact
  <2> HIDE DEF C, F
  <2> QED BY <1>1, <1>4, <2>2, <2>3
<1>8. /\ Finished(completed, failed) <=> P' = {}
      /\ completed = 0 <=> C' = {}
  <2> HIDE DEF C, F, P, completed, failed
  <2> QED BY <1>5, <1>7, ItemsAssumption, PartsCount DEF Finished
<1>9. run'.status = IF ~Finished(completed, failed) THEN run.status
                    ELSE IF completed = 0 THEN "failed" ELSE "completed"
  BY DEF Settle
<1>10. (run'.status \notin Open <=> P' = {}) /\ (run'.status = "failed" <=> F' = Items)
  <2> HIDE DEF C, F, P, completed, failed
  <2> QED BY <1>3, <1>5, <1>8, <1>9 DEF Open
<1>11. CountersAreExact'
  BY <1>6, <1>7, <1>10 DEF CountersAreExact
<1>12. OutcomeIsTheStatus'
  BY <1>2 DEF Book, OutcomeIsTheStatus, Outcomes
<1>13. ReceiptIsTheRun'
  <2>1. receipt = NoReceipt
    BY <1>3 DEF Book, ReceiptIsTheRun
  <2>2. receipt' = IF Finished(completed, failed) THEN ReceiptOf(i, outcome) ELSE receipt
    BY DEF Settle
  <2>3. ReceiptOf(i, outcome) = [j \in Items |-> item'[j].outcome]
    BY <1>2 DEF ReceiptOf
  <2>4. ASSUME P' = {} PROVE ReceiptOf(i, outcome) # NoReceipt
    <3>1. \A j \in Items : item'[j].outcome \in Outcomes
      BY <1>1, <1>2, <1>12, <2>4 DEF With, OutcomeIsTheStatus, Item
    <3> QED BY <2>3, <3>1, ReceiptAssumption
  <2> HIDE DEF C, F, P, completed, failed
  <2> QED BY <1>8, <1>10, <2>1, <2>2, <2>3, <2>4 DEF ReceiptIsTheRun
<1> QED BY <1>11, <1>12, <1>13 DEF Book

LEMMA NextBook == Typed /\ Book /\ [Next]_vars => Book'
<1> SUFFICES ASSUME Typed, Book, [Next]_vars PROVE Book'
  OBVIOUS
<1>1. CASE Quiet
  BY <1>1, QuietKeepsBook
<1>2. CASE Settles
  BY <1>2, SettleKeepsBook DEF Settles, Outcomes
<1> QED BY <1>1, <1>2, StepsRecord

-----------------------------------------------------------------------------
(* The calls: who may start one, who has, and what may be said of it.      *)

\* The rows keep what is said of calls.
RowsKept == \A i \in Items :
    /\ item'[i].status = item[i].status /\ item'[i].outcome = item[i].outcome
    /\ item'[i].started = item[i].started
    /\ item'[i].started => item'[i].held

\* No handler becomes a caller, and those there are stay as sent as they were.
NobodyStarts == \A w \in Handlers :
    /\ Calling(h'[w]) => /\ Calling(h[w]) /\ h'[w].item = h[w].item
                         /\ Unsent(h'[w]) <=> Unsent(h[w])
    /\ h'[w].pc = "call" => h[w].pc = "call"

NotUndone == \A i \in Items : item[i].started /\ ~item'[i].started => item'[i].status # "pending"

\* The three effects of a step on the promise of the ledger.
Leaves(i) ==
    /\ calls[i] = 0
    /\ item[i].outcome \in {"none", "outcome_unknown"}
    /\ calls' = [calls EXCEPT ![i] = 1]
    /\ UNCHANGED <<item, run, receipt>>
Truthful(i, o) ==
    /\ o = "not_attempted" => calls[i] = 0
    /\ o \in {"verdict", "failure"} => calls[i] = 1
Records(i, o) ==
    /\ Pending(i)
    /\ Truthful(i, o)
    /\ Settle(i, IF o = "verdict" THEN "completed" ELSE "failed", o)
    /\ UNCHANGED calls
Effect ==
    \/ Quiet /\ UNCHANGED calls
    \/ \E i \in Items : Leaves(i) \/ \E o \in Outcomes : Records(i, o)

Good == CallsHold' /\ NotUndone /\ Effect

LEMMA InitCalls == Init => CallsHold
BY DEF Init, NewItem, IdleHandler, CallsHold, StartedIsHeld, CallersAreMarked, OneCaller, CallsAreMarked,
    OutcomesAreTruthful, Calling, Outcomes

\* A step that starts, sends and records nothing.
LEMMA CallsKept ==
    ASSUME Typed, CallsHold, RowsKept, NobodyStarts, UNCHANGED <<calls, receipt>>,
           run'.completed = run.completed, run'.failed = run.failed,
           run'.status = run.status \/ (run.status \in Open /\ run'.status \in Open)
    PROVE  Good
<1>1. \A w \in Handlers : Calling(h[w]) => h[w].item \in Items
  BY DEF Typed, HandlersTyped, Calling
<1>2. StartedIsHeld'
  BY DEF CallsHold, StartedIsHeld, RowsKept
<1>3. CallersAreMarked'
  BY <1>1 DEF CallsHold, CallersAreMarked, RowsKept, NobodyStarts
<1>4. OneCaller'
  BY DEF CallsHold, OneCaller, NobodyStarts
<1>5. CallsAreMarked'
  BY DEF CallsHold, CallsAreMarked, RowsKept
<1>6. OutcomesAreTruthful'
  <2>1. \A w \in Handlers : h'[w].pc = "call" => h'[w].item = h[w].item /\ h[w].pc = "call"
    BY DEF NobodyStarts, Calling
  <2> QED BY <2>1 DEF CallsHold, OutcomesAreTruthful, RowsKept
<1>7. NotUndone
  BY DEF NotUndone, RowsKept
<1>8. Effect
  BY DEF Effect, Quiet, RowsKept
<1> QED BY <1>2, <1>3, <1>4, <1>5, <1>6, <1>7, <1>8 DEF CallsHold, Good

\* A step that records a truthful outcome.
LEMMA CallsSettled ==
    ASSUME NEW i \in Items, NEW o \in Outcomes, Typed, CallsHold, NobodyStarts, Records(i, o),
           o = "not_attempted" => \A w \in Handlers : h'[w].pc = "call" => h'[w].item # i
    PROVE  Good
<1>1. /\ \A j \in Items \ {i} : item'[j] = item[j]
      /\ item'[i].status # "pending" /\ item'[i].outcome = o /\ ~item'[i].started
  BY DEF Records, Settle, NewItem, Typed, ItemsTyped, Item
<1>2. \A w \in Handlers : Calling(h[w]) => h[w].item \in Items
  BY DEF Typed, HandlersTyped, Calling
<1>3. UNCHANGED calls
  BY DEF Records
<1>4. StartedIsHeld'
  BY <1>1 DEF CallsHold, StartedIsHeld
<1>5. CallersAreMarked'
  BY <1>1, <1>2, <1>3 DEF CallsHold, CallersAreMarked, NobodyStarts
<1>6. OneCaller'
  BY DEF CallsHold, OneCaller, NobodyStarts
<1>7. CallsAreMarked'
  BY <1>1, <1>3 DEF CallsHold, CallsAreMarked
<1>8. OutcomesAreTruthful'
  <2>1. \A w \in Handlers : h'[w].pc = "call" => h'[w].item = h[w].item /\ h[w].pc = "call"
    BY DEF NobodyStarts, Calling
  <2> QED BY <1>1, <1>3, <2>1 DEF CallsHold, OutcomesAreTruthful, Records, Truthful
<1>9. NotUndone
  BY <1>1 DEF NotUndone
<1>10. Effect
  BY DEF Effect
<1> QED BY <1>4, <1>5, <1>6, <1>7, <1>8, <1>9, <1>10 DEF CallsHold, Good

\* An item without the marker has no caller and no call.
LEMMA UnmarkedIsUncalled ==
    ASSUME NEW i \in Items, Typed, CallsHold, Pending(i), ~item[i].started
    PROVE  /\ calls[i] = 0
           /\ \A w \in Handlers : Calling(h[w]) => h[w].item # i
BY DEF Pending, CallsHold, CallersAreMarked, CallsAreMarked

\* A handler that calls nobody afterwards, the others standing still.
LEMMA OneStops ==
    ASSUME NEW w \in Handlers, \A u \in Handlers \ {w} : h'[u] = h[u], ~Calling(h'[w])
    PROVE  NobodyStarts
BY DEF NobodyStarts, Calling

\* A caller that goes on, the others standing still.
LEMMA OneGoesOn ==
    ASSUME NEW w \in Handlers, \A u \in Handlers \ {w} : h'[u] = h[u],
           Calling(h[w]), h'[w].item = h[w].item, Unsent(h'[w]) <=> Unsent(h[w]), h'[w].pc # "call"
    PROVE  NobodyStarts
BY DEF NobodyStarts

\* A claim or a release of an item without the marker, and whatever only dates
\* a claim, keep the rows.
LEMMA RowKept ==
    ASSUME NEW i \in Items, Typed, CallsHold,
           \/ item' = [item EXCEPT ![i] = Claimed(i)] /\ ~item[i].started
           \/ item' = [item EXCEPT ![i] = Freed(i)] /\ ~item[i].started
           \/ item' = [item EXCEPT ![i].returned = TRUE]
           \/ item' = [item EXCEPT ![i].aged = TRUE]
           \/ item' = [item EXCEPT ![i].deadline = "due"]
           \/ item' = [item EXCEPT ![i].deadline = "armed"]
    PROVE  RowsKept
<1>1. item \in [Items -> Item] /\ item[i] \in Item
  BY DEF Typed, ItemsTyped
<1>2. \A j \in Items : item[j].started => item[j].held
  BY DEF CallsHold, StartedIsHeld
<1>3. /\ \A j \in Items \ {i} : item'[j] = item[j]
      /\ item'[i].status = item[i].status /\ item'[i].outcome = item[i].outcome
      /\ item'[i].started = item[i].started
      /\ item'[i].started => item'[i].held
  <2>1. CASE item' = [item EXCEPT ![i] = Claimed(i)] /\ ~item[i].started
    BY <1>1, <2>1 DEF Claimed, Item
  <2>2. CASE item' = [item EXCEPT ![i] = Freed(i)] /\ ~item[i].started
    BY <1>1, <2>2 DEF Freed, Item
  <2>3. CASE item' = [item EXCEPT ![i].returned = TRUE]
    BY <1>1, <1>2, <2>3 DEF Item
  <2>4. CASE item' = [item EXCEPT ![i].aged = TRUE]
    BY <1>1, <1>2, <2>4 DEF Item
  <2>5. CASE item' = [item EXCEPT ![i].deadline = "due"]
    BY <1>1, <1>2, <2>5 DEF Item
  <2>6. CASE item' = [item EXCEPT ![i].deadline = "armed"]
    BY <1>1, <1>2, <2>6 DEF Item
  <2> QED BY <2>1, <2>2, <2>3, <2>4, <2>5, <2>6
<1> QED BY <1>2, <1>3 DEF RowsKept

LEMMA RowsStay == ASSUME CallsHold, UNCHANGED item PROVE RowsKept
BY DEF RowsKept, CallsHold, StartedIsHeld

LEMMA NobodyMoves == ASSUME UNCHANGED h PROVE NobodyStarts
BY DEF NobodyStarts

\* The end of a job is the end of its handler.
LEMMA JobEndStops ==
    ASSUME NEW w \in Handlers, Typed, Returns(w) \/ Throws(w) \/ h' = [h EXCEPT ![w] = IdleHandler]
    PROVE  NobodyStarts /\ h'[w].pc = "idle"
<1>1. h' = [h EXCEPT ![w] = IdleHandler] /\ h \in [Handlers -> Handler]
  BY DEF Returns, Throws, JobEnds, Typed, HandlersTyped
<1>2. \A u \in Handlers \ {w} : h'[u] = h[u]
  BY <1>1
<1>3. h'[w].pc = "idle" /\ ~Calling(h'[w])
  BY <1>1 DEF IdleHandler, Calling
<1> QED BY <1>2, <1>3, OneStops

\* Proceeding to a statement that calls nobody, or to an error, stops a call.
LEMMA ProceedStops ==
    ASSUME NEW w \in Handlers, Typed, NEW claim, Proceed(w, "begin", claim)
    PROVE  NobodyStarts
<1>1. CASE h' = [h EXCEPT ![w].pc = "begin", ![w].claim = claim]
  <2>1. /\ \A u \in Handlers \ {w} : h'[u] = h[u]
        /\ h'[w].pc = "begin"
    BY <1>1 DEF Typed, HandlersTyped, Handler
  <2> QED BY <2>1, OneStops DEF Calling
<1>2. CASE h' = [h EXCEPT ![w].pc = "error", ![w].claim = claim, ![w].cause = "transient"]
  <2>1. /\ \A u \in Handlers \ {w} : h'[u] = h[u]
        /\ h'[w].pc = "error" /\ h'[w].cause = "transient"
    BY <1>2 DEF Typed, HandlersTyped, Handler
  <2> QED BY <2>1, OneStops DEF Calling
<1> QED BY <1>1, <1>2 DEF Proceed

\* An error that says nothing of a call sent stops it.
LEMMA ErrorStops ==
    ASSUME NEW w \in Handlers, Typed, NEW pc \in {"error", "fail", "failThrow"},
           NEW cause \in Causes \ {"refused", "failure"}, h' = [h EXCEPT ![w].pc = pc, ![w].cause = cause]
    PROVE  NobodyStarts
<1>1. /\ \A u \in Handlers \ {w} : h'[u] = h[u]
      /\ h'[w].pc = pc /\ h'[w].cause = cause
  BY DEF Typed, HandlersTyped, Handler
<1> QED BY <1>1, OneStops DEF Calling

\* A statement of a handler, in the light of the claim it acts under.
LEMMA HandlerGood ==
    ASSUME NEW w \in Handlers, Typed, CallsHold, Book, HandlerStep(w) \/ RepositoryFails(w) \/ Crash(w)
    PROVE  Good
<1> DEFINE i == h[w].item
<1>a. ASSUME h[w].pc # "idle" PROVE i \in Items
  BY <1>a DEF Typed, HandlersTyped
<1>b. ASSUME NobodyStarts, RowsKept, UNCHANGED <<run, receipt, calls>> PROVE Good
  BY <1>b, CallsKept
<1>c. ASSUME NobodyStarts, UNCHANGED <<item, run, receipt, calls>> PROVE Good
  BY <1>b, <1>c, RowsStay
<1>d. ASSUME h' = [h EXCEPT ![w].pc = "error", ![w].cause = "transient"] PROVE NobodyStarts
  <2>1. (\A u \in Handlers \ {w} : h'[u] = h[u]) /\ h'[w].pc = "error" /\ h'[w].cause = "transient"
    BY <1>d DEF Typed, HandlersTyped, Handler
  <2> QED BY <2>1, OneStops DEF Calling
<1>1. CASE Claim(w)
  <2>1. CASE item' = [item EXCEPT ![i] = Claimed(i)] /\ Claimable(i) /\ Proceed(w, "begin", item[i].claims + 1)
    <3>1. i \in Items
      BY <1>1, <1>a DEF Claim
    <3>2. ~item[i].started
      BY <2>1, <3>1 DEF Claimable, CallsHold, StartedIsHeld
    <3>3. NobodyStarts
      BY <2>1, ProceedStops
    <3>4. RowsKept
      BY <2>1, <3>1, <3>2, RowKept
    <3> QED BY <1>1, <1>b, <3>3, <3>4 DEF Claim
  <2>2. CASE h' = [h EXCEPT ![w].pc = "inspect"] /\ UNCHANGED item
    <3>1. (\A u \in Handlers \ {w} : h'[u] = h[u]) /\ h'[w].pc = "inspect"
      BY <2>2 DEF Typed, HandlersTyped, Handler
    <3> QED BY <1>1, <1>c, <2>2, <3>1, OneStops DEF Claim, Calling
  <2> QED BY <1>1, <2>1, <2>2 DEF Claim
<1>2. CASE Inspect(w)
  <2>1. CASE h' = [h EXCEPT ![w].pc = "unknown", ![w].claim = item[i].claims]
    <3>1. (\A u \in Handlers \ {w} : h'[u] = h[u]) /\ h'[w].pc = "unknown"
      BY <2>1 DEF Typed, HandlersTyped, Handler
    <3> QED BY <1>2, <1>c, <3>1, OneStops DEF Inspect, Calling
  <2>2. CASE Returns(w)
    BY <1>2, <1>c, <2>2, JobEndStops DEF Inspect
  <2> QED BY <1>2, <2>1, <2>2 DEF Inspect
<1>3. CASE FailInterrupted(w)
  <2>1. i \in Items /\ NobodyStarts
    BY <1>3, <1>a, JobEndStops DEF FailInterrupted
  <2>2. CASE UNCHANGED <<item, run, receipt>>
    BY <1>3, <1>c, <2>1, <2>2 DEF FailInterrupted
  <2>3. CASE CanFail(i, h[w].claim, "outcome_unknown") /\ Settle(i, "failed", "outcome_unknown")
    <3>1. Records(i, "outcome_unknown") /\ "outcome_unknown" \in Outcomes
      BY <1>3, <2>3 DEF FailInterrupted, Records, Truthful, CanFail, Owns, Outcomes
    <3> QED BY <2>1, <3>1, CallsSettled
  <2> QED BY <1>3, <2>2, <2>3 DEF FailInterrupted
<1>4. CASE PreparationFails(w)
  BY <1>4, <1>c, ErrorStops DEF PreparationFails, Causes
<1>5. CASE BeginProviderCall(w)
  <2>1. CASE h' = [h EXCEPT ![w].pc = "error", ![w].cause = "transient"] /\ UNCHANGED item
    BY <1>5, <1>c, <1>d, <2>1 DEF BeginProviderCall
  <2>2. CASE /\ Owns(i, h[w].claim) /\ ~item[i].started
             /\ item' = [item EXCEPT ![i].started = TRUE] /\ Proceed(w, "call", h[w].claim)
    <3>1. /\ i \in Items /\ Pending(i) /\ UNCHANGED <<run, receipt, calls>>
          /\ item[i].outcome = "none" /\ item[i].held
      BY <1>5, <1>a, <2>2 DEF BeginProviderCall, Owns, Holds, Pending, Book, OutcomeIsTheStatus
    <3>2. /\ \A j \in Items \ {i} : item'[j] = item[j]
          /\ item'[i].started
          /\ item'[i].status = item[i].status /\ item'[i].outcome = item[i].outcome /\ item'[i].held
      BY <2>2, <3>1 DEF Typed, ItemsTyped, Item
    <3>3. calls[i] = 0 /\ \A u \in Handlers : Calling(h[u]) => h[u].item # i
      BY <2>2, <3>1, UnmarkedIsUncalled
    <3>4. /\ \A u \in Handlers \ {w} : h'[u] = h[u]
          /\ h'[w].item = i
          /\ Calling(h'[w]) => Unsent(h'[w])
      BY <2>2 DEF Proceed, Typed, HandlersTyped, Handler, Calling, Unsent
    <3>5. \A u \in Handlers : Calling(h[u]) => h[u].item \in Items
      BY DEF Typed, HandlersTyped, Calling
    <3>6. StartedIsHeld'
      BY <3>1, <3>2 DEF CallsHold, StartedIsHeld, Pending
    <3>7. CallersAreMarked'
      BY <3>1, <3>2, <3>3, <3>4, <3>5 DEF CallsHold, CallersAreMarked
    <3>8. OneCaller'
      BY <3>3, <3>4 DEF CallsHold, OneCaller
    <3>9. CallsAreMarked'
      BY <3>1, <3>2 DEF CallsHold, CallsAreMarked
    <3>10. OutcomesAreTruthful'
      BY <3>1, <3>2, <3>4 DEF CallsHold, OutcomesAreTruthful
    <3>11. NotUndone
      BY <3>2 DEF NotUndone
    <3>12. Effect
      BY <3>1, <3>2 DEF Effect, Quiet
    <3> QED BY <3>6, <3>7, <3>8, <3>9, <3>10, <3>11, <3>12 DEF CallsHold, Good
  <2> QED BY <1>5, <2>1, <2>2 DEF BeginProviderCall
<1>6. CASE ProviderCall(w)
  <2>1. Calling(h[w]) /\ Unsent(h[w]) /\ i \in Items
    BY <1>6, <1>a DEF ProviderCall, Calling, Unsent
  <2>2. CASE h' = [h EXCEPT ![w].pc = "error", ![w].cause = "refused"] /\ UNCHANGED calls
    <3>1. /\ \A u \in Handlers \ {w} : h'[u] = h[u]
          /\ h'[w].pc = "error" /\ h'[w].cause = "refused" /\ h'[w].item = h[w].item
      BY <2>2 DEF Typed, HandlersTyped, Handler
    <3>2. Unsent(h'[w]) /\ h'[w].pc # "call"
      BY <3>1 DEF Unsent
    <3> QED BY <1>6, <1>c, <2>1, <2>2, <3>1, <3>2, OneGoesOn DEF ProviderCall
  <2>3. CASE h' = [h EXCEPT ![w].pc = "await"] /\ calls' = [calls EXCEPT ![i] = @ + 1]
    <3>1. /\ \A u \in Handlers \ {w} : h'[u] = h[u]
          /\ h'[w].pc = "await" /\ h'[w].item = i
          /\ ~Unsent(h'[w])
      BY <2>3 DEF Typed, HandlersTyped, Handler, Unsent
    <3>2. /\ calls[i] = 0
          /\ item[i].status = "pending" => item[i].started
      BY <2>1 DEF CallsHold, CallersAreMarked
    <3>3. calls' = [calls EXCEPT ![i] = 1] /\ calls \in [Items -> {0, 1}]
      BY <2>3, <3>2 DEF CallsHold, CallsAreMarked
    <3>4. \A u \in Handlers \ {w} : Calling(h[u]) => h[u].item \in Items \ {i}
      BY <2>1 DEF CallsHold, OneCaller, Typed, HandlersTyped, Calling
    <3>5. UNCHANGED <<item, run, receipt>>
      BY <1>6 DEF ProviderCall
    <3>6. item[i].outcome \in {"none", "outcome_unknown"}
      <4>1. item[i].outcome \in Outcomes \cup {"none"}
        BY <2>1 DEF Typed, ItemsTyped, Item
      <4>2. item[i].outcome # "not_attempted"
        BY <1>6, <2>1 DEF ProviderCall, CallsHold, OutcomesAreTruthful
      <4>3. item[i].outcome \notin {"verdict", "failure"}
        BY <2>1, <3>2 DEF CallsHold, OutcomesAreTruthful
      <4> QED BY <4>1, <4>2, <4>3 DEF Outcomes
    <3>7. StartedIsHeld'
      BY <3>5 DEF CallsHold, StartedIsHeld
    <3>8. CallersAreMarked'
      BY <2>1, <3>1, <3>2, <3>3, <3>4, <3>5 DEF CallsHold, CallersAreMarked
    <3>9. OneCaller'
      BY <3>1, <3>4 DEF CallsHold, OneCaller
    <3>10. CallsAreMarked'
      BY <2>1, <3>2, <3>3, <3>5 DEF CallsHold, CallsAreMarked
    <3>11. OutcomesAreTruthful'
      BY <2>1, <3>1, <3>3, <3>5, <3>6 DEF CallsHold, OutcomesAreTruthful
    <3>12. NotUndone
      BY <3>5 DEF NotUndone
    <3>13. Effect
      BY <2>1, <3>2, <3>3, <3>5, <3>6 DEF Effect, Leaves
    <3> QED BY <3>7, <3>8, <3>9, <3>10, <3>11, <3>12, <3>13 DEF CallsHold, Good
  <2> QED BY <1>6, <2>2, <2>3 DEF ProviderCall
<1>7. CASE ProviderAnswers(w)
  <2>1. Calling(h[w]) /\ ~Unsent(h[w])
    BY <1>7 DEF ProviderAnswers, Calling, Unsent
  <2>2. /\ \A u \in Handlers \ {w} : h'[u] = h[u]
        /\ h'[w].item = h[w].item
        /\ h'[w].pc = "mark" \/ (h'[w].pc = "error" /\ h'[w].cause \in {"failure", "transient"})
    BY <1>7 DEF ProviderAnswers, Typed, HandlersTyped, Handler
  <2>3. ~Unsent(h'[w]) /\ h'[w].pc # "call"
    BY <2>2 DEF Unsent
  <2>4. NobodyStarts
    BY <2>1, <2>2, <2>3, OneGoesOn
  <2> QED BY <1>7, <1>c, <2>4 DEF ProviderAnswers
<1>8. CASE MarkReturned(w)
  <2>1. Calling(h[w]) /\ ~Unsent(h[w]) /\ i \in Items
    BY <1>8, <1>a DEF MarkReturned, Calling, Unsent
  <2>2. /\ \A u \in Handlers \ {w} : h'[u] = h[u]
        /\ h'[w].item = h[w].item
        /\ h'[w].pc = "complete" \/ (h'[w].pc = "error" /\ h'[w].cause = "transient")
    BY <1>8 DEF MarkReturned, Proceed, Typed, HandlersTyped, Handler
  <2>3. ~Unsent(h'[w]) /\ h'[w].pc # "call"
    BY <2>2 DEF Unsent
  <2>4. NobodyStarts
    BY <2>1, <2>2, <2>3, OneGoesOn
  <2>5. RowsKept
    BY <1>8, <2>1, RowKept, RowsStay DEF MarkReturned
  <2> QED BY <1>8, <1>b, <2>4, <2>5 DEF MarkReturned
<1>9. CASE Complete(w)
  <2>1. i \in Items /\ Calling(h[w]) /\ ~Unsent(h[w])
    BY <1>9, <1>a DEF Complete, Calling, Unsent
  <2>2. NobodyStarts
    <3>1. CASE Returns(w)
      BY <3>1, JobEndStops
    <3>2. CASE h' = [h EXCEPT ![w].pc = "error", ![w].cause = "transient"]
      BY <1>d, <3>2
    <3> QED BY <1>9, <3>1, <3>2 DEF Complete
  <2>3. CASE UNCHANGED <<item, run, receipt>>
    BY <1>9, <1>c, <2>2, <2>3 DEF Complete
  <2>4. CASE Owns(i, h[w].claim) /\ Settle(i, "completed", "verdict")
    <3>1. calls[i] = 1
      BY <2>1 DEF CallsHold, CallersAreMarked
    <3>2. Records(i, "verdict") /\ "verdict" \in Outcomes
      BY <1>9, <2>4, <3>1 DEF Complete, Records, Truthful, Owns, Outcomes
    <3> QED BY <2>1, <2>2, <3>2, CallsSettled
  <2> QED BY <1>9, <2>3, <2>4 DEF Complete
<1>10. CASE HandleError(w)
  <2>1. i \in Items /\ h[w].pc = "error"
    BY <1>10, <1>a DEF HandleError
  <2>2. CASE Returns(w) /\ UNCHANGED item
    BY <1>10, <1>c, <2>2, JobEndStops DEF HandleError
  <2>3. CASE Throws(w) /\ item' = [item EXCEPT ![i] = Freed(i)] /\ ~item[i].started
    BY <1>10, <1>b, <2>1, <2>3, JobEndStops, RowKept DEF HandleError
  <2>4. ASSUME NEW pc \in {"fail", "failThrow"}, h' = [h EXCEPT ![w].pc = pc, ![w].cause = "not_attempted"],
               UNCHANGED item
        PROVE  Good
    <3>1. /\ \A u \in Handlers \ {w} : h'[u] = h[u]
          /\ h'[w].pc = pc /\ h'[w].cause = "not_attempted"
      BY <2>4 DEF Typed, HandlersTyped, Handler
    <3>2. NobodyStarts
      BY <3>1, OneStops DEF Calling
    <3> QED BY <1>10, <1>c, <2>4, <3>2 DEF HandleError
  <2>5. CASE /\ h' = [h EXCEPT ![w].pc = "fail", ![w].cause = PostDispatch(h[w].cause, item[i].returned)]
             /\ UNCHANGED item
    <3>1. CASE PostDispatch(h[w].cause, item[i].returned) = "outcome_unknown"
      BY <1>10, <1>c, <2>5, <3>1, ErrorStops DEF HandleError, Causes
    <3>2. CASE PostDispatch(h[w].cause, item[i].returned) = h[w].cause /\ h[w].cause \in {"refused", "failure"}
      <4>1. /\ \A u \in Handlers \ {w} : h'[u] = h[u]
            /\ h'[w].pc = "fail" /\ h'[w].cause = h[w].cause /\ h'[w].item = h[w].item
        BY <2>5, <3>2 DEF Typed, HandlersTyped, Handler
      <4>2. Calling(h[w]) /\ (Unsent(h'[w]) <=> Unsent(h[w])) /\ h'[w].pc # "call"
        BY <2>1, <3>2, <4>1 DEF Calling, Unsent
      <4> QED BY <1>10, <1>c, <2>5, <4>1, <4>2, OneGoesOn DEF HandleError
    <3> QED BY <3>1, <3>2 DEF PostDispatch
  <2> QED BY <1>10, <2>2, <2>3, <2>4, <2>5 DEF HandleError
<1>11. CASE FailItem(w)
  <2>1. i \in Items /\ NobodyStarts /\ h'[w].pc = "idle"
    BY <1>11, <1>a, JobEndStops DEF FailItem
  <2>2. CASE UNCHANGED <<item, run, receipt>>
    BY <1>11, <1>c, <2>1, <2>2 DEF FailItem
  <2>3. CASE CanFail(i, h[w].claim, h[w].cause) /\ Settle(i, "failed", Recorded(h[w].cause))
    <3>1. h[w].cause \in {"refused", "failure", "outcome_unknown", "not_attempted"}
      BY <1>11 DEF FailItem, Typed, HandlersTyped
    <3>2. Pending(i) /\ UNCHANGED calls
      BY <1>11, <2>3 DEF FailItem, CanFail, Owns
    <3>3. ASSUME h[w].cause = "not_attempted" PROVE calls[i] = 0 /\ \A u \in Handlers : Calling(h[u]) => h[u].item # i
      BY <2>1, <2>3, <3>2, <3>3, UnmarkedIsUncalled DEF CanFail
    <3>4. ASSUME h[w].cause = "refused"
          PROVE  calls[i] = 0 /\ \A u \in Handlers \ {w} : Calling(h[u]) => h[u].item # i
      BY <1>11, <3>4 DEF FailItem, Calling, Unsent, CallsHold, CallersAreMarked, OneCaller
    <3>5. ASSUME h[w].cause = "failure" PROVE calls[i] = 1
      BY <1>11, <3>5 DEF FailItem, Calling, Unsent, CallsHold, CallersAreMarked
    <3>6. Recorded(h[w].cause) \in Outcomes /\ Recorded(h[w].cause) # "verdict"
      BY <3>1 DEF Recorded, Outcomes
    <3>7. Records(i, Recorded(h[w].cause))
      BY <2>3, <3>1, <3>2, <3>3, <3>4, <3>5, <3>6 DEF Records, Truthful, Recorded
    <3>8. ASSUME Recorded(h[w].cause) = "not_attempted", NEW u \in Handlers, h'[u].pc = "call"
          PROVE  h'[u].item # i
      <4>1. u # w
        BY <2>1, <3>8
      <4>2. Calling(h[u]) /\ h'[u].item = h[u].item
        BY <2>1, <3>8 DEF NobodyStarts, Calling
      <4> QED BY <3>1, <3>3, <3>4, <3>8, <4>1, <4>2 DEF Recorded
    <3> QED BY <2>1, <3>6, <3>7, <3>8, CallsSettled
  <2> QED BY <1>11, <2>2, <2>3 DEF FailItem
<1>12. CASE RepositoryFails(w)
  <2>1. CASE Throws(w)
    BY <1>12, <1>c, <2>1, JobEndStops DEF RepositoryFails
  <2>2. CASE h' = [h EXCEPT ![w].pc = "error", ![w].cause = "transient",
                            ![w].claim = IF h[w].pc = "unknown" THEN 0 ELSE @]
    <3>1. /\ \A u \in Handlers \ {w} : h'[u] = h[u]
          /\ h'[w].pc = "error" /\ h'[w].cause = "transient"
      BY <2>2 DEF Typed, HandlersTyped, Handler
    <3> QED BY <1>12, <1>c, <3>1, OneStops DEF RepositoryFails, Calling
  <2> QED BY <1>12, <2>1, <2>2 DEF RepositoryFails
<1>13. CASE Crash(w)
  BY <1>13, <1>c, JobEndStops DEF Crash
<1> QED BY <1>1, <1>2, <1>3, <1>4, <1>5, <1>6, <1>7, <1>8, <1>9, <1>10, <1>11, <1>12, <1>13 DEF HandlerStep

\* A statement of the sweep, in the light of the claim it acts under.
LEMMA SweeperGood ==
    ASSUME NEW p \in Sweepers, Typed, CallsHold, SweeperStep(p) \/ SweeperDies(p)
    PROVE  Good
<1> DEFINE i == s[p].item
<1>a. ASSUME s[p].pc # "idle" PROVE i \in Items
  BY <1>a DEF Typed, SweepersTyped
<1>b. ASSUME RowsKept, UNCHANGED <<run, receipt, h, calls>> PROVE Good
  BY <1>b, CallsKept, NobodyMoves
<1>1. CASE Look(p)
  <2>1. /\ run'.completed = run.completed /\ run'.failed = run.failed
        /\ run'.status = run.status \/ (run.status \in Open /\ run'.status \in Open)
    BY <1>1 DEF Look, Open, Typed, RunTyped
  <2> QED BY <1>1, <2>1, CallsKept, RowsStay, NobodyMoves DEF Look
<1>2. CASE Peek(p) \/ Resend(p) \/ Confirm(p) \/ SweeperDies(p)
  BY <1>2, <1>b, RowsStay DEF Peek, Resend, Confirm, SweeperDies
<1>3. CASE Rearm(p)
  BY <1>3, <1>a, <1>b, RowsStay, RowKept DEF Rearm
<1>4. CASE Recover(p)
  <2>1. CASE UNCHANGED item
    BY <1>4, <1>b, <2>1, RowsStay DEF Recover
  <2>2. CASE Undelivered(i) /\ item' = [item EXCEPT ![i] = Claimed(i)]
    <3>1. i \in Items /\ ~item[i].started
      BY <1>4, <1>a, <2>2 DEF Recover, Undelivered, CallsHold, StartedIsHeld
    <3> QED BY <1>4, <1>b, <2>2, <3>1, RowKept DEF Recover
  <2> QED BY <1>4, <2>1, <2>2 DEF Recover
<1>5. CASE Release(p)
  BY <1>5, <1>a, <1>b, RowsStay, RowKept DEF Release
<1>6. CASE SweeperFailsItem(p)
  <2>1. i \in Items /\ s[p].cause \in {"outcome_unknown", "not_attempted"} /\ UNCHANGED <<h, calls>>
    BY <1>6, <1>a DEF SweeperFailsItem, Typed, SweepersTyped
  <2>2. CASE UNCHANGED <<item, run, receipt>>
    BY <1>b, <2>1, <2>2, RowsStay
  <2>3. CASE CanFail(i, s[p].claim, s[p].cause) /\ Settle(i, "failed", s[p].cause)
    <3>1. ASSUME s[p].cause = "not_attempted" PROVE calls[i] = 0 /\ \A w \in Handlers : Calling(h[w]) => h[w].item # i
      BY <2>1, <2>3, <3>1, UnmarkedIsUncalled DEF CanFail, Owns
    <3>2. Records(i, s[p].cause) /\ s[p].cause \in Outcomes
      BY <2>1, <2>3, <3>1 DEF Records, Truthful, CanFail, Owns, Outcomes
    <3>3. s[p].cause = "not_attempted" => \A w \in Handlers : h'[w].pc = "call" => h'[w].item # i
      BY <2>1, <3>1 DEF Calling
    <3>4. NobodyStarts
      BY <2>1, NobodyMoves
    <3> QED BY <2>1, <3>2, <3>3, <3>4, CallsSettled
  <2> QED BY <1>6, <2>2, <2>3 DEF SweeperFailsItem
<1> QED BY <1>1, <1>2, <1>3, <1>4, <1>5, <1>6 DEF SweeperStep

\* Dispatch, fan-out, the queue and the clock start and record nothing.
LEMMA AroundGood ==
    ASSUME Typed, CallsHold,
           \/ ArmDelivery \/ SendRun \/ FanOutStep \/ FanOutFails
           \/ \E w \in Handlers, i \in Items : Deliver(w, i)
           \/ \E i \in Items : JobExpires(i) \/ ClaimAges(i) \/ DeadlinePasses(i) \/ JobForgotten(i)
           \/ \E p \in Sweepers, i \in Items : Sweep(p, i)
           \/ UNCHANGED vars
    PROVE  Good
<1>a. item \in [Items -> Item]
  BY DEF Typed, ItemsTyped
<1>b. ASSUME RowsKept, UNCHANGED <<run, receipt, h, calls>> PROVE Good
  BY <1>b, CallsKept, NobodyMoves
<1>c. ASSUME UNCHANGED <<item, run, receipt, h, calls>> PROVE Good
  BY <1>b, <1>c, RowsStay
<1>d. ASSUME item' = Armed PROVE RowsKept
  BY <1>a, <1>d DEF Armed, RowsKept, Item, CallsHold, StartedIsHeld
<1>1. CASE ArmDelivery \/ FanOutArms
  BY <1>1, <1>b, <1>d DEF ArmDelivery, FanOutArms
<1>2. CASE SendRun \/ FanOutLists \/ FanOutEnds \/ FanOutFails \/ \E i \in Items : FanOutSends(i)
  BY <1>2, <1>c DEF SendRun, FanOutLists, FanOutEnds, FanOutFails, FanOutSends
<1>3. CASE FanOutStarts
  <2>1. /\ run'.completed = run.completed /\ run'.failed = run.failed
        /\ run'.status = run.status \/ (run.status \in Open /\ run'.status \in Open)
    BY <1>3 DEF FanOutStarts, Open, Typed, RunTyped
  <2>2. UNCHANGED <<item, receipt, h, calls>>
    BY <1>3 DEF FanOutStarts
  <2> QED BY <2>1, <2>2, CallsKept, RowsStay, NobodyMoves
<1>4. ASSUME NEW w \in Handlers, NEW i \in Items, Deliver(w, i) PROVE Good
  <2>1. (\A u \in Handlers \ {w} : h'[u] = h[u]) /\ h'[w].pc = "claim"
    BY <1>4 DEF Deliver, IdleHandler, Typed, HandlersTyped
  <2>2. NobodyStarts
    BY <2>1, OneStops DEF Calling
  <2> QED BY <1>4, <2>2, CallsKept, RowsStay DEF Deliver
<1>5. CASE \E i \in Items : JobExpires(i) \/ JobForgotten(i)
  BY <1>5, <1>c DEF JobExpires, JobForgotten
<1>6. CASE \E i \in Items : ClaimAges(i) \/ DeadlinePasses(i)
  BY <1>6, <1>b, RowKept DEF ClaimAges, DeadlinePasses
<1>7. CASE \E p \in Sweepers, i \in Items : Sweep(p, i)
  BY <1>7, <1>c DEF Sweep
<1>8. CASE UNCHANGED vars
  BY <1>8, <1>c DEF vars
<1> QED BY <1>1, <1>2, <1>3, <1>4, <1>5, <1>6, <1>7, <1>8 DEF FanOutStep

LEMMA NextGood == Typed /\ CallsHold /\ Book /\ [Next]_vars => Good
<1> SUFFICES ASSUME Typed, CallsHold, Book, [Next]_vars PROVE Good
  OBVIOUS
<1> QED BY HandlerGood, SweeperGood, AroundGood DEF Next

-----------------------------------------------------------------------------
(* Claims: who may take one that is fresh.                                 *)

\* The rows keep their claims.
ClaimsKept == \A i \in Items : item[i].held => item'[i].held /\ item'[i].claims = item[i].claims

Respected == \A i \in Items : Fresh(i) /\ ClaimChanges(i) => HolderActs(i)

LEMMA ClaimsStay == ASSUME ClaimsKept PROVE Respected
BY DEF ClaimsKept, Respected, Fresh, ClaimChanges

\* A mark or a deadline keeps the claims.
LEMMA RowKeepsClaim ==
    ASSUME NEW i \in Items, Typed,
           \/ item' = [item EXCEPT ![i].started = TRUE]
           \/ item' = [item EXCEPT ![i].returned = TRUE]
           \/ item' = [item EXCEPT ![i].aged = TRUE]
           \/ item' = [item EXCEPT ![i].deadline = "due"]
           \/ item' = [item EXCEPT ![i].deadline = "armed"]
    PROVE  ClaimsKept
<1>1. item \in [Items -> Item] /\ item[i] \in Item
  BY DEF Typed, ItemsTyped
<1>2. CASE item' = [item EXCEPT ![i].started = TRUE]
  BY <1>1, <1>2 DEF ClaimsKept, Item
<1>3. CASE item' = [item EXCEPT ![i].returned = TRUE]
  BY <1>1, <1>3 DEF ClaimsKept, Item
<1>4. CASE item' = [item EXCEPT ![i].aged = TRUE]
  BY <1>1, <1>4 DEF ClaimsKept, Item
<1>5. CASE item' = [item EXCEPT ![i].deadline = "due"]
  BY <1>1, <1>5 DEF ClaimsKept, Item
<1>6. CASE item' = [item EXCEPT ![i].deadline = "armed"]
  BY <1>1, <1>6 DEF ClaimsKept, Item
<1> QED BY <1>2, <1>3, <1>4, <1>5, <1>6

\* A step on one row, which is not fresh or whose holder acts.
LEMMA OneRowChanges ==
    ASSUME NEW i \in Items, \A j \in Items \ {i} : item'[j] = item[j], Fresh(i) => HolderActs(i)
    PROVE  Respected
BY DEF Respected, ClaimChanges, Fresh

LEMMA RowReplaced ==
    ASSUME NEW i \in Items, Typed,
           \/ item' = [item EXCEPT ![i] = Claimed(i)]
           \/ item' = [item EXCEPT ![i] = Freed(i)]
           \/ \E status, outcome : Settle(i, status, outcome)
    PROVE  \A j \in Items \ {i} : item'[j] = item[j]
BY DEF Typed, ItemsTyped, Settle

\* A handler or a sweeper whose step leaves its statement acts under its token.
LEMMA HandlerActs ==
    ASSUME NEW w \in Handlers, Holds(h[w].item, h[w].claim), h'[w].pc # h[w].pc
    PROVE  HolderActs(h[w].item)
BY DEF HolderActs, Holds
LEMMA SweeperActs ==
    ASSUME NEW p \in Sweepers, Holds(s[p].item, s[p].claim), s'[p].pc # s[p].pc
    PROVE  HolderActs(s[p].item)
BY DEF HolderActs, Holds

LEMMA HandlerRespects ==
    ASSUME NEW w \in Handlers, Typed, HandlerStep(w) \/ RepositoryFails(w) \/ Crash(w)
    PROVE  Respected
<1> DEFINE i == h[w].item
<1>a. ASSUME h[w].pc # "idle" PROVE i \in Items
  BY <1>a DEF Typed, HandlersTyped
<1>b. ASSUME UNCHANGED item PROVE Respected
  BY <1>b, ClaimsStay DEF ClaimsKept
<1>1. CASE Claim(w)
  <2>1. i \in Items
    BY <1>1, <1>a DEF Claim
  <2>2. CASE Claimable(i) /\ item' = [item EXCEPT ![i] = Claimed(i)]
    <3>1. ~Fresh(i)
      BY <2>2 DEF Claimable, Fresh
    <3> QED BY <2>1, <2>2, <3>1, RowReplaced, OneRowChanges
  <2> QED BY <1>1, <1>b, <2>2 DEF Claim
<1>2. CASE Inspect(w) \/ PreparationFails(w) \/ ProviderCall(w) \/ ProviderAnswers(w)
  BY <1>2, <1>b DEF Inspect, PreparationFails, ProviderCall, ProviderAnswers
<1>3. ASSUME h[w].pc # "idle", Holds(i, h[w].claim), h'[w].pc # h[w].pc,
             \/ item' = [item EXCEPT ![i] = Freed(i)]
             \/ \E status, outcome : Settle(i, status, outcome)
      PROVE  Respected
  <2>1. i \in Items /\ HolderActs(i)
    BY <1>a, <1>3, HandlerActs
  <2> QED BY <1>3, <2>1, RowReplaced, OneRowChanges
<1>4. ASSUME Returns(w) \/ Throws(w) PROVE h'[w].pc = "idle"
  BY <1>4, JobEndStops
<1>5. CASE FailInterrupted(w)
  BY <1>5, <1>b, <1>3, <1>4 DEF FailInterrupted, CanFail, Owns
<1>6. CASE BeginProviderCall(w)
  BY <1>6, <1>a, <1>b, RowKeepsClaim, ClaimsStay DEF BeginProviderCall
<1>7. CASE MarkReturned(w)
  BY <1>7, <1>a, <1>b, RowKeepsClaim, ClaimsStay DEF MarkReturned
<1>8. CASE Complete(w)
  <2>1. h[w].pc = "complete" /\ h'[w].pc \in {"idle", "error"}
    BY <1>8, <1>4 DEF Complete, Typed, HandlersTyped, Handler
  <2> QED BY <1>8, <1>b, <1>3, <2>1 DEF Complete, Owns
<1>9. CASE HandleError(w)
  BY <1>9, <1>b, <1>3, <1>4 DEF HandleError
<1>10. CASE FailItem(w)
  <2>1. h[w].pc \in {"fail", "failThrow"} /\ h'[w].pc = "idle"
    BY <1>10, <1>4 DEF FailItem
  <2> QED BY <1>10, <1>b, <1>3, <2>1 DEF FailItem, CanFail, Owns
<1>11. CASE RepositoryFails(w) \/ Crash(w)
  BY <1>11, <1>b DEF RepositoryFails, Crash
<1> QED BY <1>1, <1>2, <1>5, <1>6, <1>7, <1>8, <1>9, <1>10, <1>11 DEF HandlerStep

LEMMA SweeperRespects ==
    ASSUME NEW p \in Sweepers, Typed, SweeperStep(p) \/ SweeperDies(p)
    PROVE  Respected
<1> DEFINE i == s[p].item
<1>a. ASSUME s[p].pc # "idle" PROVE i \in Items
  BY <1>a DEF Typed, SweepersTyped
<1>b. ASSUME UNCHANGED item PROVE Respected
  BY <1>b, ClaimsStay DEF ClaimsKept
<1>c. ASSUME SweeperStops(p) PROVE s'[p].pc = "idle"
  BY <1>c DEF SweeperStops, IdleSweeper, Typed, SweepersTyped
<1>1. CASE Look(p) \/ Peek(p) \/ Resend(p) \/ Confirm(p) \/ SweeperDies(p)
  BY <1>1, <1>b DEF Look, Peek, Resend, Confirm, SweeperDies
<1>2. CASE Rearm(p)
  BY <1>2, <1>a, <1>b, RowKeepsClaim, ClaimsStay DEF Rearm
<1>3. CASE Recover(p)
  <2>1. i \in Items
    BY <1>3, <1>a DEF Recover
  <2>2. CASE Undelivered(i) /\ item' = [item EXCEPT ![i] = Claimed(i)]
    <3>1. ~Fresh(i)
      BY <2>2 DEF Undelivered, Fresh
    <3> QED BY <2>1, <2>2, <3>1, RowReplaced, OneRowChanges
  <2> QED BY <1>3, <1>b, <2>2 DEF Recover
<1>4. ASSUME s[p].pc # "idle", Holds(i, s[p].claim), s'[p].pc = "idle",
             \/ item' = [item EXCEPT ![i] = Freed(i)]
             \/ \E status, outcome : Settle(i, status, outcome)
      PROVE  Respected
  <2>1. i \in Items /\ HolderActs(i)
    BY <1>a, <1>4, SweeperActs
  <2> QED BY <1>4, <2>1, RowReplaced, OneRowChanges
<1>5. CASE Release(p)
  BY <1>5, <1>b, <1>c, <1>4 DEF Release
<1>6. CASE SweeperFailsItem(p)
  BY <1>6, <1>b, <1>c, <1>4 DEF SweeperFailsItem, CanFail, Owns
<1> QED BY <1>1, <1>2, <1>3, <1>5, <1>6 DEF SweeperStep

LEMMA NextRespects == Typed /\ [Next]_vars => Respected
<1> SUFFICES ASSUME Typed, [Next]_vars PROVE Respected
  OBVIOUS
<1>a. ASSUME UNCHANGED item PROVE Respected
  BY <1>a, ClaimsStay DEF ClaimsKept
<1>1. CASE ArmDelivery \/ FanOutArms
  BY <1>1, ClaimsStay DEF ArmDelivery, FanOutArms, Armed, ClaimsKept, Typed, ItemsTyped, Item
<1>2. CASE SendRun \/ FanOutStarts \/ FanOutLists \/ FanOutEnds \/ FanOutFails \/ \E i \in Items : FanOutSends(i)
  BY <1>2, <1>a DEF SendRun, FanOutStarts, FanOutLists, FanOutEnds, FanOutFails, FanOutSends
<1>3. CASE \E w \in Handlers, i \in Items : Deliver(w, i)
  BY <1>3, <1>a DEF Deliver
<1>4. CASE \E i \in Items : JobExpires(i) \/ JobForgotten(i)
  BY <1>4, <1>a DEF JobExpires, JobForgotten
<1>5. CASE \E i \in Items : ClaimAges(i) \/ DeadlinePasses(i)
  BY <1>5, RowKeepsClaim, ClaimsStay DEF ClaimAges, DeadlinePasses
<1>6. CASE \E p \in Sweepers, i \in Items : Sweep(p, i)
  BY <1>6, <1>a DEF Sweep
<1>7. CASE UNCHANGED vars
  BY <1>7, <1>a DEF vars
<1> QED BY <1>1, <1>2, <1>3, <1>4, <1>5, <1>6, <1>7, HandlerRespects, SweeperRespects DEF Next, FanOutStep

-----------------------------------------------------------------------------
(* Theorems.                                                               *)

LEMMA InitInv == Init => IInv
BY InitTyped, InitCalls, InitBook DEF IInv

LEMMA NextInv == IInv /\ [Next]_vars => IInv'
BY NextTyped, NextGood, NextBook DEF IInv, Good

\* The invariant the others rest on: typed rows and processes; a marker, a
\* call and a caller that agree; a book that counts what is recorded.
THEOREM RunInvariant == Spec => []IInv
<1> QED BY InitInv, NextInv, PTL DEF Spec

\* A receipt is complete: it is minted only when no item is without an outcome.
LEMMA ReceiptTyped == ASSUME IInv PROVE receipt \in [Items -> Outcomes] \cup {NoReceipt}
<1>1. CASE receipt # NoReceipt
  <2>1. With("pending") = {} /\ receipt = [i \in Items |-> item[i].outcome]
    BY <1>1 DEF IInv, Book, ReceiptIsTheRun, CountersAreExact
  <2>2. \A i \in Items : item[i].outcome \in Outcomes
    BY <2>1 DEF IInv, Book, OutcomeIsTheStatus, With, Typed, ItemsTyped, Item
  <2> QED BY <2>1, <2>2
<1> QED BY <1>1

\* Every row, job and local variable keeps its type, the receipt included:
\* what it freezes is an outcome for every item.
THEOREM RunTypeCorrect == Spec => []TypeOK
<1>1. IInv => TypeOK
  <2> SUFFICES ASSUME IInv PROVE TypeOK
    OBVIOUS
  <2>1. calls \in [Items -> Nat]
    BY DEF IInv, CallsHold, CallsAreMarked
  <2> QED BY <2>1, ReceiptTyped
    DEF IInv, Typed, ItemsTyped, HandlersTyped, SweepersTyped, QueueTyped, RunTyped, TypeOK
<1> QED BY <1>1, RunInvariant, PTL

\* Whatever is redelivered, taken over or swept, by however many handlers and
\* sweepers, no item is sent to the provider twice.
THEOREM NoSecondCall == Spec => []ProviderIsNeverCalledTwice
<1>1. IInv => ProviderIsNeverCalledTwice
  BY DEF IInv, CallsHold, CallsAreMarked, ProviderIsNeverCalledTwice
<1> QED BY <1>1, RunInvariant, PTL

\* The disposition recorded of an item says the truth of its call.
THEOREM OutcomesAreTrue == Spec => []OutcomesTellWhetherACallLeft
<1>1. IInv => OutcomesTellWhetherACallLeft
  BY DEF IInv, CallsHold, OutcomesAreTruthful, OutcomesTellWhetherACallLeft
<1> QED BY <1>1, RunInvariant, PTL

\* The counters count every settled item once, and the run ends with the last.
THEOREM CountersCount == Spec => []CountersAreExact
<1>1. IInv => CountersAreExact
  BY DEF IInv, Book
<1> QED BY <1>1, RunInvariant, PTL

\* The receipt exists exactly when the run is over, and says what is recorded.
THEOREM ReceiptSaysTheRun == Spec => []ReceiptIsTheRun
<1>1. IInv => ReceiptIsTheRun
  BY DEF IInv, Book
<1> QED BY <1>1, RunInvariant, PTL

\* A started call is never offered to another executor.
THEOREM StartedStays == Spec => StartedIsNotUndone
<1>1. IInv /\ [Next]_vars =>
         [\A i \in Items : (item[i].started /\ ~item'[i].started) => item'[i].status # "pending"]_vars
  BY NextGood DEF IInv, Good, NotUndone
<1> QED BY <1>1, RunInvariant, PTL DEF Spec, StartedIsNotUndone

\* A claim younger than fifteen minutes changes hands only through its holder.
THEOREM FreshClaimsAreSafe == Spec => FreshClaimIsRespected
<1>1. IInv /\ [Next]_vars => [\A i \in Items : Fresh(i) /\ ClaimChanges(i) => HolderActs(i)]_vars
  BY NextRespects DEF IInv, Respected
<1> QED BY <1>1, RunInvariant, PTL DEF Spec, FreshClaimIsRespected

-----------------------------------------------------------------------------
(* The refinement.                                                         *)

LEMMA LedgerStarts == Init => Ledger!Init
BY DEF Init, Ledger!Init, NewItem

\* A quiet step is a stutter of the ledger, a request that leaves is its Call,
\* a truthful settlement its Record.
LEMMA LedgerMoves ==
    ASSUME IInv, Effect, Book'
    PROVE  [Ledger!Next]_<<calls, [i \in Items |-> item[i].outcome], receipt>>
<1> DEFINE outcome == [i \in Items |-> item[i].outcome]
<1>1. CASE Quiet /\ UNCHANGED calls
  <2>1. outcome' = outcome
    BY <1>1 DEF Quiet
  <2> QED BY <1>1, <2>1 DEF Quiet
<1>2. ASSUME NEW i \in Items, Leaves(i) PROVE Ledger!Next
  <2>1. Ledger!Call(i)
    BY <1>2 DEF Leaves, Ledger!Call
  <2> QED BY <2>1 DEF Ledger!Next
<1>3. ASSUME NEW i \in Items, NEW o \in Outcomes, Records(i, o) PROVE Ledger!Next
  <2>1. /\ \A j \in Items \ {i} : item'[j] = item[j]
        /\ item'[i].outcome = o
    BY <1>3 DEF Records, Settle, NewItem, IInv, Typed, ItemsTyped, Item
  <2>2. outcome[i] = "none" /\ outcome' = [outcome EXCEPT ![i] = o]
    BY <1>3, <2>1 DEF Records, Pending, IInv, Book, OutcomeIsTheStatus
  <2>3. receipt = NoReceipt
    BY <1>3 DEF Records, Pending, IInv, Book, ReceiptIsTheRun
  <2>4. With("pending")' = {} <=> \A j \in Items \ {i} : outcome[j] # "none"
    <3>1. o # "none"
      BY DEF Outcomes
    <3>2. With("pending")' = {} <=> \A j \in Items : item'[j].outcome # "none"
      BY DEF Book, OutcomeIsTheStatus, With
    <3> QED BY <2>1, <3>1, <3>2
  <2>5. receipt' = IF With("pending")' = {} THEN outcome' ELSE NoReceipt
    BY DEF Book, ReceiptIsTheRun, CountersAreExact
  <2>6. receipt' = IF \A j \in Items \ {i} : outcome[j] # "none" THEN outcome' ELSE receipt
    BY <2>3, <2>4, <2>5
  <2>7. Ledger!Record(i, o)
    BY <1>3, <2>2, <2>6 DEF Records, Truthful, Ledger!Record, Ledger!Truthful
  <2> QED BY <2>7 DEF Ledger!Next, Outcomes
<1> QED BY <1>1, <1>2, <1>3 DEF Effect

\* The fan-out, the handlers and the sweeps together keep the promise of
\* EvalRunLedger: one call an item, one truthful outcome, a receipt of them all.
THEOREM HandlersImplementLedger == Spec => LedgerSpec
<1>1. IInv /\ [Next]_vars => [Ledger!Next]_<<calls, [i \in Items |-> item[i].outcome], receipt>>
  BY NextInv, NextGood, LedgerMoves DEF IInv, Good
<1> QED BY <1>1, LedgerStarts, RunInvariant, PTL DEF Spec, LedgerSpec, Ledger!Spec
=============================================================================

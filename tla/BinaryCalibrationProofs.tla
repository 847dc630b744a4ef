----------------------- MODULE BinaryCalibrationProofs -----------------------
(***************************************************************************)
(* Theorems about BinaryCalibration for every set of runs, versions,       *)
(* workers and items and every bound: its invariants, what its counter     *)
(* counts and how many calls a crash can strand, and that the worker, its  *)
(* transactions and its failures implement SealedLedger.                   *)
(***************************************************************************)
EXTENDS BinaryCalibrationLedger, FiniteSetTheorems, TLAPS

-----------------------------------------------------------------------------
(* Small facts the steps share.                                            *)

\* Labels of a worker that is not inside an attempt.
Outside == Labels \ {"exec", "dispatch", "await", "complete"}

\* The idle worker and the worker records the handler builds have their type.
LEMMA ValuesTyped ==
    ASSUME NEW r \in Runs, NEW i \in Items, NEW label \in Labels
    PROVE  At(r, label) \in Worker /\ On(r, i, label) \in Worker /\ Idle \in Worker
BY DEF At, On, Idle, Worker, Labels

\* A committed step moves the worker where it should, or to the outer catch.
LEMMA ProceedAt ==
    ASSUME NEW w \in Workers, NEW r \in Runs, NEW label \in Outside, WorkersTyped, faults \in Nat,
           wk[w].pc # "idle", Proceed(w, At(r, label))
    PROVE  WorkersTyped' /\ faults' \in Nat
<1>1. wk[w].run \in Runs
  BY DEF WorkersTyped
<1>2. At(r, label) \in Worker /\ At(wk[w].run, "failing") \in Worker
  BY <1>1, ItemsAssumption, ValuesTyped DEF Outside, Labels
<1> QED BY <1>1, <1>2 DEF Proceed, WorkersTyped, At, Outside

\* A step onto an item leaves well-typed workers, whether or not its answer is lost.
LEMMA ProceedOn ==
    ASSUME NEW w \in Workers, NEW r \in Runs, NEW i \in Items, NEW label \in {"exec", "dispatch"},
           WorkersTyped, faults \in Nat, wk[w].pc # "idle", Proceed(w, On(r, i, label))
    PROVE  WorkersTyped' /\ faults' \in Nat
<1>1. wk[w].run \in Runs
  BY DEF WorkersTyped
<1>2. On(r, i, label) \in Worker /\ At(wk[w].run, "failing") \in Worker
  BY <1>1, ValuesTyped DEF Labels
<1> QED BY <1>1, <1>2 DEF Proceed, WorkersTyped, At, On

\* A step that ends the job leaves well-typed workers.
LEMMA ProceedIdle ==
    ASSUME NEW w \in Workers, WorkersTyped, faults \in Nat, wk[w].pc # "idle", Proceed(w, Idle)
    PROVE  WorkersTyped' /\ faults' \in Nat
<1>1. wk[w].run \in Runs
  BY DEF WorkersTyped
<1>2. Idle \in Worker /\ At(wk[w].run, "failing") \in Worker
  BY <1>1, ItemsAssumption, ValuesTyped DEF Labels
<1> QED BY <1>1, <1>2 DEF Proceed, WorkersTyped, At, Idle

\* Rows nobody touches keep their type.
LEMMA RowsStay == RowsTyped /\ UNCHANGED row => RowsTyped'
BY DEF RowsTyped

\* Attempts, lease and jobs nobody touches keep their type.
LEMMA LedgersStay == LedgersTyped /\ UNCHANGED <<att, sent, lease, jobs>> => LedgersTyped'
BY DEF LedgersTyped

\* A step that leaves the rest of the project alone keeps its type.
LEMMA WorldStays == WorldTyped /\ UNCHANGED world /\ faults' \in Nat => WorldTyped'
BY DEF WorldTyped, world

\* The worker of a step fails: it goes to the outer catch.
LEMMA FailingMoves ==
    ASSUME NEW w \in Workers, WorkersTyped, wk[w].pc # "idle",
           wk' = [wk EXCEPT ![w] = At(wk[w].run, "failing")] \/ wk' = [wk EXCEPT ![w] = Idle]
    PROVE  WorkersTyped'
BY DEF WorkersTyped, Worker, At, Idle, Labels

\* Clearing the claim columns keeps the rows typed.
LEMMA ReleaseKeepsRows ==
    ASSUME NEW r \in Runs, NEW s \in (Active \cup Terminal) \ {"running"}, RowsTyped,
           row[r].state # "absent", row' = [row EXCEPT ![r] = Released(r, s)]
    PROVE  RowsTyped'
<1>1. Released(r, s) \in Row
  BY DEF RowsTyped, Released, Row
<1>2. /\ Released(r, s).state = s
      /\ Released(r, s).holder = NoWorker
      /\ Released(r, s).live = FALSE
      /\ Released(r, s).version = row[r].version
  BY DEF RowsTyped, Released, Row
<1>3. row' \in [Runs -> Row] /\ \A q \in Runs : row'[q] = IF q = r THEN Released(r, s) ELSE row[q]
  BY <1>1 DEF RowsTyped
<1>4. s # "running"
  OBVIOUS
<1>5. ASSUME NEW q \in Runs
      PROVE  /\ row'[q].state # "absent" => row'[q].version \in Versions
             /\ row'[q].holder # NoWorker <=> row'[q].state = "running"
             /\ row'[q].live => row'[q].holder # NoWorker
  <2>1. CASE q = r
    BY <1>2, <1>3, <1>4, <2>1 DEF RowsTyped
  <2>2. CASE q # r
    BY <1>3, <2>2 DEF RowsTyped
  <2> QED BY <2>1, <2>2
<1> QED BY <1>3, <1>5 DEF RowsTyped

\* The update of markRecoveryRequired keeps the rows typed.
LEMMA ParkedKeepsRows ==
    ASSUME NEW w \in Workers, wk[w].run \in Runs, RowsTyped, row' = Parked(w)
    PROVE  RowsTyped'
<1>1. CASE row[wk[w].run].holder = w /\ row[wk[w].run].state = "running"
  <2> DEFINE r == wk[w].run
  <2>1. row[r].state # "absent" /\ row' = [row EXCEPT ![r] = Released(r, "recovery_required")]
    BY <1>1 DEF Parked
  <2>2. "recovery_required" \in (Active \cup Terminal) \ {"running"}
    BY DEF Active
  <2> HIDE DEF r
  <2>3. r \in Runs
    BY DEF r
  <2> QED BY <2>1, <2>2, <2>3, ReleaseKeepsRows
<1>2. CASE ~(row[wk[w].run].holder = w /\ row[wk[w].run].state = "running")
  BY <1>2 DEF Parked, RowsTyped
<1> QED BY <1>1, <1>2

\* The facts that the eligibility check digests have their type.
LEMMA CurrentFactsTyped ==
    ASSUME NEW r \in Runs, WorldTyped
    PROVE  CurrentFacts(r) \in Facts
BY DEF CurrentFacts, Facts, WorldTyped, Reuse, ReuseBases

-----------------------------------------------------------------------------
LEMMA NoFactsTyped == NoFacts \in Facts
BY DEF NoFacts, Facts, FindingRange, Findings, ReuseBases

\* Type correctness holds initially.
LEMMA InitTyped == Init => TypeOK
<1> SUFFICES ASSUME Init PROVE TypeOK
  OBVIOUS
<1>2. RowsTyped
  BY NoFactsTyped, NullsAssumption DEF Init, RowsTyped, NoRow, Row
<1>3. WorkersTyped
  BY DEF Init, WorkersTyped, Worker, Idle, Labels
<1>4. LedgersTyped
  BY DEF Init, LedgersTyped, NoAttempt, Attempt, Outcomes
<1>5. WorldTyped
  BY DEF Init, WorldTyped
<1> QED BY <1>2, <1>3, <1>4, <1>5 DEF TypeOK

\* One row, one worker or one run's attempts are replaced by typed values.
LEMMA RowsStep ==
    ASSUME RowsTyped, NEW r \in Runs, NEW x \in Row, row' = [row EXCEPT ![r] = x],
           x.state # "absent" => x.version \in Versions,
           x.holder # NoWorker <=> x.state = "running",
           x.live => x.holder # NoWorker
    PROVE  RowsTyped'
BY DEF RowsTyped

\* The columns that the type invariant relates to each other keep their values.
LEMMA RowsStepAside ==
    ASSUME RowsTyped, NEW r \in Runs, NEW x \in Row, row' = [row EXCEPT ![r] = x],
           x.state = row[r].state, x.version = row[r].version,
           x.holder = row[r].holder, x.live = row[r].live
    PROVE  RowsTyped'
BY RowsStep DEF RowsTyped

\* Replacing one worker by a worker keeps the workers typed.
LEMMA WorkerStep ==
    ASSUME WorkersTyped, NEW w \in Workers, NEW x \in Worker, wk' = [wk EXCEPT ![w] = x],
           x.pc # "idle" => x.run \in Runs,
           x.pc \in {"exec", "dispatch", "await", "complete"} => x.item \in Items,
           x.pc = "complete" => x.result \in Outcomes
    PROVE  WorkersTyped'
BY DEF WorkersTyped

\* Replacing one attempt by an attempt keeps the attempts typed.
LEMMA AttemptStep ==
    ASSUME LedgersTyped, NEW r \in Runs, NEW i \in Items, NEW x \in Attempt,
           att' = [att EXCEPT ![r][i] = x], UNCHANGED <<sent, lease, jobs>>
    PROVE  LedgersTyped'
BY DEF LedgersTyped

\* Replacing one run's attempts keeps the attempts typed.
LEMMA AttemptsStep ==
    ASSUME LedgersTyped, NEW r \in Runs, NEW f \in [Items -> Attempt],
           att' = [att EXCEPT ![r] = f], lease' \in Runs \cup {NoRun}, UNCHANGED <<sent, jobs>>
    PROVE  LedgersTyped'
BY DEF LedgersTyped

\* Every step of the job handler keeps the types.
LEMMA HandlerKeepsTypes ==
    ASSUME TypeOK, NEW w \in Workers, HandlerStep(w)
    PROVE  TypeOK'
<1> USE DEF TypeOK
<1> DEFINE r == wk[w].run
<1>f. faults \in Nat
  BY DEF WorldTyped
<1>r. wk[w].pc # "idle" => r \in Runs
  BY DEF WorkersTyped
<1>1. CASE Recheck(w)
  <2>1. WorkersTyped' /\ faults' \in Nat
    BY <1>1, <1>f, <1>r, ProceedAt DEF Recheck, Outside, Labels
  <2> QED BY <1>1, <2>1, RowsStay, LedgersStay, WorldStays DEF Recheck
<1>2. CASE Probe(w)
  <2>1. WorkersTyped' /\ faults' \in Nat
    <3>1. PICK answer \in {"holds", "no_longer_holds", "unknown"} :
             wk' = [wk EXCEPT ![w] = [wk[w] EXCEPT !.pc = "record", !.result = answer]]
      BY <1>2 DEF Probe, WorkersTyped
    <3> DEFINE x == [wk[w] EXCEPT !.pc = "record", !.result = answer]
    <3>2. x \in Worker /\ x.pc = "record" /\ x.run \in Runs
      BY <1>2, <1>r DEF Probe, WorkersTyped, Worker, Labels
    <3>3. faults' \in Nat
      BY <1>2, <1>f DEF Probe
    <3> HIDE DEF x
    <3> QED BY <3>1, <3>2, <3>3, WorkerStep DEF x
  <2> QED BY <1>2, <2>1, RowsStay, LedgersStay, WorldStays DEF Probe
<1>3. CASE RecordRecheck(w)
  <2>1. WorkersTyped' /\ faults' \in Nat
    BY <1>3, <1>f, <1>r, ProceedAt DEF RecordRecheck, Outside, Labels
  <2>2. RowsTyped'
    <3> DEFINE x == [row[r] EXCEPT !.backoff = (wk[w].result = "unknown") \/ @]
    <3>1. r \in Runs /\ row[r] \in Row /\ row' = [row EXCEPT ![r] = x]
      BY <1>3, <1>r DEF RecordRecheck, RowsTyped
    <3>2. /\ x \in Row /\ x.state = row[r].state /\ x.version = row[r].version
          /\ x.holder = row[r].holder /\ x.live = row[r].live
      BY <3>1 DEF Row
    <3> HIDE DEF x
    <3> QED BY <3>1, <3>2, RowsStepAside
  <2> QED BY <1>3, <2>1, <2>2, LedgersStay, WorldStays DEF RecordRecheck
<1>4. CASE RejectBeforeAuthorization(w)
  <2>1. WorkersTyped' /\ faults' \in Nat
    BY <1>4, <1>f, ProceedIdle DEF RejectBeforeAuthorization
  <2>2. RowsTyped'
    <3>1. "rejected" \in (Active \cup Terminal) \ {"running"}
      BY DEF Terminal
    <3>2. r \in Runs /\ row[r].state # "absent" /\ row' = [row EXCEPT ![r] = Released(r, "rejected")]
      BY <1>4, <1>r DEF RejectBeforeAuthorization, Holds
    <3> QED BY <3>1, <3>2, ReleaseKeepsRows
  <2> QED BY <1>4, <2>1, <2>2, LedgersStay, WorldStays DEF RejectBeforeAuthorization
<1>5. CASE Park(w)
  <2>1. WorkersTyped' /\ faults' \in Nat
    <3>1. Proceed(w, Idle) \/ Proceed(w, At(r, "failing"))
      BY <1>5 DEF Park
    <3>2. wk[w].pc # "idle" /\ "failing" \in Outside
      BY <1>5 DEF Park, Outside, Labels
    <3> QED BY <3>1, <3>2, <1>f, <1>r, ProceedIdle, ProceedAt
  <2>2. RowsTyped'
    BY <1>5, <1>r, ParkedKeepsRows DEF Park
  <2> QED BY <1>5, <2>1, <2>2, LedgersStay, WorldStays DEF Park
<1>6. CASE AuthorizeReplay(w)
  <2>1. WorkersTyped' /\ faults' \in Nat
    BY <1>6, <1>f, <1>r, ProceedAt DEF AuthorizeReplay, Outside, Labels
  <2> QED BY <1>6, <2>1, RowsStay, LedgersStay, WorldStays DEF AuthorizeReplay
<1>7. CASE AuthorizeRejects(w)
  <2>1. WorkersTyped' /\ faults' \in Nat
    BY <1>7, <1>f, FailingMoves DEF AuthorizeRejects
  <2>2. RowsTyped'
    <3> DEFINE x == [Released(r, "rejected") EXCEPT !.execAuth = Bound(r).execAuth]
    <3>1. r \in Runs /\ row[r] \in Row /\ row[r].state # "absent" /\ row' = [row EXCEPT ![r] = x]
      BY <1>7, <1>r DEF AuthorizeRejects, Holds, RowsTyped
    <3>2. Bound(r).execAuth \in Nat
      BY <3>1 DEF Bound, Row, RowsTyped, WorldTyped
    <3>3. x \in Row /\ x.state = "rejected" /\ x.version = row[r].version /\ x.holder = NoWorker /\ x.live = FALSE
      BY <3>1, <3>2 DEF Released, Row, Terminal
    <3> HIDE DEF x
    <3>4. x.version \in Versions
      BY <3>1, <3>3 DEF RowsTyped
    <3> QED BY <3>1, <3>3, <3>4, RowsStep
  <2> QED BY <1>7, <2>1, <2>2, LedgersStay, WorldStays DEF AuthorizeRejects
<1>8. CASE Authorize(w)
  <2>1. WorkersTyped' /\ faults' \in Nat
    BY <1>8, <1>f, <1>r, ProceedAt DEF Authorize, Outside, Labels
  <2>2. RowsTyped'
    <3> DEFINE x == [Bound(r) EXCEPT !.authorized = TRUE, !.snapshot = CurrentFacts(r)]
    <3>1. r \in Runs /\ row[r] \in Row /\ row[r].state # "absent" /\ row' = [row EXCEPT ![r] = x]
      BY <1>8, <1>r DEF Authorize, Holds, RowsTyped
    <3>2. row[r].version \in Versions /\ CurrentFacts(r) \in Facts
      BY <3>1, CurrentFactsTyped DEF RowsTyped
    <3>3. evaluator[row[r].version].head \in Nat
      BY <3>2 DEF WorldTyped
    <3>4. /\ x \in Row /\ x.state = row[r].state /\ x.version = row[r].version
          /\ x.holder = row[r].holder /\ x.live = row[r].live
      BY <3>1, <3>2, <3>3 DEF Bound, Row
    <3> HIDE DEF x
    <3> QED BY <3>1, <3>2, <3>4, RowsStep DEF RowsTyped
  <2>3. LedgersTyped'
    BY <1>8, <1>r DEF Authorize, LedgersTyped, NewAttempt, NoAttempt, Attempt, Outcomes
  <2> QED BY <1>8, <2>1, <2>2, <2>3, WorldStays DEF Authorize
<1>9. CASE AuthorizeRefused(w)
  <2>1. WorkersTyped' /\ faults' \in Nat
    BY <1>9, <1>f, FailingMoves DEF AuthorizeRefused
  <2> QED BY <1>9, <2>1, RowsStay, LedgersStay, WorldStays DEF AuthorizeRefused
<1>10. CASE LoadAuthorizedRun(w)
  <2>1. WorkersTyped' /\ faults' \in Nat
    <3>1. wk[w].pc # "idle" /\ "recover" \in Outside
      BY <1>10 DEF LoadAuthorizedRun, Outside, Labels
    <3>2. CASE Proceed(w, At(r, "recover"))
      BY <3>1, <3>2, <1>f, <1>r, ProceedAt
    <3>3. CASE wk' = [wk EXCEPT ![w] = At(r, "failing")] /\ UNCHANGED faults
      BY <3>1, <3>3, <1>f, FailingMoves
    <3> QED BY <1>10, <3>2, <3>3 DEF LoadAuthorizedRun
  <2> QED BY <1>10, <2>1, RowsStay, LedgersStay, WorldStays DEF LoadAuthorizedRun
<1>11. CASE RecoverStartedAttempts(w)
  <2>1. WorkersTyped' /\ faults' \in Nat
    BY <1>11, <1>f, <1>r, ProceedAt DEF RecoverStartedAttempts, Outside, Labels
  <2>2. r \in Runs /\ Cardinality(Stranded(r)) \in Nat
    <3>1. r \in Runs /\ Stranded(r) \subseteq Items
      BY <1>11, <1>r DEF RecoverStartedAttempts, Stranded
    <3> QED BY <3>1, ItemsAssumption, FS_Subset, FS_CardinalityType
  <2>3. RowsTyped'
    <3> DEFINE x == [row[r] EXCEPT !.accounted = @ + Cardinality(Stranded(r))]
    <3>1. row[r] \in Row /\ row' = [row EXCEPT ![r] = x]
      BY <1>11, <2>2 DEF RecoverStartedAttempts, RowsTyped
    <3>2. /\ x \in Row /\ x.state = row[r].state /\ x.version = row[r].version
          /\ x.holder = row[r].holder /\ x.live = row[r].live
      BY <3>1, <2>2 DEF Row
    <3> HIDE DEF x
    <3> QED BY <3>1, <3>2, <2>2, RowsStepAside
  <2>4. LedgersTyped'
    <3> DEFINE f == [i \in Items |->
                       IF i \in Stranded(r)
                       THEN [att[r][i] EXCEPT !.accounting = "accounted", !.outcome = "outcome_unknown"]
                       ELSE att[r][i]]
    <3>1. \A i \in Items : att[r][i] \in Attempt
      BY <2>2 DEF LedgersTyped
    <3>2. f \in [Items -> Attempt]
      BY <3>1 DEF Attempt, Outcomes
    <3>3. /\ att' = [att EXCEPT ![r] = f]
          /\ lease' \in Runs \cup {NoRun}
          /\ UNCHANGED <<sent, jobs>>
      BY <1>11 DEF RecoverStartedAttempts, LedgersTyped
    <3> HIDE DEF f
    <3> QED BY <2>2, <3>2, <3>3, AttemptsStep
  <2> QED BY <1>11, <2>1, <2>3, <2>4, WorldStays DEF RecoverStartedAttempts
<1>12. CASE HeartbeatClaim(w)
  <2>1. WorkersTyped' /\ faults' \in Nat
    BY <1>12, <1>f, <1>r, ProceedAt DEF HeartbeatClaim, Outside, Labels
  <2> QED BY <1>12, <2>1, RowsStay, LedgersStay, WorldStays DEF HeartbeatClaim
<1>13. CASE GetNextAttempt(w)
  <2>1. WorkersTyped' /\ faults' \in Nat
    <3>1. CASE \E i \in Waiting(r) : Proceed(w, On(r, i, "exec"))
      BY <1>13, <3>1, <1>f, <1>r, ProceedOn DEF GetNextAttempt, Waiting
    <3>2. CASE Proceed(w, At(r, "finalize"))
      BY <1>13, <3>2, <1>f, <1>r, ProceedAt DEF GetNextAttempt, Outside, Labels
    <3> QED BY <1>13, <3>1, <3>2 DEF GetNextAttempt
  <2> QED BY <1>13, <2>1, RowsStay, LedgersStay, WorldStays DEF GetNextAttempt
<1>14. CASE RefuseBeforeCall(w)
  <2>1. WorkersTyped' /\ faults' \in Nat
    <3>1. PICK answer \in {"usable", "errored"} :
             wk' = [wk EXCEPT ![w] = [wk[w] EXCEPT !.pc = "complete", !.result = answer]]
      BY <1>14 DEF RefuseBeforeCall, WorkersTyped
    <3> DEFINE x == [wk[w] EXCEPT !.pc = "complete", !.result = answer]
    <3>2. x \in Worker /\ x.run \in Runs /\ x.item \in Items /\ x.result \in Outcomes
      BY <1>14, <1>r DEF RefuseBeforeCall, WorkersTyped, Worker, Labels, Outcomes
    <3>3. faults' \in Nat
      BY <1>14, <1>f DEF RefuseBeforeCall
    <3> HIDE DEF x
    <3> QED BY <3>1, <3>2, <3>3, WorkerStep DEF x
  <2> QED BY <1>14, <2>1, RowsStay, LedgersStay, WorldStays DEF RefuseBeforeCall
<1>17. CASE ProviderAnswers(w)
  <2>1. WorkersTyped' /\ faults' \in Nat
    <3>1. PICK answer \in {"usable", "errored"} :
             wk' = [wk EXCEPT ![w] = [wk[w] EXCEPT !.pc = "complete", !.result = answer]]
      BY <1>17 DEF ProviderAnswers, WorkersTyped
    <3> DEFINE x == [wk[w] EXCEPT !.pc = "complete", !.result = answer]
    <3>2. x \in Worker /\ x.run \in Runs /\ x.item \in Items /\ x.result \in Outcomes
      BY <1>17, <1>r DEF ProviderAnswers, WorkersTyped, Worker, Labels, Outcomes
    <3>3. faults' \in Nat
      BY <1>17, <1>f DEF ProviderAnswers
    <3> HIDE DEF x
    <3> QED BY <3>1, <3>2, <3>3, WorkerStep DEF x
  <2> QED BY <1>17, <2>1, RowsStay, LedgersStay, WorldStays DEF ProviderAnswers
<1>15. CASE RecordProviderCallStarted(w)
  <2>1. r \in Runs /\ wk[w].item \in Items
    BY <1>15, <1>r DEF RecordProviderCallStarted, WorkersTyped
  <2>2. WorkersTyped' /\ faults' \in Nat
    BY <1>15, <2>1, <1>f, ProceedOn DEF RecordProviderCallStarted
  <2>3. LedgersTyped'
    <3> DEFINE i == wk[w].item
               x == [att[r][i] EXCEPT !.phase = "started", !.calls = @ + 1]
    <3>1. att[r][i] \in Attempt
      BY <2>1 DEF LedgersTyped
    <3>2. x \in Attempt
      <4>1. ASSUME NEW a \in Attempt, NEW n \in Nat
            PROVE  [a EXCEPT !.phase = "started", !.calls = n] \in Attempt
        BY DEF Attempt
      <4>2. att[r][i].calls + 1 \in Nat
        BY <3>1 DEF Attempt
      <4> QED BY <3>1, <4>1, <4>2
    <3>3. att' = [att EXCEPT ![r][i] = x] /\ UNCHANGED <<sent, lease, jobs>>
      BY <1>15, <2>1 DEF RecordProviderCallStarted, LedgersTyped
    <3> HIDE DEF x
    <3> QED BY <2>1, <3>2, <3>3, AttemptStep
  <2> QED BY <1>15, <2>2, <2>3, RowsStay, WorldStays DEF RecordProviderCallStarted
<1>16. CASE Dispatch(w)
  <2>1. r \in Runs /\ wk[w].item \in Items
    BY <1>16, <1>r DEF Dispatch, WorkersTyped
  <2>2. WorkersTyped' /\ faults' \in Nat
    <3> DEFINE x == [wk[w] EXCEPT !.pc = "await"]
    <3>1. wk' = [wk EXCEPT ![w] = x]
      BY <1>16 DEF Dispatch, WorkersTyped
    <3>2. x \in Worker /\ x.pc = "await" /\ x.run = r /\ x.item = wk[w].item
      BY DEF WorkersTyped, Worker, Labels
    <3>3. faults' \in Nat
      BY <1>16, <1>f DEF Dispatch
    <3> HIDE DEF x
    <3> QED BY <2>1, <3>1, <3>2, <3>3, WorkerStep
  <2>3. LedgersTyped'
    BY <1>16, <2>1 DEF Dispatch, LedgersTyped
  <2> QED BY <1>16, <2>2, <2>3, RowsStay, WorldStays DEF Dispatch
<1>18. CASE CompleteAttempt(w)
  <2>1. r \in Runs /\ wk[w].item \in Items /\ wk[w].result \in Outcomes
    BY <1>18, <1>r DEF CompleteAttempt, WorkersTyped
  <2>2. WorkersTyped' /\ faults' \in Nat
    BY <1>18, <2>1, <1>f, ProceedAt DEF CompleteAttempt, Outside, Labels
  <2>3. LedgersTyped'
    <3> DEFINE i == wk[w].item
               x == [att[r][i] EXCEPT !.accounting = "accounted", !.phase = "terminal",
                                      !.outcome = wk[w].result]
    <3>1. att[r][i] \in Attempt
      BY <2>1 DEF LedgersTyped
    <3>2. x \in Attempt
      BY <3>1, <2>1 DEF Attempt
    <3>3. att' = [att EXCEPT ![r][i] = x] /\ UNCHANGED <<sent, lease, jobs>>
      BY <1>18, <2>1 DEF CompleteAttempt, LedgersTyped
    <3> HIDE DEF x
    <3> QED BY <2>1, <3>2, <3>3, AttemptStep
  <2>4. RowsTyped'
    <3> DEFINE x == [row[r] EXCEPT !.accounted = @ + 1]
    <3>1. row[r] \in Row /\ row' = [row EXCEPT ![r] = x]
      BY <1>18, <2>1 DEF CompleteAttempt, RowsTyped
    <3>2. /\ x \in Row /\ x.state = row[r].state /\ x.version = row[r].version
          /\ x.holder = row[r].holder /\ x.live = row[r].live
      BY <3>1 DEF Row
    <3> HIDE DEF x
    <3> QED BY <2>1, <3>1, <3>2, RowsStepAside
  <2> QED BY <1>18, <2>2, <2>3, <2>4, WorldStays DEF CompleteAttempt
<1>19. CASE FinalizeRun(w)
  <2>1. WorkersTyped' /\ faults' \in Nat
    BY <1>19, <1>f, ProceedIdle DEF FinalizeRun
  <2>2. RowsTyped'
    <3>1. PICK s \in Minted : row' = [row EXCEPT ![r] = Released(r, s)]
      BY <1>19 DEF FinalizeRun, Minted
    <3>2. s \in (Active \cup Terminal) \ {"running"}
      BY DEF Minted, Terminal
    <3>3. r \in Runs /\ row[r].state # "absent"
      BY <1>19, <1>r DEF FinalizeRun, HoldsLease, Holds
    <3> QED BY <3>1, <3>2, <3>3, ReleaseKeepsRows
  <2>3. LedgersTyped'
    BY <1>19 DEF FinalizeRun, LedgersTyped
  <2> QED BY <1>19, <2>1, <2>2, <2>3, WorldStays DEF FinalizeRun
<1>20. CASE Fail(w)
  <2>1. WorkersTyped' /\ faults' \in Nat
    <3>1. wk[w].pc # "idle" /\ wk' = [wk EXCEPT ![w] = Idle]
      BY <1>20 DEF Fail
    <3>2. faults' \in Nat
      BY <1>20, <1>f DEF Fail
    <3> QED BY <3>1, <3>2, FailingMoves
  <2>2. RowsTyped'
    BY <1>20, <1>r, ParkedKeepsRows, RowsStay DEF Fail
  <2>3. LedgersTyped'
    BY <1>20, <1>r DEF Fail, LedgersTyped
  <2> QED BY <1>20, <2>1, <2>2, <2>3, WorldStays DEF Fail
<1>21. CASE CallRejected(w)
  <2>1. WorkersTyped' /\ faults' \in Nat
    <3>1. wk[w].pc # "idle"
      BY <1>21 DEF CallRejected
    <3> QED BY <1>21, <3>1, <1>f, FailingMoves DEF CallRejected
  <2> QED BY <1>21, <2>1, RowsStay, LedgersStay, WorldStays DEF CallRejected
<1> QED
  BY <1>1, <1>2, <1>3, <1>4, <1>5, <1>6, <1>7, <1>8, <1>9, <1>10, <1>11, <1>12, <1>13, <1>14,
     <1>15, <1>16, <1>17, <1>18, <1>19, <1>20, <1>21 DEF HandlerStep

\* Exposures, findings, development and lifecycle events keep the types.
LEMMA WorldKeepsTypes ==
    ASSUME TypeOK,
           \/ RecordDevelopmentExposure \/ FindingsChange
           \/ \E v \in Versions : DevelopVersion(v) \/ LifecycleEvent(v) \/ EditVersion(v)
    PROVE  TypeOK'
<1> USE DEF TypeOK
<1>1. UNCHANGED <<row, wk, att, sent, lease, jobs>>
  BY DEF RecordDevelopmentExposure, FindingsChange, DevelopVersion, LifecycleEvent, EditVersion
<1>2. RowsTyped' /\ WorkersTyped' /\ LedgersTyped'
  BY <1>1, RowsStay, LedgersStay DEF WorkersTyped
<1>3. WorldTyped'
  <2>1. CASE RecordDevelopmentExposure
    BY <2>1 DEF RecordDevelopmentExposure, WorldTyped
  <2>2. CASE FindingsChange
    <3>1. findings' \in FindingRange
      BY <2>2 DEF FindingsChange, Later
    <3> QED BY <2>2, <3>1 DEF FindingsChange, WorldTyped
  <2>3. ASSUME NEW v \in Versions, DevelopVersion(v) PROVE WorldTyped'
    BY <2>3 DEF DevelopVersion, WorldTyped
  <2>4. ASSUME NEW v \in Versions, LifecycleEvent(v) PROVE WorldTyped'
    <3>1. PICK retire \in BOOLEAN :
             evaluator' = [evaluator EXCEPT ![v].head = @ + 1, ![v].retired = retire]
      BY <2>4 DEF LifecycleEvent
    <3>2. evaluator' \in [Versions -> [head : Nat, retired : BOOLEAN, edited : BOOLEAN]]
      <4> DEFINE Versioned == [head : Nat, retired : BOOLEAN, edited : BOOLEAN]
      <4>1. evaluator \in [Versions -> Versioned] /\ evaluator[v] \in Versioned
        BY DEF WorldTyped
      <4>2. [evaluator[v] EXCEPT !.head = evaluator[v].head + 1, !.retired = retire] \in Versioned
        <5>1. ASSUME NEW e \in Versioned, NEW n \in Nat, NEW b \in BOOLEAN
              PROVE  [e EXCEPT !.head = n, !.retired = b] \in Versioned
          OBVIOUS
        <5>2. evaluator[v].head + 1 \in Nat
          BY <4>1
        <5> QED BY <4>1, <5>1, <5>2
      <4> HIDE DEF Versioned
      <4> QED BY <3>1, <4>1, <4>2 DEF Versioned
    <3> QED BY <2>4, <3>2 DEF LifecycleEvent, WorldTyped
  <2>5. ASSUME NEW v \in Versions, EditVersion(v) PROVE WorldTyped'
    <3>1. evaluator' \in [Versions -> [head : Nat, retired : BOOLEAN, edited : BOOLEAN]]
      BY ZenonT(40), <2>5 DEF EditVersion, WorldTyped
    <3> QED BY <2>5, <3>1 DEF EditVersion, WorldTyped
  <2> QED BY <2>1, <2>2, <2>3, <2>4, <2>5
<1> QED BY <1>2, <1>3

\* Creation, discovery, claims, failures and lapses keep the types.
LEMMA ClaimsKeepTypes ==
    ASSUME TypeOK, NEW r \in Runs,
           \/ AbandonedClaimLapses(r) \/ SlowClaimLapses(r) \/ BackoffElapses(r)
           \/ \E w \in Workers : ClaimRun(w, r) \/ DropJob(w, r)
           \/ \E v \in Versions : CreateRun(r, v)
    PROVE  TypeOK'
<1> USE DEF TypeOK
<1>1. CASE AbandonedClaimLapses(r) \/ SlowClaimLapses(r) \/ BackoffElapses(r)
  <2>1. RowsTyped'
    <3>1. row[r] \in Row
      BY DEF RowsTyped
    <3>2. CASE row' = [row EXCEPT ![r].live = FALSE]
      <4> DEFINE x == [row[r] EXCEPT !.live = FALSE]
      <4>1. /\ x \in Row /\ x.state = row[r].state /\ x.version = row[r].version
            /\ x.holder = row[r].holder /\ x.live = FALSE
        BY <3>1 DEF Row
      <4>2. row' = [row EXCEPT ![r] = x]
        BY <3>2 DEF RowsTyped
      <4> HIDE DEF x
      <4> QED BY <4>1, <4>2, RowsStep DEF RowsTyped
    <3>3. CASE row' = [row EXCEPT ![r].backoff = FALSE]
      <4> DEFINE x == [row[r] EXCEPT !.backoff = FALSE]
      <4>1. /\ x \in Row /\ x.state = row[r].state /\ x.version = row[r].version
            /\ x.holder = row[r].holder /\ x.live = row[r].live
        BY <3>1 DEF Row
      <4>2. row' = [row EXCEPT ![r] = x]
        BY <3>3 DEF RowsTyped
      <4> HIDE DEF x
      <4> QED BY <4>1, <4>2, RowsStepAside
    <3> QED BY <1>1, <3>2, <3>3 DEF AbandonedClaimLapses, SlowClaimLapses, BackoffElapses
  <2>2. UNCHANGED <<wk, att, sent, lease, jobs, world>> /\ faults' \in Nat
    BY <1>1 DEF AbandonedClaimLapses, SlowClaimLapses, BackoffElapses, WorldTyped
  <2> QED BY <2>1, <2>2, LedgersStay, WorldStays DEF WorkersTyped
<1>2. ASSUME NEW w \in Workers, ClaimRun(w, r) PROVE TypeOK'
  <2>1. RowsTyped'
    <3> DEFINE x == [row[r] EXCEPT !.state = "running", !.holder = w, !.live = TRUE]
    <3>1. row[r] \in Row /\ row[r].state # "absent" /\ row' = [row EXCEPT ![r] = x]
      BY <1>2 DEF ClaimRun, Active, RowsTyped
    <3>2. /\ x \in Row /\ x.state = "running" /\ x.version = row[r].version
          /\ x.holder = w /\ x.live = TRUE
      BY <3>1 DEF Row, Active
    <3>3. w # NoWorker
      BY NullsAssumption
    <3> HIDE DEF x
    <3> QED BY <3>1, <3>2, <3>3, RowsStep DEF RowsTyped
  <2>2. WorkersTyped'
    <3>1. At(r, "recheck") \in Worker
      BY ItemsAssumption, ValuesTyped DEF Labels
    <3>2. CASE wk' = [wk EXCEPT ![w] = At(r, "recheck")]
      BY <3>1, <3>2, WorkerStep DEF At
    <3>3. CASE UNCHANGED wk
      BY <3>3 DEF WorkersTyped
    <3> QED BY <1>2, <3>2, <3>3 DEF ClaimRun
  <2>3. LedgersTyped' /\ UNCHANGED world
    BY <1>2 DEF ClaimRun, LedgersTyped
  <2>4. faults' \in Nat
    <3>1. faults \in Nat
      BY DEF WorldTyped
    <3>2. faults' = faults \/ faults' = faults + 1
      BY <1>2 DEF ClaimRun
    <3> QED BY <3>1, <3>2
  <2>5. WorldTyped'
    BY <2>3, <2>4, WorldStays
  <2> QED BY <2>1, <2>2, <2>3, <2>5
<1>3. ASSUME NEW w \in Workers, DropJob(w, r) PROVE TypeOK'
  <2>1. LedgersTyped'
    BY <1>3 DEF DropJob, LedgersTyped
  <2>2. WorldTyped'
    BY <1>3, WorldStays DEF DropJob, WorldTyped
  <2> QED BY <1>3, <2>1, <2>2, RowsStay DEF DropJob, WorkersTyped
<1>4. ASSUME NEW v \in Versions, CreateRun(r, v) PROVE TypeOK'
  <2> DEFINE x == [NoRow EXCEPT !.state = "queued", !.version = v]
  <2>0. NoRow \in Row
    BY NoFactsTyped DEF NoRow, Row
  <2>1. /\ x \in Row /\ x.state = "queued" /\ x.version = v
        /\ x.holder = NoWorker /\ x.live = FALSE
    BY <2>0 DEF NoRow, Row, Active
  <2>2. row' = [row EXCEPT ![r] = x]
    BY <1>4 DEF CreateRun
  <2> HIDE DEF x
  <2>3. RowsTyped'
    BY <2>1, <2>2, RowsStep
  <2>4. UNCHANGED <<wk, att, sent, lease, jobs, world>> /\ faults' \in Nat
    BY <1>4 DEF CreateRun, WorldTyped
  <2> QED BY <2>3, <2>4, LedgersStay, WorldStays DEF WorkersTyped
<1> QED BY <1>1, <1>2, <1>3, <1>4

\* TypeOK is inductive by itself.
LEMMA StepKeepsTypes == TypeOK /\ [Next]_vars => TypeOK'
<1> SUFFICES ASSUME TypeOK, [Next]_vars PROVE TypeOK'
  OBVIOUS
<1> USE DEF TypeOK
<1>1. CASE Discover
  <2>1. LedgersTyped' /\ WorldTyped'
    BY <1>1, WorldStays DEF Discover, LedgersTyped, WorldTyped
  <2> QED BY <1>1, <2>1, RowsStay DEF Discover, WorkersTyped
<1>2. ASSUME NEW w \in Workers, RepositoryFails(w) \/ Crash(w) PROVE TypeOK'
  <2>1. /\ wk[w].pc # "idle" /\ wk[w].run \in Runs
        /\ wk' = [wk EXCEPT ![w] = At(wk[w].run, "failing")] \/ wk' = [wk EXCEPT ![w] = Idle]
    BY <1>2 DEF RepositoryFails, Crash, WorkersTyped
  <2>2. WorkersTyped'
    BY <2>1, FailingMoves
  <2>3. UNCHANGED row /\ LedgersTyped' /\ WorldTyped'
    BY <1>2, <2>1, WorldStays DEF RepositoryFails, Crash, LedgersTyped, WorldTyped
  <2> QED BY <2>2, <2>3, RowsStay
<1>3. CASE UNCHANGED vars
  BY <1>3, RowsStay, LedgersStay, WorldStays DEF vars, world, WorkersTyped, WorldTyped
<1> QED
  BY <1>1, <1>2, <1>3, HandlerKeepsTypes, WorldKeepsTypes, ClaimsKeepTypes DEF Next

-----------------------------------------------------------------------------
\* The model's columns, labels and counters keep their types whatever the runs,
\* workers and faults, and a run has a claim exactly while it is running: every
\* update of repository.pg.ts that leaves "running" clears the claim columns.
THEOREM TypeCorrect == Spec => []TypeOK
BY InitTyped, StepKeepsTypes, PTL DEF Spec

-----------------------------------------------------------------------------
(* Custody: the lease, the authorization and the attempts go together.     *)

\* A step that neither authorizes nor finalizes nor touches an attempt.
LEMMA CustodyAside ==
    ASSUME Custody, UNCHANGED <<att, lease>>,
           \A q \in Runs :
              /\ row'[q].authorized = row[q].authorized
              /\ row[q].authorized => (row'[q].state \in Active <=> row[q].state \in Active)
              /\ row'[q].state = "absent" => row[q].state = "absent"
    PROVE  Custody'
BY DEF Custody

\* Releasing a claim keeps authorization and version.
LEMMA ReleasedKeepsColumns ==
    ASSUME NEW r \in Runs, RowsTyped, NEW s
    PROVE  /\ Released(r, s).state = s /\ Released(r, s).authorized = row[r].authorized
           /\ Released(r, s).holder = NoWorker
BY DEF Released, RowsTyped, Row

\* Parking a run neither takes nor drops the lease.
LEMMA ParkedKeepsCustody ==
    ASSUME TypeOK, Custody, NEW w \in Workers, wk[w].run \in Runs,
           row' = Parked(w) \/ UNCHANGED row, UNCHANGED <<att, lease>>
    PROVE  Custody'
<1>1. \/ row[wk[w].run].state = "running" /\ row' = [row EXCEPT ![wk[w].run] = Released(wk[w].run, "recovery_required")]
      \/ UNCHANGED row
  BY DEF Parked
<1> QED BY <1>1, CustodyAside, ReleasedKeepsColumns DEF TypeOK, RowsTyped, Active

\* Only authorizeRun takes the lease and only finalizeRun drops it.
LEMMA StepKeepsCustody ==
    ASSUME TypeOK, Custody, [Next]_vars
    PROVE  Custody'
<1>t. /\ RowsTyped /\ att \in [Runs -> [Items -> Attempt]] /\ lease \in Runs \cup {NoRun}
      /\ \A w \in Workers : wk[w].pc # "idle" => wk[w].run \in Runs
  BY DEF TypeOK, LedgersTyped, WorkersTyped
<1>1. CASE UNCHANGED <<row, att, lease>>
  BY <1>1, CustodyAside
<1>2. ASSUME NEW r \in Runs, NEW v \in Versions, CreateRun(r, v) PROVE Custody'
  <2>1. /\ row' = [row EXCEPT ![r] = [NoRow EXCEPT !.state = "queued", !.version = v]]
        /\ row[r].state = "absent" /\ UNCHANGED <<att, lease>>
    BY <1>2 DEF CreateRun
  <2>2. row[r].authorized = FALSE
    BY <2>1, <1>t DEF Custody, RowsTyped, Row
  <2> QED BY <2>1, <2>2, <1>t, CustodyAside DEF NoRow, RowsTyped
<1>3. ASSUME NEW w \in Workers, NEW r \in Runs, ClaimRun(w, r) PROVE Custody'
  <2>1. /\ row' = [row EXCEPT ![r] = [row[r] EXCEPT !.state = "running", !.holder = w, !.live = TRUE]]
        /\ row[r].state \in Active /\ UNCHANGED <<att, lease>>
    BY <1>3, <1>t DEF ClaimRun, RowsTyped
  <2> QED BY <2>1, <1>t, CustodyAside DEF RowsTyped, Row, Active
<1>4. ASSUME NEW r \in Runs, AbandonedClaimLapses(r) \/ SlowClaimLapses(r) \/ BackoffElapses(r) PROVE Custody'
  <2>1. /\ UNCHANGED <<att, lease>>
        /\ \/ row' = [row EXCEPT ![r] = [row[r] EXCEPT !.live = FALSE]]
           \/ row' = [row EXCEPT ![r] = [row[r] EXCEPT !.backoff = FALSE]]
    BY <1>4, <1>t DEF AbandonedClaimLapses, SlowClaimLapses, BackoffElapses, RowsTyped
  <2> QED BY <2>1, <1>t, CustodyAside DEF RowsTyped, Row
<1>5. ASSUME NEW w \in Workers, HandlerStep(w) PROVE Custody'
  <2> DEFINE r == wk[w].run
             i == wk[w].item
  <2>1. CASE RecordRecheck(w)
    <3>1. /\ r \in Runs /\ UNCHANGED <<att, lease>>
          /\ row' = [row EXCEPT ![r] = [row[r] EXCEPT !.backoff = (wk[w].result = "unknown") \/ @]]
      BY <2>1, <1>t DEF RecordRecheck, RowsTyped
    <3> QED BY <3>1, <1>t, CustodyAside DEF RowsTyped, Row
  <2>2. CASE RejectBeforeAuthorization(w)
    <3>1. /\ r \in Runs /\ UNCHANGED <<att, lease>> /\ ~row[r].authorized
          /\ row' = [row EXCEPT ![r] = Released(r, "rejected")]
      BY <2>2, <1>t DEF RejectBeforeAuthorization
    <3> QED BY <3>1, <1>t, CustodyAside, ReleasedKeepsColumns DEF RowsTyped
  <2>3. CASE AuthorizeRejects(w)
    <3> DEFINE x == [Released(r, "rejected") EXCEPT !.execAuth = Bound(r).execAuth]
    <3>1. r \in Runs /\ UNCHANGED <<att, lease>> /\ ~row[r].authorized /\ row' = [row EXCEPT ![r] = x]
      BY <2>3, <1>t DEF AuthorizeRejects
    <3>2. x.state = "rejected" /\ x.authorized = row[r].authorized
      BY <3>1, <1>t DEF Released, RowsTyped, Row
    <3> HIDE DEF x
    <3> QED BY <3>1, <3>2, <1>t, CustodyAside DEF RowsTyped
  <2>4. CASE Authorize(w)
    <3> DEFINE x == [Bound(r) EXCEPT !.authorized = TRUE, !.snapshot = CurrentFacts(r)]
    <3>1. /\ r \in Runs /\ lease = NoRun /\ lease' = r /\ row[r].state \in Active
          /\ att' = [att EXCEPT ![r] = [j \in Items |-> NewAttempt]]
          /\ row' = [row EXCEPT ![r] = x]
      BY <2>4, <1>t DEF Authorize, Holds, Active
    <3>2. x.state = row[r].state /\ x.authorized = TRUE
      BY <3>1, <1>t DEF Bound, RowsTyped, Row
    <3>3. NewAttempt.accounting = "pending"
      BY DEF NewAttempt, NoAttempt
    <3> HIDE DEF x
    <3> QED BY <3>1, <3>2, <3>3, <1>t, NullsAssumption DEF Custody, RowsTyped, Active
  <2>5. CASE RecoverStartedAttempts(w)
    <3> DEFINE f == [j \in Items |->
                       IF j \in Stranded(r)
                       THEN [att[r][j] EXCEPT !.accounting = "accounted", !.outcome = "outcome_unknown"]
                       ELSE att[r][j]]
    <3>1. /\ r \in Runs /\ lease = r /\ UNCHANGED lease /\ att' = [att EXCEPT ![r] = f]
          /\ row' = [row EXCEPT ![r] = [row[r] EXCEPT !.accounted = @ + Cardinality(Stranded(r))]]
      BY <2>5, <1>t DEF RecoverStartedAttempts, HoldsLease, RowsTyped
    <3>2. ASSUME NEW j \in Items, att[r][j].accounting # "absent" PROVE f[j].accounting # "absent"
      <4>1. att[r][j] \in Attempt
        BY <3>1, <1>t
      <4>2. f[j].accounting \in {"accounted", att[r][j].accounting}
        BY <4>1 DEF Attempt
      <4> QED BY <3>2, <4>2
    <3>3. \A q \in Runs : row'[q].state = row[q].state /\ row'[q].authorized = row[q].authorized
      BY ZenonT(40), <3>1, <1>t DEF RowsTyped, Row
    <3> HIDE DEF f
    <3> QED BY <3>1, <3>2, <3>3, <1>t DEF Custody
  <2>6. CASE RecordProviderCallStarted(w)
    <3>1. /\ r \in Runs /\ i \in Items /\ lease = r /\ UNCHANGED <<row, lease>>
          /\ att' = [att EXCEPT ![r][i] = [att[r][i] EXCEPT !.phase = "started", !.calls = @ + 1]]
      BY <2>6, <1>t DEF RecordProviderCallStarted, HoldsLease, TypeOK, WorkersTyped
    <3>2. /\ \A q \in Runs \ {r} : att'[q] = att[q]
          /\ \A j \in Items : att'[r][j].accounting = att[r][j].accounting
      BY SMTT(90), <3>1, <1>t DEF Attempt
    <3> QED BY SMTT(90), <3>1, <3>2 DEF Custody
  <2>7. CASE CompleteAttempt(w)
    <3>1. /\ r \in Runs /\ i \in Items /\ lease = r /\ UNCHANGED lease
          /\ att' = [att EXCEPT ![r][i] = [att[r][i] EXCEPT !.accounting = "accounted", !.phase = "terminal",
                                                           !.outcome = wk[w].result]]
          /\ row' = [row EXCEPT ![r] = [row[r] EXCEPT !.accounted = @ + 1]]
      BY <2>7, <1>t DEF CompleteAttempt, HoldsLease, TypeOK, WorkersTyped, RowsTyped
    <3>2. /\ \A q \in Runs \ {r} : att'[q] = att[q]
          /\ \A j \in Items : att[r][j].accounting # "absent" => att'[r][j].accounting # "absent"
      BY <3>1, <1>t DEF Attempt
    <3>3. \A q \in Runs : row'[q].state = row[q].state /\ row'[q].authorized = row[q].authorized
      BY <3>1, <1>t DEF RowsTyped, Row
    <3> QED BY SMTT(90), <3>1, <3>2, <3>3 DEF Custody
  <2>8. CASE FinalizeRun(w)
    <3>1. PICK s \in Minted : row' = [row EXCEPT ![r] = Released(r, s)]
      BY <2>8 DEF FinalizeRun, Minted
    <3>2. r \in Runs /\ lease = r /\ lease' = NoRun /\ UNCHANGED att
      BY <2>8, <1>t DEF FinalizeRun, HoldsLease
    <3>3. Released(r, s).state \notin Active \cup {"absent"} /\ Released(r, s).authorized = row[r].authorized
      BY <3>2, <1>t, ReleasedKeepsColumns DEF Minted, Active
    <3> QED BY <3>1, <3>2, <3>3, <1>t, NullsAssumption DEF Custody, RowsTyped
  <2>9. CASE Park(w) \/ Fail(w)
    BY <2>9, <1>t, ParkedKeepsCustody DEF Park, Fail
  <2>10. CASE UNCHANGED <<row, att, lease>>
    BY <2>10, <1>1
  <2> QED
    BY <1>5, <2>1, <2>2, <2>3, <2>4, <2>5, <2>6, <2>7, <2>8, <2>9, <2>10
    DEF HandlerStep, Recheck, Probe, AuthorizeReplay, AuthorizeRefused, LoadAuthorizedRun, HeartbeatClaim,
        GetNextAttempt, RefuseBeforeCall, Dispatch, ProviderAnswers, CallRejected
<1>6. CASE UNCHANGED vars
  BY <1>6, <1>1 DEF vars
<1> QED
  BY <1>1, <1>2, <1>3, <1>4, <1>5, <1>6
  DEF Next, Discover, DropJob, RepositoryFails, Crash, RecordDevelopmentExposure, FindingsChange,
      DevelopVersion, LifecycleEvent, EditVersion

\* No run has custody initially.
LEMMA InitCustody == Init => Custody
BY NullsAssumption DEF Init, Custody, NoRow

\* The revision is leased exactly while an authorized run is not terminal: an
\* unexposed revision never stays locked, and an authorized one never unlocked.
THEOREM CustodyOfTheLease == Spec => []LeaseIsCustody
<1>1. Init => TypeOK /\ Custody
  BY InitTyped, InitCustody
<1>2. TypeOK /\ Custody /\ [Next]_vars => (TypeOK /\ Custody)'
  BY StepKeepsTypes, StepKeepsCustody
<1>3. Custody => LeaseIsCustody
  BY DEF Custody, LeaseIsCustody
<1> QED BY <1>1, <1>2, <1>3, PTL DEF Spec

-----------------------------------------------------------------------------
(* Calls: who may start, send and account a call.                          *)

InAttempt == {"exec", "dispatch", "await", "complete"}

\* No run passes to a holder that is already working on one.
NobodyGains ==
    \A q \in Runs, v \in Workers :
        row'[q].holder = v => row[q].holder = v \/ wk'[v].pc \in {"idle", "recheck"}

\* A worker the step does not move stays informed when no attempt changes.
LEMMA CallsWhenAttemptsStay ==
    ASSUME TypeOK, Calls, NobodyGains, UNCHANGED <<att, sent>>, wk' \in [Workers -> Worker],
           \A v \in Workers : wk'[v] = wk[v] \/ wk'[v].pc \notin InAttempt
    PROVE  Calls'
<1>1. \A v \in Workers : wk[v].pc \in InAttempt => wk[v].run \in Runs
  BY DEF TypeOK, WorkersTyped, InAttempt
<1>2. \A r \in Runs, i \in Items : Counted(r, i)'
  BY DEF Calls, Counted
<1>3. ASSUME NEW v \in Workers PROVE Informed(v)'
  <2>1. CASE wk'[v].pc \notin InAttempt
    BY <2>1 DEF Informed, InAttempt
  <2>2. CASE wk'[v] = wk[v] /\ wk[v].pc \in InAttempt
    <3>1. Informed(v) /\ wk[v].run \in Runs
      BY <1>1, <2>2 DEF Calls
    <3>2. row'[wk[v].run].holder = v => row[wk[v].run].holder = v
      BY <2>2, <3>1 DEF NobodyGains, InAttempt
    <3> QED BY <2>2, <3>1, <3>2 DEF Informed, Waiting
  <2> QED BY <2>1, <2>2
<1>4. ASSUME NEW v \in Workers, NEW u \in Workers PROVE Alone(v, u)'
  BY DEF Calls, Alone, InAttempt
<1> QED BY <1>2, <1>3, <1>4 DEF Calls

\* claimRun alone sets a holder, for a worker that is idle; every other step
\* keeps a run's holder or clears it.
LEMMA HoldersOnlyLeave ==
    ASSUME TypeOK, [Next]_vars
    PROVE  NobodyGains
<1>t. /\ RowsTyped
      /\ \A w \in Workers : wk[w].pc # "idle" => wk[w].run \in Runs
  BY DEF TypeOK, WorkersTyped
<1>1. ASSUME NEW w \in Workers, NEW r \in Runs, ClaimRun(w, r) PROVE NobodyGains
  <2>1. /\ row' = [row EXCEPT ![r] = [row[r] EXCEPT !.state = "running", !.holder = w, !.live = TRUE]]
        /\ wk[w].pc = "idle"
        /\ wk' = [wk EXCEPT ![w] = At(r, "recheck")] \/ UNCHANGED wk
    BY <1>1, <1>t DEF ClaimRun, RowsTyped
  <2>2. wk'[w].pc \in {"idle", "recheck"}
    BY <2>1 DEF At, TypeOK, WorkersTyped
  <2>3. \A q \in Runs : row'[q].holder = row[q].holder \/ row'[q].holder = w
    BY <2>1, <1>t DEF RowsTyped, Row
  <2> QED BY <2>2, <2>3 DEF NobodyGains
<1>2. ASSUME \A q \in Runs : row'[q].holder \in {row[q].holder, NoWorker} PROVE NobodyGains
  BY <1>2, NullsAssumption DEF NobodyGains
<1>3. ASSUME NEW r \in Runs, NEW x, row' = [row EXCEPT ![r] = x], x.holder \in {row[r].holder, NoWorker}
      PROVE  NobodyGains
  BY <1>2, <1>3, <1>t DEF RowsTyped
<1>4. ASSUME NEW r \in Runs, NEW v \in Versions, CreateRun(r, v) PROVE NobodyGains
  <2>1. row' = [row EXCEPT ![r] = [NoRow EXCEPT !.state = "queued", !.version = v]]
    BY <1>4 DEF CreateRun
  <2> QED BY <2>1, <1>3 DEF NoRow
<1>5. ASSUME NEW r \in Runs, AbandonedClaimLapses(r) \/ SlowClaimLapses(r) \/ BackoffElapses(r) PROVE NobodyGains
  <2>1. \/ row' = [row EXCEPT ![r] = [row[r] EXCEPT !.live = FALSE]]
        \/ row' = [row EXCEPT ![r] = [row[r] EXCEPT !.backoff = FALSE]]
    BY <1>5, <1>t DEF AbandonedClaimLapses, SlowClaimLapses, BackoffElapses, RowsTyped
  <2>2. /\ [row[r] EXCEPT !.live = FALSE].holder = row[r].holder
        /\ [row[r] EXCEPT !.backoff = FALSE].holder = row[r].holder
    BY <1>t DEF RowsTyped, Row
  <2> QED BY <2>1, <2>2, <1>3
<1>6. ASSUME NEW w \in Workers, HandlerStep(w) PROVE NobodyGains
  <2> DEFINE r == wk[w].run
  <2>1. CASE RecordRecheck(w)
    <3>1. /\ r \in Runs
          /\ row' = [row EXCEPT ![r] = [row[r] EXCEPT !.backoff = (wk[w].result = "unknown") \/ @]]
      BY <2>1, <1>t DEF RecordRecheck, RowsTyped
    <3> QED BY <3>1, <1>2, <1>t DEF RowsTyped, Row
  <2>2. CASE RejectBeforeAuthorization(w)
    <3>1. r \in Runs /\ row' = [row EXCEPT ![r] = Released(r, "rejected")]
      BY <2>2, <1>t DEF RejectBeforeAuthorization
    <3> QED BY <3>1, <1>t, <1>3, ReleasedKeepsColumns
  <2>3. CASE AuthorizeRejects(w)
    <3>1. /\ r \in Runs
          /\ row' = [row EXCEPT ![r] = [Released(r, "rejected") EXCEPT !.execAuth = Bound(r).execAuth]]
      BY <2>3, <1>t DEF AuthorizeRejects
    <3> QED BY <3>1, <1>t, <1>2 DEF RowsTyped, Row, Released
  <2>4. CASE Authorize(w)
    <3>1. /\ r \in Runs
          /\ row' = [row EXCEPT ![r] = [Bound(r) EXCEPT !.authorized = TRUE, !.snapshot = CurrentFacts(r)]]
      BY <2>4, <1>t DEF Authorize
    <3> QED BY <3>1, <1>t, <1>2 DEF RowsTyped, Row, Bound
  <2>5. CASE RecoverStartedAttempts(w) \/ CompleteAttempt(w)
    <3>1. /\ r \in Runs
          /\ \E n : row' = [row EXCEPT ![r] = [row[r] EXCEPT !.accounted = n]]
      BY <2>5, <1>t DEF RecoverStartedAttempts, CompleteAttempt, RowsTyped
    <3> QED BY <3>1, <1>2, <1>t DEF RowsTyped, Row
  <2>6. CASE FinalizeRun(w)
    <3>1. r \in Runs /\ \E s : row' = [row EXCEPT ![r] = Released(r, s)]
      BY <2>6, <1>t DEF FinalizeRun
    <3> QED BY <3>1, <1>t, <1>3, ReleasedKeepsColumns
  <2>7. CASE Park(w) \/ Fail(w)
    <3>1. r \in Runs /\ (UNCHANGED row \/ row' = [row EXCEPT ![r] = Released(r, "recovery_required")])
      BY <2>7, <1>t DEF Park, Fail, Parked
    <3> QED BY <3>1, <1>t, <1>2, <1>3, ReleasedKeepsColumns
  <2>8. CASE UNCHANGED row
    BY <2>8, <1>2
  <2> QED
    BY <1>6, <2>1, <2>2, <2>3, <2>4, <2>5, <2>6, <2>7, <2>8
    DEF HandlerStep, Recheck, Probe, AuthorizeReplay, AuthorizeRefused, LoadAuthorizedRun, HeartbeatClaim,
        GetNextAttempt, RefuseBeforeCall, RecordProviderCallStarted, Dispatch, ProviderAnswers, CallRejected
<1>7. CASE UNCHANGED row
  BY <1>7, <1>2
<1> QED
  BY <1>1, <1>4, <1>5, <1>6, <1>7
  DEF Next, Discover, DropJob, RepositoryFails, Crash, RecordDevelopmentExposure, FindingsChange,
      DevelopVersion, LifecycleEvent, EditVersion, vars

\* A worker that moved, among workers that did not, when the attempts of its
\* run may have changed: what has to be shown is about its own item and run.
LEMMA OnlyMover ==
    ASSUME TypeOK, Calls, NobodyGains, NEW w \in Workers, NEW x, wk' = [wk EXCEPT ![w] = x],
           \A r \in Runs, i \in Items : Counted(r, i)',
           Informed(w)',
           \A v \in Workers \ {w} : wk[v].pc \in InAttempt =>
              LET r == wk[v].run
                  i == wk[v].item IN
              /\ row'[r].holder = v => att'[r][i] = att[r][i]
              /\ wk[v].pc = "dispatch" => att'[r][i].calls = att[r][i].calls
              /\ sent'[r][i] = sent[r][i],
           \A v \in Workers \ {w} : Alone(w, v)' /\ Alone(v, w)'
    PROVE  Calls'
<1>1. \A v \in Workers \ {w} : wk'[v] = wk[v]
  BY DEF TypeOK, WorkersTyped
<1>2. ASSUME NEW v \in Workers \ {w} PROVE Informed(v)'
  <2>1. CASE wk[v].pc \notin InAttempt
    BY <1>1, <2>1 DEF Informed, InAttempt
  <2>2. CASE wk[v].pc \in InAttempt
    <3> DEFINE r == wk[v].run
               i == wk[v].item
    <3>1. r \in Runs /\ i \in Items /\ Informed(v) /\ wk'[v] = wk[v]
      BY <1>1, <2>2 DEF Calls, TypeOK, WorkersTyped, InAttempt
    <3>2. row'[r].holder = v => row[r].holder = v
      BY <2>2, <3>1 DEF NobodyGains, InAttempt
    <3>3. /\ row'[r].holder = v => att'[r][i] = att[r][i]
          /\ wk[v].pc = "dispatch" => att'[r][i].calls = att[r][i].calls
          /\ sent'[r][i] = sent[r][i]
      BY <2>2
    <3> QED BY SMTT(90), <3>1, <3>2, <3>3 DEF Informed, Waiting
  <2> QED BY <2>1, <2>2
<1>3. ASSUME NEW v \in Workers, NEW u \in Workers PROVE Alone(v, u)'
  <2>1. CASE v # w /\ u # w
    BY <1>1, <2>1 DEF Calls, Alone
  <2>2. CASE v = w /\ u # w
    BY <2>2
  <2>3. CASE u = w /\ v # w
    BY <2>3
  <2>4. CASE v = w /\ u = w
    BY <2>4 DEF Alone
  <2> QED BY <2>1, <2>2, <2>3, <2>4
<1> QED BY <1>2, <1>3 DEF Calls

\* Steps that touch no attempt and leave the worker outside of one.
LEMMA QuietKeepsCalls ==
    ASSUME TypeOK, Calls, NobodyGains, TypeOK', UNCHANGED <<att, sent>>,
           \/ UNCHANGED wk
           \/ \E w \in Workers, x \in Worker : wk' = [wk EXCEPT ![w] = x] /\ x.pc \notin InAttempt
    PROVE  Calls'
<1>1. wk' \in [Workers -> Worker] /\ wk \in [Workers -> Worker]
  BY DEF TypeOK, WorkersTyped
<1>2. \A v \in Workers : wk'[v] = wk[v] \/ wk'[v].pc \notin InAttempt
  BY <1>1
<1> QED BY <1>1, <1>2, CallsWhenAttemptsStay

\* A committed step leaves the worker outside of an attempt if it should.
LEMMA ProceedOutside ==
    ASSUME TypeOK, NEW w \in Workers, wk[w].pc # "idle", NEW to \in Worker, to.pc \notin InAttempt, Proceed(w, to)
    PROVE  \E x \in Worker : wk' = [wk EXCEPT ![w] = x] /\ x.pc \notin InAttempt
<1>1. At(wk[w].run, "failing") \in Worker /\ At(wk[w].run, "failing").pc \notin InAttempt
  BY ItemsAssumption, ValuesTyped DEF TypeOK, WorkersTyped, Labels, At, InAttempt
<1> QED BY <1>1 DEF Proceed

\* Labels outside an attempt.
LEMMA OutsideLabels ==
    ASSUME NEW r \in Runs, NEW label \in Outside
    PROVE  /\ At(r, label) \in Worker /\ At(r, label).pc \notin InAttempt
           /\ Idle \in Worker /\ Idle.pc \notin InAttempt
BY ItemsAssumption, ValuesTyped DEF At, Idle, InAttempt, Outside

\* Handler steps that neither touch attempts nor enter one keep the call accounting.
LEMMA QuietHandler ==
    ASSUME TypeOK, NEW w \in Workers,
           \/ Recheck(w) \/ Probe(w) \/ RecordRecheck(w) \/ RejectBeforeAuthorization(w) \/ Park(w)
           \/ AuthorizeReplay(w) \/ AuthorizeRejects(w) \/ AuthorizeRefused(w) \/ LoadAuthorizedRun(w)
           \/ HeartbeatClaim(w) \/ FinalizeRun(w) \/ Fail(w) \/ CallRejected(w)
           \/ RepositoryFails(w) \/ Crash(w)
    PROVE  /\ UNCHANGED <<att, sent>>
           /\ \E x \in Worker : wk' = [wk EXCEPT ![w] = x] /\ x.pc \notin InAttempt
<1> DEFINE r == wk[w].run
<1>1. wk[w].pc # "idle" => r \in Runs
  BY DEF TypeOK, WorkersTyped
<1>2. UNCHANGED <<att, sent>>
  BY DEF Recheck, Probe, RecordRecheck, RejectBeforeAuthorization, Park, AuthorizeReplay, AuthorizeRejects,
         AuthorizeRefused, LoadAuthorizedRun, HeartbeatClaim, FinalizeRun, Fail, CallRejected, RepositoryFails, Crash
<1>3. {"authorize", "park", "probe", "reject", "load", "recover", "next", "failing"} \subseteq Outside
  BY DEF Outside, Labels
<1>4. CASE Recheck(w)
  BY <1>1, <1>3, <1>4, OutsideLabels, ProceedOutside, <1>2 DEF Recheck
<1>5. CASE Probe(w)
  <2>1. PICK answer \in {"holds", "no_longer_holds", "unknown"} :
           wk' = [wk EXCEPT ![w] = [wk[w] EXCEPT !.pc = "record", !.result = answer]]
    BY <1>5 DEF Probe, TypeOK, WorkersTyped
  <2> DEFINE x == [wk[w] EXCEPT !.pc = "record", !.result = answer]
  <2>2. x \in Worker /\ x.pc \notin InAttempt
    BY DEF TypeOK, WorkersTyped, Worker, Labels, InAttempt
  <2> QED BY <2>1, <2>2, <1>2
<1>6. CASE RecordRecheck(w)
  BY <1>1, <1>3, <1>6, OutsideLabels, ProceedOutside, <1>2 DEF RecordRecheck
<1>7. CASE RejectBeforeAuthorization(w) \/ FinalizeRun(w)
  <2>1. Proceed(w, Idle) /\ wk[w].pc # "idle"
    BY <1>7 DEF RejectBeforeAuthorization, FinalizeRun
  <2> QED BY <1>1, <1>3, <2>1, OutsideLabels, ProceedOutside, <1>2
<1>8. CASE Park(w)
  BY <1>1, <1>3, <1>8, OutsideLabels, ProceedOutside, <1>2 DEF Park
<1>9. CASE AuthorizeReplay(w) \/ HeartbeatClaim(w)
  BY <1>1, <1>3, <1>9, OutsideLabels, ProceedOutside, <1>2 DEF AuthorizeReplay, HeartbeatClaim
<1>10. CASE \/ AuthorizeRejects(w) \/ AuthorizeRefused(w) \/ Fail(w) \/ CallRejected(w)
            \/ RepositoryFails(w) \/ Crash(w)
  <2>1. wk[w].pc # "idle" /\ (wk' = [wk EXCEPT ![w] = At(r, "failing")] \/ wk' = [wk EXCEPT ![w] = Idle])
    BY <1>10 DEF AuthorizeRejects, AuthorizeRefused, Fail, CallRejected, RepositoryFails, Crash
  <2> QED BY <2>1, <1>1, <1>2, <1>3, OutsideLabels
<1>11. CASE LoadAuthorizedRun(w)
  <2>1. CASE Proceed(w, At(r, "recover"))
    BY <1>1, <1>3, <1>11, <2>1, OutsideLabels, ProceedOutside, <1>2 DEF LoadAuthorizedRun
  <2>2. CASE wk' = [wk EXCEPT ![w] = At(r, "failing")]
    BY <1>1, <1>3, <1>11, <2>2, OutsideLabels, <1>2 DEF LoadAuthorizedRun
  <2> QED BY <1>11, <2>1, <2>2 DEF LoadAuthorizedRun
<1> QED BY <1>4, <1>5, <1>6, <1>7, <1>8, <1>9, <1>10, <1>11

\* The steps of a worker that holds its run and changes the run's attempts.
LEMMA AttemptHandler ==
    ASSUME TypeOK, TypeOK', Custody, Calls, NobodyGains, NEW w \in Workers,
           Authorize(w) \/ RecoverStartedAttempts(w) \/ CompleteAttempt(w)
    PROVE  Calls'
<1>r. PICK r, i : r = wk[w].run /\ i = wk[w].item
  OBVIOUS
<1>t. /\ r \in Runs /\ row[r].holder = w /\ UNCHANGED sent
      /\ att \in [Runs -> [Items -> Attempt]] /\ att' \in [Runs -> [Items -> Attempt]]
      /\ \A v \in Workers : wk[v].pc \in InAttempt => wk[v].run \in Runs /\ wk[v].item \in Items
  BY <1>r DEF Authorize, RecoverStartedAttempts, CompleteAttempt, HoldsLease, Holds, TypeOK, WorkersTyped,
              LedgersTyped, InAttempt
<1>1. /\ \A q \in Runs \ {r} : att'[q] = att[q]
      /\ \A j \in Items : att'[r][j].calls = att[r][j].calls
      /\ \A j \in Items : Counted(r, j)'
  <2>1. CASE Authorize(w)
    <3>1. att[r] = [j \in Items |-> NoAttempt] /\ att' = [att EXCEPT ![r] = [j \in Items |-> NewAttempt]]
      BY <2>1, <1>r, <1>t DEF Authorize, Custody
    <3>2. /\ NoAttempt.calls = 0 /\ NewAttempt.calls = 0 /\ NewAttempt.phase = "not_started"
          /\ NewAttempt.outcome = "none" /\ NewAttempt.accounting = "pending"
      BY DEF NewAttempt, NoAttempt
    <3>3. /\ \A q \in Runs \ {r} : att'[q] = att[q]
          /\ \A j \in Items : att[r][j] = NoAttempt /\ att'[r][j] = NewAttempt
      BY <3>1, <1>r, <1>t
    <3>4. ASSUME NEW j \in Items PROVE Counted(r, j)'
      <4>1. Counted(r, j) /\ sent'[r][j] = sent[r][j]
        BY <1>r, <1>t DEF Calls
      <4> QED BY <3>2, <3>3, <4>1 DEF Counted
    <3> QED BY <3>2, <3>3, <3>4
  <2>2. CASE RecoverStartedAttempts(w)
    <3> DEFINE f == [j \in Items |->
                       IF j \in Stranded(r)
                       THEN [att[r][j] EXCEPT !.accounting = "accounted", !.outcome = "outcome_unknown"]
                       ELSE att[r][j]]
    <3>1. att' = [att EXCEPT ![r] = f]
      BY <2>2, <1>r DEF RecoverStartedAttempts
    <3>2. ASSUME NEW j \in Items
          PROVE  /\ f[j].calls = att[r][j].calls /\ f[j].phase = att[r][j].phase
                 /\ f[j].accounting \in {att[r][j].accounting, "accounted"}
                 /\ \/ f[j].outcome = att[r][j].outcome /\ f[j].accounting = att[r][j].accounting
                    \/ f[j].outcome = "outcome_unknown" /\ att[r][j].phase = "started"
      <4>1. att[r][j] \in Attempt
        BY <1>r, <1>t
      <4>2. CASE j \in Stranded(r)
        BY <4>1, <4>2 DEF Attempt, Stranded
      <4>3. CASE j \notin Stranded(r)
        BY <4>3
      <4> QED BY <4>2, <4>3
    <3> HIDE DEF f
    <3>3. \A j \in Items : att'[r][j] = f[j]
      BY <3>1, <1>r, <1>t
    <3>4. \A q \in Runs \ {r} : att'[q] = att[q]
      BY <3>1, <1>r, <1>t
    <3>6. ASSUME NEW j \in Items PROVE Counted(r, j)'
      <4>1. Counted(r, j) /\ sent'[r][j] = sent[r][j] /\ att'[r][j] = f[j]
        BY <3>3, <1>r, <1>t DEF Calls
      <4> QED BY <3>2, <4>1 DEF Counted
    <3> QED BY <3>2, <3>3, <3>4, <3>6
  <2>3. CASE CompleteAttempt(w)
    <3> DEFINE x == [att[r][i] EXCEPT !.accounting = "accounted", !.phase = "terminal", !.outcome = wk[w].result]
    <3>1. i \in Items /\ att[r][i] \in Attempt /\ att' = [att EXCEPT ![r][i] = x] /\ wk[w].result \in Outcomes
      BY <2>3, <1>r, <1>t DEF CompleteAttempt, TypeOK, WorkersTyped, InAttempt
    <3>2. /\ x.calls = att[r][i].calls /\ x.phase = "terminal" /\ x.outcome = wk[w].result
          /\ x.accounting = "accounted"
      BY <3>1 DEF Attempt
    <3>3. wk[w].result \notin {"none", "outcome_unknown"} /\ (wk[w].result = "usable" => sent[r][i] = 1)
      BY <2>3, <1>r DEF CompleteAttempt, Calls, Informed, TypeOK, WorkersTyped, Worker, Outcomes
    <3> HIDE DEF x
    <3>4. /\ \A q \in Runs \ {r} : att'[q] = att[q]
          /\ \A j \in Items : att'[r][j] = IF j = i THEN x ELSE att[r][j]
      BY <3>1, <1>r, <1>t
    <3>6. ASSUME NEW j \in Items PROVE Counted(r, j)'
      <4>1. Counted(r, j) /\ sent'[r][j] = sent[r][j] /\ att'[r][j] = IF j = i THEN x ELSE att[r][j]
        BY <3>4, <1>r, <1>t DEF Calls
      <4>2. CASE j = i
        BY <3>2, <3>3, <4>1, <4>2 DEF Counted
      <4>3. CASE j # i
        BY <4>1, <4>3 DEF Counted
      <4> QED BY <4>2, <4>3
    <3> QED BY <3>2, <3>4, <3>6
  <2> QED BY <2>1, <2>2, <2>3
<1>2. \A q \in Runs, j \in Items : Counted(q, j)'
  <2>1. \A q \in Runs, j \in Items : Counted(q, j)
    BY DEF Calls
  <2>2. ASSUME NEW q \in Runs \ {r}, NEW j \in Items PROVE Counted(q, j)'
    <3>1. Counted(q, j) /\ sent'[q][j] = sent[q][j] /\ att'[q][j] = att[q][j]
      BY <1>1, <1>r, <1>t, <2>1
    <3> QED BY <3>1 DEF Counted
  <2> QED BY <1>1, <2>2
<1>3. PICK x \in Worker : wk' = [wk EXCEPT ![w] = x] /\ x.pc \notin InAttempt
  <2>1. wk[w].pc # "idle" /\ \E label \in Outside : Proceed(w, At(r, label))
    BY <1>r DEF Authorize, RecoverStartedAttempts, CompleteAttempt, Outside, Labels
  <2> QED BY <2>1, <1>r, <1>t, OutsideLabels, ProceedOutside
<1>4. wk'[w].pc \notin InAttempt
  BY <1>3 DEF TypeOK, WorkersTyped
<1>5. Informed(w)' /\ \A v \in Workers : Alone(w, v)' /\ Alone(v, w)'
  BY <1>4 DEF Informed, Alone, InAttempt
<1>6. ASSUME NEW v \in Workers \ {w}, wk[v].pc \in InAttempt
      PROVE  LET q == wk[v].run
                 j == wk[v].item IN
             /\ row'[q].holder = v => att'[q][j] = att[q][j]
             /\ wk[v].pc = "dispatch" => att'[q][j].calls = att[q][j].calls
             /\ sent'[q][j] = sent[q][j]
  <2>1. row'[r].holder = v => FALSE
    <3>1. wk'[v] = wk[v]
      BY <1>3 DEF TypeOK, WorkersTyped
    <3> QED BY <3>1, <1>6, <1>r, <1>t DEF NobodyGains, InAttempt
  <2> QED BY <2>1, <1>1, <1>6, <1>r, <1>t
<1> QED BY <1>2, <1>3, <1>5, <1>6, OnlyMover

\* The steps of a worker inside an attempt that leave the ledgers alone.
LEMMA StillHandler ==
    ASSUME TypeOK, TypeOK', Calls, NobodyGains, NEW w \in Workers,
           GetNextAttempt(w) \/ RefuseBeforeCall(w) \/ ProviderAnswers(w)
    PROVE  Calls'
<1>r. PICK r, i : r = wk[w].run /\ i = wk[w].item
  OBVIOUS
<1>t. r \in Runs /\ wk \in [Workers -> Worker] /\ UNCHANGED <<row, att, sent>>
  BY <1>r DEF GetNextAttempt, RefuseBeforeCall, ProviderAnswers, TypeOK, WorkersTyped
<1>1. ASSUME NEW x, wk' = [wk EXCEPT ![w] = x], x.pc # "dispatch", Informed(w)'
      PROVE  Calls'
  <2>1. \A q \in Runs, j \in Items : Counted(q, j)'
    BY <1>t DEF Calls, Counted
  <2>2. \A v \in Workers : Alone(w, v)' /\ Alone(v, w)'
    BY <1>1, <1>t DEF Alone
  <2> QED BY <1>1, <1>t, <2>1, <2>2, OnlyMover
<1>2. ASSUME NEW label \in Outside, Proceed(w, At(r, label)), wk[w].pc # "idle" PROVE Calls'
  BY <1>2, <1>t, OutsideLabels, ProceedOutside, QuietKeepsCalls
<1>3. CASE GetNextAttempt(w)
  <2>1. wk[w].pc # "idle" /\ "finalize" \in Outside /\ "failing" \in Outside
    BY <1>3 DEF GetNextAttempt, Outside, Labels
  <2>2. ASSUME NEW j \in Waiting(r), wk' = [wk EXCEPT ![w] = On(r, j, "exec")] PROVE Calls'
    <3>1. wk'[w] = On(r, j, "exec") /\ j \in Waiting(r)'
      BY <2>2, <1>t DEF Waiting
    <3>2. Informed(w)' /\ On(r, j, "exec").pc # "dispatch"
      BY <3>1 DEF Informed, On
    <3> QED BY <2>2, <3>2, <1>1
  <2>3. ASSUME wk' = [wk EXCEPT ![w] = At(r, "failing")] PROVE Calls'
    BY <2>1, <2>3, <1>t, OutsideLabels, QuietKeepsCalls
  <2>4. CASE \E j \in Waiting(r) : Proceed(w, On(r, j, "exec"))
    BY <2>2, <2>3, <2>4, <1>r DEF Proceed
  <2>5. CASE Proceed(w, At(r, "finalize"))
    BY <2>1, <2>5, <1>2
  <2> QED BY <1>3, <2>4, <2>5, <1>r DEF GetNextAttempt
<1>4. CASE RefuseBeforeCall(w) \/ ProviderAnswers(w)
  <2>1. PICK answer \in {"usable", "errored"} :
           /\ wk' = [wk EXCEPT ![w] = [wk[w] EXCEPT !.pc = "complete", !.result = answer]]
           /\ answer = "usable" => wk[w].pc = "await"
    BY <1>4, <1>t DEF RefuseBeforeCall, ProviderAnswers
  <2> DEFINE x == [wk[w] EXCEPT !.pc = "complete", !.result = answer]
  <2>2. x.pc = "complete" /\ x.run = r /\ x.item = i /\ x.result = answer
    BY <1>r, <1>t DEF Worker
  <2> HIDE DEF x
  <2>3. wk'[w] = x
    BY <2>1, <1>t DEF x
  <2>4. answer = "usable" => sent[r][i] = 1
    BY <2>1, <1>r DEF Calls, Informed
  <2>5. Informed(w)'
    BY <2>2, <2>3, <2>4, <1>t DEF Informed
  <2> QED BY <2>1, <2>2, <2>5, <1>1 DEF x
<1> QED BY <1>3, <1>4

\* The heart of it: a holder that starts a call finds the attempt untouched.
LEMMA StartHandler ==
    ASSUME TypeOK, TypeOK', Calls, NobodyGains, NEW w \in Workers, RecordProviderCallStarted(w)
    PROVE  Calls'
<1>r. PICK r, i : r = wk[w].run /\ i = wk[w].item
  OBVIOUS
<1> DEFINE a == [att[r][i] EXCEPT !.phase = "started", !.calls = @ + 1]
<1>t. /\ r \in Runs /\ i \in Items /\ att[r][i] \in Attempt /\ row[r].holder = w /\ wk[w].pc = "exec"
      /\ att \in [Runs -> [Items -> Attempt]] /\ UNCHANGED <<row, sent>> /\ wk \in [Workers -> Worker]
      /\ att' = [att EXCEPT ![r][i] = a]
  <2>1. /\ r \in Runs /\ i \in Items /\ row[r].holder = w /\ wk[w].pc = "exec"
        /\ UNCHANGED <<row, sent>> /\ wk \in [Workers -> Worker]
    BY <1>r DEF RecordProviderCallStarted, HoldsLease, Holds, TypeOK, WorkersTyped
  <2>2. att \in [Runs -> [Items -> Attempt]] /\ att[r][i] \in Attempt
    BY <2>1 DEF TypeOK, LedgersTyped
  <2>3. att' = [att EXCEPT ![r][i] = a]
    BY <1>r, <2>1, <2>2 DEF RecordProviderCallStarted
  <2> QED BY <2>1, <2>2, <2>3
<1>1. att[r][i].phase = "not_started" /\ att[r][i].calls = 0 /\ sent[r][i] = 0
  <2>1. i \in Waiting(r)
    BY <1>r, <1>t DEF Calls, Informed
  <2>2. Counted(r, i) /\ sent[r][i] \in Nat
    BY <1>t DEF Calls, TypeOK, LedgersTyped
  <2> QED BY <2>1, <2>2 DEF Counted, Waiting
<1>2. a.phase = "started" /\ a.calls = 1 /\ a.outcome = att[r][i].outcome /\ a.accounting = att[r][i].accounting
  BY <1>t, <1>1 DEF Attempt
<1> HIDE DEF a
<1>3. \A q \in Runs, j \in Items : att'[q][j] = IF q = r /\ j = i THEN a ELSE att[q][j]
  BY <1>t
<1>4. ASSUME NEW q \in Runs, NEW j \in Items PROVE Counted(q, j)'
  <2>1. Counted(q, j) /\ sent'[q][j] = sent[q][j] /\ att'[q][j] = IF q = r /\ j = i THEN a ELSE att[q][j]
    BY <1>3, <1>t DEF Calls
  <2>2. CASE q = r /\ j = i
    BY <1>1, <1>2, <2>1, <2>2 DEF Counted
  <2>3. CASE ~(q = r /\ j = i)
    BY <2>1, <2>3 DEF Counted
  <2> QED BY <2>2, <2>3
<1>5. PICK x : wk' = [wk EXCEPT ![w] = x] /\ x \in {On(r, i, "dispatch"), At(r, "failing")}
  BY <1>r DEF RecordProviderCallStarted, Proceed
<1>6. wk'[w] = x /\ \A v \in Workers \ {w} : wk'[v] = wk[v]
  BY <1>5, <1>t
<1>7. Informed(w)'
  BY <1>1, <1>2, <1>3, <1>5, <1>6, <1>t DEF Informed, On, At
<1>8. ASSUME NEW v \in Workers \ {w}, wk[v].pc = "dispatch" PROVE wk[v].run # r \/ wk[v].item # i
  BY <1>1, <1>8 DEF Calls, Informed
<1>9. \A v \in Workers \ {w} : Alone(w, v)' /\ Alone(v, w)'
  BY <1>5, <1>6, <1>8 DEF Alone, On, At
<1>10. ASSUME NEW v \in Workers \ {w}, wk[v].pc \in InAttempt
       PROVE  LET q == wk[v].run
                  j == wk[v].item IN
              /\ row'[q].holder = v => att'[q][j] = att[q][j]
              /\ wk[v].pc = "dispatch" => att'[q][j].calls = att[q][j].calls
              /\ sent'[q][j] = sent[q][j]
  <2>1. wk[v].run \in Runs /\ wk[v].item \in Items
    BY <1>10 DEF TypeOK, WorkersTyped, InAttempt
  <2> QED BY <2>1, <1>3, <1>8, <1>10, <1>t
<1> QED BY <1>4, <1>5, <1>7, <1>9, <1>10, OnlyMover

\* The request that leaves was counted, and it is the first one.
LEMMA DispatchHandler ==
    ASSUME TypeOK, TypeOK', Calls, NobodyGains, NEW w \in Workers, Dispatch(w)
    PROVE  Calls'
<1>r. PICK r, i : r = wk[w].run /\ i = wk[w].item
  OBVIOUS
<1>t. /\ r \in Runs /\ i \in Items /\ wk[w].pc = "dispatch"
      /\ UNCHANGED <<row, att>> /\ wk \in [Workers -> Worker] /\ sent \in [Runs -> [Items -> Nat]]
      /\ sent' = [sent EXCEPT ![r][i] = @ + 1]
      /\ wk' = [wk EXCEPT ![w] = [wk[w] EXCEPT !.pc = "await"]]
  BY <1>r DEF Dispatch, TypeOK, WorkersTyped, LedgersTyped
<1>1. att[r][i].calls = 1 /\ sent[r][i] = 0
  BY <1>r, <1>t DEF Calls, Informed
<1>2. \A q \in Runs, j \in Items : sent'[q][j] = IF q = r /\ j = i THEN 1 ELSE sent[q][j]
  BY <1>t, <1>1
<1>3. ASSUME NEW q \in Runs, NEW j \in Items PROVE Counted(q, j)'
  <2>1. Counted(q, j) /\ att'[q][j] = att[q][j] /\ sent'[q][j] = IF q = r /\ j = i THEN 1 ELSE sent[q][j]
    BY <1>2, <1>t DEF Calls
  <2> QED BY <1>1, <2>1 DEF Counted
<1>4. /\ wk'[w].pc = "await" /\ wk'[w].run = r /\ wk'[w].item = i
      /\ \A v \in Workers \ {w} : wk'[v] = wk[v]
  BY <1>t, <1>r DEF Worker
<1>5. Informed(w)'
  BY <1>2, <1>4, <1>t DEF Informed
<1>6. \A v \in Workers \ {w} : Alone(w, v)' /\ Alone(v, w)'
  BY <1>4 DEF Alone
<1>7. ASSUME NEW v \in Workers, wk[v].pc \in InAttempt, v # w PROVE Informed(v)'
  <2>1. Informed(v) /\ Alone(w, v) /\ wk[v].run \in Runs /\ wk[v].item \in Items /\ wk'[v] = wk[v]
    BY <1>4, <1>7 DEF Calls, TypeOK, WorkersTyped, InAttempt
  <2>2. sent'[wk[v].run][wk[v].item] =
          IF wk[v].run = r /\ wk[v].item = i THEN 1 ELSE sent[wk[v].run][wk[v].item]
    BY <1>2, <2>1
  <2>3. wk[v].pc = "dispatch" => ~(wk[v].run = r /\ wk[v].item = i)
    BY <1>7, <1>r, <1>t, <2>1 DEF Alone
  <2> QED BY <1>1, <1>t, <2>1, <2>2, <2>3 DEF Informed, Waiting
<1>8. \A v \in Workers : Informed(v)'
  <2>1. ASSUME NEW v \in Workers, wk[v].pc \notin InAttempt, v # w PROVE Informed(v)'
    BY <1>4, <2>1 DEF Informed, InAttempt
  <2> QED BY <1>5, <1>7, <2>1
<1>9. \A u, v \in Workers : Alone(u, v)'
  BY <1>4, <1>6 DEF Calls, Alone
<1> QED BY <1>3, <1>8, <1>9 DEF Calls

\* Every step keeps the call accounting.
LEMMA StepKeepsCalls ==
    ASSUME TypeOK, TypeOK', Custody, Calls, [Next]_vars
    PROVE  Calls'
<1>g. NobodyGains
  BY HoldersOnlyLeave
<1>1. ASSUME UNCHANGED <<wk, att, sent>> PROVE Calls'
  BY <1>1, <1>g, QuietKeepsCalls
<1>2. ASSUME NEW w \in Workers, NEW r \in Runs, ClaimRun(w, r) PROVE Calls'
  <2>1. "recheck" \in Outside
    BY DEF Outside, Labels
  <2> QED BY <1>2, <1>g, <2>1, OutsideLabels, QuietKeepsCalls DEF ClaimRun
<1>3. ASSUME NEW w \in Workers, HandlerStep(w) \/ RepositoryFails(w) \/ Crash(w) PROVE Calls'
  <2>1. CASE GetNextAttempt(w) \/ RefuseBeforeCall(w) \/ ProviderAnswers(w)
    BY <2>1, <1>g, StillHandler
  <2>2. CASE RecordProviderCallStarted(w)
    BY <2>2, <1>g, StartHandler
  <2>3. CASE Dispatch(w)
    BY <2>3, <1>g, DispatchHandler
  <2>4. CASE Authorize(w) \/ RecoverStartedAttempts(w) \/ CompleteAttempt(w)
    BY <2>4, <1>g, AttemptHandler
  <2>5. CASE \/ Recheck(w) \/ Probe(w) \/ RecordRecheck(w) \/ RejectBeforeAuthorization(w) \/ Park(w)
             \/ AuthorizeReplay(w) \/ AuthorizeRejects(w) \/ AuthorizeRefused(w) \/ LoadAuthorizedRun(w)
             \/ HeartbeatClaim(w) \/ FinalizeRun(w) \/ Fail(w) \/ CallRejected(w)
             \/ RepositoryFails(w) \/ Crash(w)
    BY <2>5, <1>g, QuietHandler, QuietKeepsCalls
  <2> QED BY <1>3, <2>1, <2>2, <2>3, <2>4, <2>5 DEF HandlerStep
<1> QED
  BY <1>1, <1>2, <1>3
  DEF Next, Discover, CreateRun, DropJob, AbandonedClaimLapses, SlowClaimLapses, BackoffElapses,
      RecordDevelopmentExposure, FindingsChange, DevelopVersion, LifecycleEvent, EditVersion, vars

\* No call has been counted initially.
LEMMA InitCalls == Init => Calls
BY DEF Init, Calls, Counted, Informed, Alone, NoAttempt, Idle

THEOREM InductiveInvariant == Spec => []Inductive
<1>1. Init => Inductive
  BY InitTyped, InitCustody, InitCalls DEF Inductive
<1>2. Inductive /\ [Next]_vars => Inductive'
  BY StepKeepsTypes, StepKeepsCustody, StepKeepsCalls DEF Inductive
<1> QED BY <1>1, <1>2, PTL DEF Spec

\* However many workers, crashes, lost answers and lapsed claims there are, no
\* sealed item is sent to the provider twice by one run, and nothing is sent
\* that recordProviderCallStarted did not first count.
THEOREM OneProviderCall == Spec => []AtMostOneProviderCall
<1>1. Inductive => AtMostOneProviderCall
  BY DEF Inductive, Calls, Counted, AtMostOneProviderCall
<1> QED BY <1>1, InductiveInvariant, PTL

\* A usable verdict rests on a request that left, and "outcome_unknown" on a
\* call start that was recorded.
THEOREM OutcomesArePhysical == Spec => []AccountingIsPhysical
<1>1. Inductive => AccountingIsPhysical
  BY DEF Inductive, Calls, Counted, AccountingIsPhysical
<1> QED BY <1>1, InductiveInvariant, PTL

-----------------------------------------------------------------------------
(* What a step may never do.                                               *)

\* No handler step writes what the rest of the project writes.
LEMMA HandlerLeavesWorld ==
    ASSUME NEW w \in Workers, HandlerStep(w)
    PROVE  UNCHANGED world
<1>1. CASE \/ Recheck(w) \/ Probe(w) \/ RecordRecheck(w) \/ RejectBeforeAuthorization(w) \/ Park(w)
           \/ Fail(w) \/ CallRejected(w)
  BY <1>1 DEF Recheck, Probe, RecordRecheck, RejectBeforeAuthorization, Park, Fail, CallRejected
<1>2. CASE \/ AuthorizeReplay(w) \/ AuthorizeRejects(w) \/ Authorize(w) \/ AuthorizeRefused(w)
           \/ LoadAuthorizedRun(w)
  BY <1>2 DEF AuthorizeReplay, AuthorizeRejects, Authorize, AuthorizeRefused, LoadAuthorizedRun
<1>3. CASE \/ RecoverStartedAttempts(w) \/ HeartbeatClaim(w) \/ GetNextAttempt(w) \/ RefuseBeforeCall(w)
           \/ RecordProviderCallStarted(w) \/ Dispatch(w) \/ ProviderAnswers(w)
  BY <1>3 DEF RecoverStartedAttempts, HeartbeatClaim, GetNextAttempt, RefuseBeforeCall,
              RecordProviderCallStarted, Dispatch, ProviderAnswers
<1>4. CASE CompleteAttempt(w) \/ FinalizeRun(w)
  BY <1>4 DEF CompleteAttempt, FinalizeRun
<1> QED BY <1>1, <1>2, <1>3, <1>4 DEF HandlerStep

\* No development exposure of the revision falls between the authorization of
\* a run and its mint: the lease guard_binary_calibration_exposure_during_lease
\* looks for is there for exactly that long.
THEOREM RevisionStaysSealed == Spec => SealedDuringRun
<1>1. ASSUME Inductive, [Next]_vars, NEW r \in Runs, row[r].authorized, row[r].state \in Active
      PROVE  exposed' = exposed
  <2>1. lease # NoRun
    BY <1>1, NullsAssumption DEF Inductive, Custody
  <2>2. CASE RecordDevelopmentExposure
    BY <2>1, <2>2 DEF RecordDevelopmentExposure
  <2> QED
    BY <1>1, <2>1, <2>2, HandlerLeavesWorld
    DEF Next, vars, world, Discover, CreateRun, ClaimRun, DropJob, RepositoryFails, Crash,
        AbandonedClaimLapses, SlowClaimLapses, BackoffElapses, FindingsChange, DevelopVersion,
        LifecycleEvent, EditVersion
<1>2. Inductive /\ [Next]_vars =>
        [(\E r \in Runs : row[r].authorized /\ row[r].state \in Active) => exposed' = exposed]_vars
  BY <1>1
<1> QED BY <1>2, InductiveInvariant, PTL DEF Spec, SealedDuringRun

\* No step writes a terminal run or its attempts.
LEMMA TerminalStep ==
    ASSUME TypeOK, [Next]_vars, NEW q \in Runs, row[q].state \in Terminal, ~BackoffElapses(q)
    PROVE  row'[q] = row[q] /\ att'[q] = att[q]
<1>t. /\ row \in [Runs -> Row] /\ att \in [Runs -> [Items -> Attempt]]
      /\ \A w \in Workers : wk[w].pc # "idle" => wk[w].run \in Runs
      /\ row[q].state \notin Active \cup {"absent"}
  BY DEF TypeOK, RowsTyped, LedgersTyped, WorkersTyped, Terminal, Minted, Active
<1>1. CASE UNCHANGED <<row, att>>
  BY <1>1
<1>2. ASSUME NEW r \in Runs, r # q, \A p \in Runs \ {r} : row'[p] = row[p] /\ att'[p] = att[p]
      PROVE  row'[q] = row[q] /\ att'[q] = att[q]
  BY <1>2
<1>3. ASSUME NEW r \in Runs,
             \/ \E v \in Versions : CreateRun(r, v)
             \/ \E w \in Workers : ClaimRun(w, r)
      PROVE  row'[q] = row[q] /\ att'[q] = att[q]
  <2>1. r # q
    BY <1>3, <1>t DEF CreateRun, ClaimRun
  <2> QED BY <1>3, <2>1, <1>t DEF CreateRun, ClaimRun
<1>4. ASSUME NEW r \in Runs, AbandonedClaimLapses(r) \/ SlowClaimLapses(r)
      PROVE  row'[q] = row[q] /\ att'[q] = att[q]
  <2>1. r # q
    BY <1>4, <1>t DEF AbandonedClaimLapses, SlowClaimLapses, TypeOK, RowsTyped, Active
  <2> QED BY <1>4, <2>1, <1>t DEF AbandonedClaimLapses, SlowClaimLapses
<1>5. ASSUME NEW r \in Runs, BackoffElapses(r)
      PROVE  row'[q] = row[q] /\ att'[q] = att[q]
  BY <1>5, <1>t DEF BackoffElapses
<1>6. ASSUME NEW w \in Workers, HandlerStep(w)
      PROVE  row'[q] = row[q] /\ att'[q] = att[q]
  <2>r. PICK r : r = wk[w].run
    OBVIOUS
  <2>1. CASE \/ RecordRecheck(w) \/ RejectBeforeAuthorization(w) \/ AuthorizeRejects(w) \/ Authorize(w)
             \/ RecoverStartedAttempts(w) \/ RecordProviderCallStarted(w) \/ CompleteAttempt(w) \/ FinalizeRun(w)
    <3>1. r \in Runs /\ r # q
      BY <2>1, <2>r, <1>t DEF RecordRecheck, RejectBeforeAuthorization, AuthorizeRejects, Authorize,
         RecoverStartedAttempts, RecordProviderCallStarted, CompleteAttempt, FinalizeRun, HoldsLease, Holds, Active
    <3> QED
      BY <2>1, <2>r, <3>1, <1>t DEF RecordRecheck, RejectBeforeAuthorization, AuthorizeRejects, Authorize,
         RecoverStartedAttempts, RecordProviderCallStarted, CompleteAttempt, FinalizeRun
  <2>2. CASE Park(w) \/ Fail(w)
    <3>1. UNCHANGED row \/ (r # q /\ row' = [row EXCEPT ![r] = Released(r, "recovery_required")])
      BY <2>2, <2>r, <1>t DEF Park, Fail, Parked, Active
    <3> QED BY <2>2, <3>1, <1>t DEF Park, Fail
  <2>3. CASE UNCHANGED <<row, att>>
    BY <2>3
  <2> QED
    BY <1>6, <2>1, <2>2, <2>3
    DEF HandlerStep, Recheck, Probe, AuthorizeReplay, AuthorizeRefused, LoadAuthorizedRun, HeartbeatClaim,
        GetNextAttempt, RefuseBeforeCall, Dispatch, ProviderAnswers, CallRejected
<1> QED
  BY <1>1, <1>3, <1>4, <1>5, <1>6
  DEF Next, vars, Discover, DropJob, RepositoryFails, Crash, RecordDevelopmentExposure, FindingsChange,
      DevelopVersion, LifecycleEvent, EditVersion

\* A late answer, a stale parking update or a replayed job never changes a run
\* that is complete, incomplete or rejected, nor any of its attempts.
THEOREM TerminalRunsAreFinal == Spec => TerminalIsFinal
<1>1. ASSUME TypeOK, [Next]_vars, NEW q \in Runs, row[q].state \in Terminal
      PROVE  row'[q] = [row[q] EXCEPT !.backoff = row'[q].backoff] /\ att'[q] = att[q]
  <2>1. row[q] \in Row
    BY <1>1 DEF TypeOK, RowsTyped
  <2>2. CASE BackoffElapses(q)
    <3>1. row'[q] = [row[q] EXCEPT !.backoff = FALSE] /\ UNCHANGED att
      <4>1. row \in [Runs -> Row]
        BY <1>1 DEF TypeOK, RowsTyped
      <4> QED BY <2>2, <4>1 DEF BackoffElapses
    <3>2. row'[q].backoff = FALSE
      BY <2>1, <3>1 DEF Row
    <3> QED BY <3>1, <3>2
  <2>3. CASE ~BackoffElapses(q)
    <3>1. row'[q] = row[q] /\ att'[q] = att[q]
      BY <1>1, <2>3, TerminalStep
    <3>2. [row[q] EXCEPT !.backoff = row[q].backoff] = row[q]
      BY <2>1 DEF Row
    <3> QED BY <3>1, <3>2
  <2> QED BY <2>2, <2>3
<1>2. TypeOK /\ [Next]_vars =>
        [\A r \in Runs : row[r].state \in Terminal =>
            row'[r] = [row[r] EXCEPT !.backoff = row'[r].backoff] /\ att'[r] = att[r]]_vars
  BY <1>1
<1> QED BY <1>2, TypeCorrect, PTL DEF Spec, TerminalIsFinal

\* markRecoveryRequired and claimRun may be sent by workers that lost their
\* claim; neither takes a live claim away from the worker that has it.
THEOREM LiveClaimsAreSafe == Spec => LiveClaimIsRespected
<1>1. ASSUME TypeOK, [Next]_vars, NEW q \in Runs, NEW v \in Workers,
             row[q].holder = v, row[q].live, row'[q].holder # v
      PROVE  wk'[v] # wk[v]
  <2>t. /\ row \in [Runs -> Row] /\ wk \in [Workers -> Worker] /\ row[q].state = "running"
        /\ \A w \in Workers : wk[w].pc # "idle" => wk[w].run \in Runs
    BY <1>1, NullsAssumption DEF TypeOK, RowsTyped, WorkersTyped
  <2>1. ASSUME NEW r \in Runs, NEW x, row' = [row EXCEPT ![r] = x], x.holder = row[r].holder
        PROVE  FALSE
    BY <1>1, <2>1, <2>t
  <2>2. ASSUME NEW r \in Runs,
               \/ \E u \in Versions : CreateRun(r, u)
               \/ AbandonedClaimLapses(r) \/ SlowClaimLapses(r) \/ BackoffElapses(r)
        PROVE  FALSE
    <3>1. CASE \E u \in Versions : CreateRun(r, u)
      <4>1. r # q
        BY <3>1, <2>t DEF CreateRun
      <4> QED BY <1>1, <3>1, <4>1, <2>t DEF CreateRun
    <3>2. CASE AbandonedClaimLapses(r) \/ SlowClaimLapses(r) \/ BackoffElapses(r)
      <4>1. \/ row' = [row EXCEPT ![r] = [row[r] EXCEPT !.live = FALSE]]
            \/ row' = [row EXCEPT ![r] = [row[r] EXCEPT !.backoff = FALSE]]
        BY <3>2, <2>t DEF AbandonedClaimLapses, SlowClaimLapses, BackoffElapses
      <4>2. /\ [row[r] EXCEPT !.live = FALSE].holder = row[r].holder
            /\ [row[r] EXCEPT !.backoff = FALSE].holder = row[r].holder
        BY <2>t DEF Row
      <4> QED BY <4>1, <4>2, <2>1
    <3> QED BY <2>2, <3>1, <3>2
  <2>3. ASSUME NEW w \in Workers, NEW r \in Runs, ClaimRun(w, r)
        PROVE  FALSE
    <3>1. r # q
      BY <1>1, <2>3, NullsAssumption DEF ClaimRun
    <3> QED BY <1>1, <2>3, <3>1, <2>t DEF ClaimRun
  <2>4. ASSUME NEW w \in Workers, HandlerStep(w)
        PROVE  wk'[v] # wk[v]
    <3>r. PICK r : r = wk[w].run
      OBVIOUS
    <3>1. ASSUME \/ RejectBeforeAuthorization(w) \/ AuthorizeRejects(w) \/ FinalizeRun(w) \/ Park(w) \/ Fail(w)
          PROVE  wk'[v] # wk[v]
      <4>1. r \in Runs /\ (r # q => row'[q] = row[q]) /\ (row[r].holder # w => UNCHANGED row)
        BY <3>1, <3>r, <2>t
        DEF RejectBeforeAuthorization, AuthorizeRejects, FinalizeRun, Park, Fail, Parked, HoldsLease, Holds
      <4>2. w = v
        BY <1>1, <4>1
      <4>3. wk'[w].pc # wk[w].pc
        BY <3>1, <2>t
        DEF RejectBeforeAuthorization, AuthorizeRejects, FinalizeRun, Park, Fail, Proceed, At, Idle
      <4> QED BY <4>2, <4>3
    <3>2. CASE RecordRecheck(w)
      <4>1. r \in Runs /\ row' = [row EXCEPT ![r] = [row[r] EXCEPT !.backoff = (wk[w].result = "unknown") \/ @]]
        BY <3>2, <3>r, <2>t DEF RecordRecheck
      <4>2. [row[r] EXCEPT !.backoff = (wk[w].result = "unknown") \/ @].holder = row[r].holder
        BY <4>1, <2>t DEF Row
      <4> QED BY <4>1, <4>2, <2>1
    <3>3. CASE Authorize(w)
      <4>1. r \in Runs /\ row' = [row EXCEPT ![r] = [Bound(r) EXCEPT !.authorized = TRUE, !.snapshot = CurrentFacts(r)]]
        BY <3>3, <3>r, <2>t DEF Authorize
      <4>2. [Bound(r) EXCEPT !.authorized = TRUE, !.snapshot = CurrentFacts(r)].holder = row[r].holder
        BY <4>1, <2>t DEF Row, Bound
      <4> QED BY <4>1, <4>2, <2>1
    <3>4. CASE RecoverStartedAttempts(w) \/ CompleteAttempt(w)
      <4>1. r \in Runs /\ \E n : row' = [row EXCEPT ![r] = [row[r] EXCEPT !.accounted = n]]
        BY <3>4, <3>r, <2>t DEF RecoverStartedAttempts, CompleteAttempt
      <4>2. \A n : [row[r] EXCEPT !.accounted = n].holder = row[r].holder
        BY <4>1, <2>t DEF Row
      <4> QED BY <4>1, <4>2, <2>1
    <3>5. CASE UNCHANGED row
      BY <1>1, <3>5
    <3> QED
      BY <2>4, <3>1, <3>2, <3>3, <3>4, <3>5
      DEF HandlerStep, Recheck, Probe, AuthorizeReplay, AuthorizeRefused, LoadAuthorizedRun, HeartbeatClaim,
          GetNextAttempt, RefuseBeforeCall, RecordProviderCallStarted, Dispatch, ProviderAnswers, CallRejected
  <2>5. CASE UNCHANGED row
    BY <1>1, <2>5
  <2> QED
    BY <1>1, <2>2, <2>3, <2>4, <2>5
    DEF Next, vars, Discover, DropJob, RepositoryFails, Crash, RecordDevelopmentExposure, FindingsChange,
        DevelopVersion, LifecycleEvent, EditVersion
<1>2. TypeOK /\ [Next]_vars =>
        [\A r \in Runs, w \in Workers :
            row[r].holder = w /\ row[r].live /\ row'[r].holder # w => wk'[w] # wk[w]]_vars
  BY <1>1
<1> QED BY <1>2, TypeCorrect, PTL DEF Spec, LiveClaimIsRespected

-----------------------------------------------------------------------------
(* What it takes to become complete.                                       *)

\* A run becomes complete only in finalizeRun.
LEMMA OnlyFinalizeCompletes ==
    ASSUME TypeOK, [Next]_vars, NEW q \in Runs, row[q].state # "complete", row'[q].state = "complete"
    PROVE  AllUsable(q) /\ EligibleAtCompletion(q) /\ UNCHANGED att
<1>t. /\ row \in [Runs -> Row]
      /\ \A w \in Workers : wk[w].pc # "idle" => wk[w].run \in Runs
  BY DEF TypeOK, RowsTyped, WorkersTyped
<1>1. ASSUME NEW r \in Runs, NEW x, row' = [row EXCEPT ![r] = x], x.state # "complete" \/ x.state = row[r].state
      PROVE  FALSE
  BY <1>1, <1>t
<1>2. ASSUME NEW r \in Runs, NEW v \in Versions, CreateRun(r, v) PROVE FALSE
  BY <1>1, <1>2 DEF CreateRun, NoRow
<1>3. ASSUME NEW r \in Runs, AbandonedClaimLapses(r) \/ SlowClaimLapses(r) \/ BackoffElapses(r) PROVE FALSE
  <2>1. \/ row' = [row EXCEPT ![r] = [row[r] EXCEPT !.live = FALSE]]
        \/ row' = [row EXCEPT ![r] = [row[r] EXCEPT !.backoff = FALSE]]
    BY <1>3, <1>t DEF AbandonedClaimLapses, SlowClaimLapses, BackoffElapses
  <2>2. /\ [row[r] EXCEPT !.live = FALSE].state = row[r].state
        /\ [row[r] EXCEPT !.backoff = FALSE].state = row[r].state
    BY <1>t DEF Row
  <2> QED BY <2>1, <2>2, <1>1
<1>4. ASSUME NEW w \in Workers, NEW r \in Runs, ClaimRun(w, r) PROVE FALSE
  <2>1. row' = [row EXCEPT ![r] = [row[r] EXCEPT !.state = "running", !.holder = w, !.live = TRUE]]
    BY <1>4, <1>t DEF ClaimRun
  <2>2. [row[r] EXCEPT !.state = "running", !.holder = w, !.live = TRUE].state = "running"
    BY <1>t DEF Row
  <2> QED BY <2>1, <2>2, <1>1
<1>5. CASE UNCHANGED row
  BY <1>5
<1>6. ASSUME NEW w \in Workers, HandlerStep(w)
      PROVE  AllUsable(q) /\ EligibleAtCompletion(q) /\ UNCHANGED att
  <2>r. PICK r : r = wk[w].run
    OBVIOUS
  <2>1. CASE RecordRecheck(w)
    <3>1. r \in Runs /\ row' = [row EXCEPT ![r] = [row[r] EXCEPT !.backoff = (wk[w].result = "unknown") \/ @]]
      BY <2>1, <2>r, <1>t DEF RecordRecheck
    <3>2. [row[r] EXCEPT !.backoff = (wk[w].result = "unknown") \/ @].state = row[r].state
      BY <3>1, <1>t DEF Row
    <3> QED BY <3>1, <3>2, <1>1
  <2>2. CASE RejectBeforeAuthorization(w) \/ AuthorizeRejects(w)
    <3>1. /\ r \in Runs
          /\ \/ row' = [row EXCEPT ![r] = Released(r, "rejected")]
             \/ row' = [row EXCEPT ![r] = [Released(r, "rejected") EXCEPT !.execAuth = Bound(r).execAuth]]
      BY <2>2, <2>r, <1>t DEF RejectBeforeAuthorization, AuthorizeRejects
    <3>2. /\ Released(r, "rejected").state = "rejected"
          /\ [Released(r, "rejected") EXCEPT !.execAuth = Bound(r).execAuth].state = "rejected"
      BY <3>1, <1>t DEF Released, Row
    <3> QED BY <3>1, <3>2, <1>1
  <2>3. CASE Authorize(w)
    <3>1. r \in Runs /\ row' = [row EXCEPT ![r] = [Bound(r) EXCEPT !.authorized = TRUE, !.snapshot = CurrentFacts(r)]]
      BY <2>3, <2>r, <1>t DEF Authorize
    <3>2. [Bound(r) EXCEPT !.authorized = TRUE, !.snapshot = CurrentFacts(r)].state = row[r].state
      BY <3>1, <1>t DEF Row, Bound
    <3> QED BY <3>1, <3>2, <1>1
  <2>4. CASE RecoverStartedAttempts(w) \/ CompleteAttempt(w)
    <3>1. r \in Runs /\ \E n : row' = [row EXCEPT ![r] = [row[r] EXCEPT !.accounted = n]]
      BY <2>4, <2>r, <1>t DEF RecoverStartedAttempts, CompleteAttempt
    <3>2. \A n : [row[r] EXCEPT !.accounted = n].state = row[r].state
      BY <3>1, <1>t DEF Row
    <3> QED BY <3>1, <3>2, <1>1
  <2>5. CASE Park(w) \/ Fail(w)
    <3>1. UNCHANGED row \/ (r \in Runs /\ row' = [row EXCEPT ![r] = Released(r, "recovery_required")])
      BY <2>5, <2>r, <1>t DEF Park, Fail, Parked
    <3>2. r \in Runs => Released(r, "recovery_required").state = "recovery_required"
      BY <1>t DEF Released, Row
    <3> QED BY <3>1, <3>2, <1>1, <1>5
  <2>6. CASE FinalizeRun(w)
    <3> DEFINE s == IF AllUsable(r) /\ EligibleAtCompletion(r) THEN "complete" ELSE "incomplete"
    <3>1. r \in Runs /\ row' = [row EXCEPT ![r] = Released(r, s)] /\ UNCHANGED att
      BY <2>6, <2>r, <1>t DEF FinalizeRun
    <3>2. Released(r, s).state = s
      BY <3>1, <1>t DEF Released, Row
    <3>3. q = r /\ s = "complete"
      BY <3>1, <3>2, <1>t
    <3> QED BY <3>1, <3>3
  <2>7. CASE UNCHANGED row
    BY <2>7
  <2> QED
    BY <1>6, <2>1, <2>2, <2>3, <2>4, <2>5, <2>6, <2>7
    DEF HandlerStep, Recheck, Probe, AuthorizeReplay, AuthorizeRefused, LoadAuthorizedRun, HeartbeatClaim,
        GetNextAttempt, RefuseBeforeCall, RecordProviderCallStarted, Dispatch, ProviderAnswers, CallRejected
<1> QED
  BY <1>2, <1>3, <1>4, <1>5, <1>6
  DEF Next, vars, Discover, DropJob, RepositoryFails, Crash, RecordDevelopmentExposure, FindingsChange,
      DevelopVersion, LifecycleEvent, EditVersion

\* A run that becomes complete is admissible at that moment: the revision is
\* unexposed, no reviewer is excluded, and the reuse barrier holds.
THEOREM CompletionIsAdmissible == Spec => CompleteIsAdmissible
<1>1. ASSUME TypeOK, [Next]_vars, NEW r \in Runs, row[r].state # "complete", row'[r].state = "complete"
      PROVE  /\ ~exposed
             /\ findings \in {"clear", "noted"}
             /\ (\E q \in Runs \ {r} : row[q].state \in Minted /\ row[q].version # row[r].version)
                   => row[r].version \notin late
  BY <1>1, OnlyFinalizeCompletes DEF EligibleAtCompletion, Eligible, Reuse
<1>2. TypeOK /\ [Next]_vars =>
        [\A r \in Runs : row[r].state # "complete" /\ row'[r].state = "complete" =>
            /\ ~exposed
            /\ findings \in {"clear", "noted"}
            /\ (\E q \in Runs \ {r} : row[q].state \in Minted /\ row[q].version # row[r].version)
                  => row[r].version \notin late]_vars
  BY <1>1
<1> QED BY <1>2, TypeCorrect, PTL DEF Spec, CompleteIsAdmissible

\* A complete artifact hides nothing: each item was sent exactly once and came
\* back usable, for good.
THEOREM CompleteRunsAreObserved == Spec => []CompleteIsFullyObserved
<1>1. Init => CompleteIsFullyObserved
  BY DEF Init, CompleteIsFullyObserved, NoRow
<1>2. ASSUME Inductive, Inductive', CompleteIsFullyObserved, [Next]_vars PROVE CompleteIsFullyObserved'
  <2>1. ASSUME NEW r \in Runs, row'[r].state = "complete", NEW i \in Items
        PROVE  att'[r][i].outcome = "usable"
    <3>1. CASE row[r].state = "complete"
      <4>1. att'[r] = att[r]
        <5>1. CASE BackoffElapses(r)
          BY <5>1 DEF BackoffElapses
        <5>2. CASE ~BackoffElapses(r)
          BY <1>2, <3>1, <5>2, TerminalStep DEF Inductive, Terminal, Minted
        <5> QED BY <5>1, <5>2
      <4> QED BY <1>2, <3>1, <4>1 DEF CompleteIsFullyObserved
    <3>2. CASE row[r].state # "complete"
      BY <1>2, <2>1, <3>2, OnlyFinalizeCompletes DEF Inductive, AllUsable
    <3> QED BY <3>1, <3>2
  <2>2. \A r \in Runs, i \in Items : att'[r][i].outcome = "usable" => sent'[r][i] = 1
    BY <1>2 DEF Inductive, Calls, Counted
  <2> QED BY <2>1, <2>2 DEF CompleteIsFullyObserved
<1> QED BY <1>1, <1>2, InductiveInvariant, PTL DEF Spec

-----------------------------------------------------------------------------
(* The counter of a run and the calls that a crash can strand.             *)

(* The operators.                                                          *)

\* The accounted and the stranded items of a run are finitely many items.
LEMMA ItemSets ==
    ASSUME NEW r \in Runs
    PROVE  /\ Accounted(r) \subseteq Items /\ IsFiniteSet(Accounted(r)) /\ Cardinality(Accounted(r)) \in Nat
           /\ Stranded(r) \subseteq Items /\ IsFiniteSet(Stranded(r)) /\ Cardinality(Stranded(r)) \in Nat
           /\ Accounted(r) \cap Stranded(r) = {}
<1>1. Accounted(r) \subseteq Items /\ Stranded(r) \subseteq Items /\ Accounted(r) \cap Stranded(r) = {}
  BY DEF Accounted, Stranded
<1>2. IsFiniteSet(Accounted(r)) /\ IsFiniteSet(Stranded(r))
  BY <1>1, ItemsAssumption, FS_Subset
<1> QED BY <1>1, <1>2, FS_CardinalityType

\* What is accounted and stranded depends on the run's attempts alone.
LEMMA SameAttempts ==
    ASSUME NEW r \in Runs, att'[r] = att[r]
    PROVE  Accounted(r)' = Accounted(r) /\ Stranded(r)' = Stranded(r)
BY DEF Accounted, Stranded

\* A run that was never authorized has nothing to count.
LEMMA NothingBefore ==
    ASSUME NEW r \in Runs, att[r] = [i \in Items |-> NoAttempt]
    PROVE  Accounted(r) = {} /\ Stranded(r) = {}
<1>1. \A i \in Items : att[r][i].accounting = "absent"
  BY DEF NoAttempt
<1> QED BY <1>1 DEF Accounted, Stranded

\* A set whose elements are all equal has at most one.
LEMMA AtMostOne ==
    ASSUME NEW S, \A x, y \in S : x = y
    PROVE  Cardinality(S) <= 1
<1>1. CASE S = {}
  BY <1>1, FS_EmptySet
<1>2. CASE S # {}
  <2>1. PICK x \in S : S = {x}
    BY <1>2
  <2> QED BY <2>1, FS_Singleton
<1> QED BY <1>1, <1>2

-----------------------------------------------------------------------------
(* Steps that leave attempts and counters alone.                           *)

\* A worker stays where it is, leaves the loop over the attempts, goes on from
\* a point without a stranded call, or goes on with the call it is making.
Advances(w) ==
    \/ wk'[w] = wk[w]
    \/ wk'[w].pc \notin Clear \cup Busy
    \/ wk'[w].run = wk[w].run /\ wk[w].pc \in Clear
    \/ /\ wk'[w].run = wk[w].run /\ wk'[w].item = wk[w].item
       /\ wk[w].pc \in Busy /\ wk'[w].pc \in Busy

\* Such a step counts nothing and strands nothing.
LEMMA StillKeepsCounting ==
    ASSUME TypeOK, TypeOK', Counting, NobodyGains, UNCHANGED att,
           \A r \in Runs : row'[r].accounted = row[r].accounted,
           \A w \in Workers : Advances(w)
    PROVE  Counting'
<1>1. \A r \in Runs : Accounted(r)' = Accounted(r) /\ Stranded(r)' = Stranded(r)
  BY SameAttempts
<1>2. AccountedIsExact' /\ \A r \in Runs : \A i, j \in Stranded(r)' : i = j
  BY <1>1 DEF Counting, AccountedIsExact
<1>3. ASSUME NEW w \in Workers, wk'[w].pc # "idle" PROVE Settled(w)'
  <2> DEFINE r == wk'[w].run
  <2>1. r \in Runs
    BY <1>3 DEF TypeOK, WorkersTyped
  <2>2. CASE wk'[w].pc \notin Clear \cup Busy \/ row'[r].holder # w
    BY <2>2 DEF Settled
  <2>3. CASE wk'[w].pc \in Clear \cup Busy /\ row'[r].holder = w
    <3>1. row[r].holder = w /\ wk[w].run = r /\ wk[w].pc # "idle"
      <4>1. wk'[w].pc \notin {"idle", "recheck"}
        BY <2>3 DEF Clear, Busy
      <4>2. row[r].holder = w
        BY <2>1, <2>3, <4>1 DEF NobodyGains
      <4>3. Advances(w)
        OBVIOUS
      <4> QED BY <2>3, <4>2, <4>3, <1>3 DEF Advances, Clear, Busy
    <3>2. Settled(w) /\ Advances(w)
      BY <3>1 DEF Counting
    <3>3. /\ wk'[w].pc \in Clear => Stranded(r) = {}
          /\ wk'[w].pc \in Busy => Stranded(r) \subseteq {wk'[w].item}
      BY <2>3, <3>1, <3>2 DEF Settled, Advances, Clear, Busy
    <3> QED BY <2>1, <3>3, <1>1 DEF Settled
  <2> QED BY <2>2, <2>3
<1> QED BY <1>2, <1>3 DEF Counting

-----------------------------------------------------------------------------
(* Steps of a run's holder on the run's attempts.                          *)

\* What has to be shown of such a step is about its own run and worker.
LEMMA HolderKeepsCounting ==
    ASSUME TypeOK, TypeOK', Counting, NobodyGains,
           NEW w \in Workers, NEW r \in Runs, NEW x \in Worker,
           row[r].holder = w, x.run = r, wk' = [wk EXCEPT ![w] = x],
           \A q \in Runs \ {r} : att'[q] = att[q] /\ row'[q].accounted = row[q].accounted,
           row'[r].accounted = Cardinality(Accounted(r)'),
           x.pc \in Clear => Stranded(r)' = {},
           x.pc \in Busy => Stranded(r)' \subseteq {x.item},
           \A i, j \in Stranded(r)' : i = j
    PROVE  Counting'
<1>1. wk'[w] = x /\ \A v \in Workers \ {w} : wk'[v] = wk[v]
  BY DEF TypeOK, WorkersTyped
<1>2. \A q \in Runs \ {r} : Accounted(q)' = Accounted(q) /\ Stranded(q)' = Stranded(q)
  BY SameAttempts
<1>3. AccountedIsExact'
  BY <1>2 DEF Counting, AccountedIsExact
<1>4. ASSUME NEW q \in Runs PROVE \A i, j \in Stranded(q)' : i = j
  BY <1>2 DEF Counting
<1>5. Settled(w)'
  BY <1>1 DEF Settled
<1>6. ASSUME NEW v \in Workers \ {w}, wk'[v].pc # "idle" PROVE Settled(v)'
  <2> DEFINE q == wk[v].run
  <2>1. q \in Runs /\ wk'[v] = wk[v] /\ Settled(v)
    BY <1>1, <1>6 DEF Counting, TypeOK, WorkersTyped
  <2>2. CASE wk[v].pc \notin Clear \cup Busy \/ row'[q].holder # v
    BY <2>1, <2>2 DEF Settled
  <2>3. CASE wk[v].pc \in Clear \cup Busy /\ row'[q].holder = v
    <3>1. row[q].holder = v
      BY <2>1, <2>3 DEF NobodyGains, Clear, Busy
    <3>2. q # r
      BY <3>1
    <3> QED BY <2>1, <3>1, <3>2, <1>2 DEF Settled
  <2> QED BY <2>2, <2>3
<1> QED BY <1>3, <1>4, <1>5, <1>6 DEF Counting

\* A step that leaves its run without a stranded call may go anywhere.
LEMMA CleanKeepsCounting ==
    ASSUME TypeOK, TypeOK', Counting, NobodyGains,
           NEW w \in Workers, NEW r \in Runs, NEW label \in Outside,
           row[r].holder = w, wk[w].run = r, Proceed(w, At(r, label)),
           \A q \in Runs \ {r} : att'[q] = att[q] /\ row'[q].accounted = row[q].accounted,
           row'[r].accounted = Cardinality(Accounted(r)'),
           Stranded(r)' = {}
    PROVE  Counting'
<1>1. PICK x \in Worker : x.run = r /\ wk' = [wk EXCEPT ![w] = x]
  <2>1. At(r, label) \in Worker /\ At(r, "failing") \in Worker
    BY ItemsAssumption, ValuesTyped DEF Outside, Labels
  <2>2. At(r, label).run = r /\ At(r, "failing").run = r
    BY DEF At
  <2> QED BY <2>1, <2>2 DEF Proceed
<1> QED BY <1>1, HolderKeepsCounting

\* authorizeRun plans the attempts of a run that has none: nothing is counted.
LEMMA AuthorizeKeepsCounting ==
    ASSUME TypeOK, TypeOK', Custody, Counting, NobodyGains, NEW w \in Workers, Authorize(w)
    PROVE  Counting'
<1>0. PICK r : r = wk[w].run
  OBVIOUS
<1>1. r \in Runs /\ row[r].holder = w /\ wk[w].run = r /\ Proceed(w, At(r, "load")) /\ "load" \in Outside
  BY <1>0 DEF Authorize, Holds, TypeOK, WorkersTyped, Outside, Labels
<1>2. Accounted(r) = {}
  BY <1>0, <1>1, NothingBefore DEF Authorize, Custody
<1>3. /\ \A q \in Runs \ {r} : att'[q] = att[q]
      /\ \A j \in Items : att'[r][j] = NewAttempt
  BY <1>0, <1>1 DEF Authorize, TypeOK, LedgersTyped
<1>4. NewAttempt.accounting = "pending" /\ NewAttempt.phase = "not_started"
  BY DEF NewAttempt, NoAttempt
<1>5. Accounted(r)' = {} /\ Stranded(r)' = {}
  BY <1>3, <1>4 DEF Accounted, Stranded
<1>6. \A q \in Runs : row'[q].accounted = row[q].accounted
  <2> DEFINE x == [Bound(r) EXCEPT !.authorized = TRUE, !.snapshot = CurrentFacts(r)]
  <2>1. row' = [row EXCEPT ![r] = x]
    BY <1>0 DEF Authorize
  <2>2. x.accounted = row[r].accounted
    BY <1>1 DEF Bound, TypeOK, RowsTyped, Row
  <2> HIDE DEF x
  <2> QED BY <1>1, <2>1, <2>2 DEF TypeOK, RowsTyped
<1>7. row'[r].accounted = Cardinality(Accounted(r)')
  BY <1>1, <1>2, <1>5, <1>6 DEF Counting, AccountedIsExact
<1> QED BY <1>1, <1>3, <1>5, <1>6, <1>7, CleanKeepsCounting

\* recoverStartedAttempts counts as many attempts as it finds stranded.
LEMMA RecoverKeepsCounting ==
    ASSUME TypeOK, TypeOK', Counting, NobodyGains, NEW w \in Workers, RecoverStartedAttempts(w)
    PROVE  Counting'
<1>0. PICK r : r = wk[w].run
  OBVIOUS
<1>1. r \in Runs /\ row[r].holder = w /\ wk[w].run = r /\ Proceed(w, At(r, "heartbeat")) /\ "heartbeat" \in Outside
  BY <1>0 DEF RecoverStartedAttempts, HoldsLease, Holds, TypeOK, WorkersTyped, Outside, Labels
<1>2. /\ \A q \in Runs \ {r} : att'[q] = att[q]
      /\ \A j \in Items \ Stranded(r) : att'[r][j] = att[r][j]
      /\ \A j \in Stranded(r) :
            att'[r][j] = [att[r][j] EXCEPT !.accounting = "accounted", !.outcome = "outcome_unknown"]
  <2>1. Stranded(r) \subseteq Items
    BY DEF Stranded
  <2> QED BY <1>1, <2>1 DEF RecoverStartedAttempts, TypeOK, LedgersTyped
<1>3. \A j \in Stranded(r) : att'[r][j].accounting = "accounted"
  <2>1. \A j \in Stranded(r) : att[r][j] \in Attempt
    BY <1>1 DEF Stranded, TypeOK, LedgersTyped
  <2> QED BY ZenonT(40), <1>2, <2>1 DEF Attempt
<1>4. Accounted(r)' = Accounted(r) \cup Stranded(r) /\ Stranded(r)' = {}
  <2>1. \A j \in Items : j \in Accounted(r)' <=> j \in Accounted(r) \cup Stranded(r)
    BY <1>2, <1>3 DEF Accounted, Stranded
  <2>2. \A j \in Items : j \notin Stranded(r)'
    BY <1>2, <1>3 DEF Stranded
  <2> QED BY <2>1, <2>2 DEF Accounted, Stranded
<1>5. /\ row' = [row EXCEPT ![r] = [row[r] EXCEPT !.accounted = row[r].accounted + Cardinality(Stranded(r))]]
      /\ row[r] \in Row
  BY <1>0, <1>1 DEF RecoverStartedAttempts, TypeOK, RowsTyped
<1>6. /\ \A q \in Runs \ {r} : row'[q].accounted = row[q].accounted
      /\ row'[r].accounted = row[r].accounted + Cardinality(Stranded(r))
  BY <1>1, <1>5 DEF TypeOK, RowsTyped, Row
<1>7. Cardinality(Accounted(r) \cup Stranded(r)) = Cardinality(Accounted(r)) + Cardinality(Stranded(r))
  <2>1. /\ IsFiniteSet(Accounted(r)) /\ IsFiniteSet(Stranded(r)) /\ Cardinality(Accounted(r)) \in Nat
        /\ Cardinality(Stranded(r)) \in Nat /\ Accounted(r) \cap Stranded(r) = {}
    BY <1>1, ItemSets
  <2>2. Cardinality(Accounted(r) \cap Stranded(r)) = 0
    BY <2>1, FS_EmptySet
  <2>3. Cardinality(Accounted(r) \cup Stranded(r))
          = Cardinality(Accounted(r)) + Cardinality(Stranded(r)) - Cardinality(Accounted(r) \cap Stranded(r))
    BY <2>1, FS_Union
  <2> QED BY <2>1, <2>2, <2>3
<1>8. row'[r].accounted = Cardinality(Accounted(r)')
  BY <1>1, <1>4, <1>6, <1>7 DEF Counting, AccountedIsExact
<1> QED BY ZenonT(40), <1>1, <1>2, <1>4, <1>6, <1>8, CleanKeepsCounting

\* completeAttempt counts the one attempt it accounts, the one its worker made.
LEMMA CompleteKeepsCounting ==
    ASSUME TypeOK, TypeOK', Counting, NobodyGains, NEW w \in Workers, CompleteAttempt(w)
    PROVE  Counting'
<1>0. PICK r, i : r = wk[w].run /\ i = wk[w].item
  OBVIOUS
<1>1. /\ r \in Runs /\ i \in Items /\ row[r].holder = w /\ wk[w].run = r
      /\ Proceed(w, At(r, "heartbeat")) /\ "heartbeat" \in Outside
  BY <1>0 DEF CompleteAttempt, HoldsLease, Holds, TypeOK, WorkersTyped, Outside, Labels
<1>2. att[r][i] \in Attempt /\ att[r][i].accounting = "pending"
  BY SMTT(90), <1>0, <1>1 DEF CompleteAttempt, TypeOK, LedgersTyped
<1>3. /\ \A q \in Runs \ {r} : att'[q] = att[q]
      /\ \A j \in Items \ {i} : att'[r][j] = att[r][j]
      /\ att'[r][i] = [att[r][i] EXCEPT !.accounting = "accounted", !.phase = "terminal", !.outcome = wk[w].result]
  BY <1>0, <1>1 DEF CompleteAttempt, TypeOK, LedgersTyped
<1>4. att'[r][i].accounting = "accounted"
  BY <1>2, <1>3 DEF Attempt
<1>5. Stranded(r) \subseteq {i}
  <2>1. wk[w].pc = "complete" /\ Settled(w)
    BY <1>0 DEF CompleteAttempt, Counting
  <2> QED BY <1>0, <1>1, <2>1 DEF Settled, Busy
<1>6. Accounted(r)' = Accounted(r) \cup {i} /\ Stranded(r)' = {} /\ i \notin Accounted(r)
  <2>1. \A j \in Items : j \in Accounted(r)' <=> j \in Accounted(r) \cup {i}
    BY <1>3, <1>4 DEF Accounted
  <2>2. \A j \in Items : j \notin Stranded(r)'
    BY <1>3, <1>4, <1>5 DEF Stranded
  <2> QED BY <1>1, <1>2, <2>1, <2>2 DEF Accounted, Stranded
<1>7. /\ row' = [row EXCEPT ![r] = [row[r] EXCEPT !.accounted = row[r].accounted + 1]]
      /\ row[r] \in Row
  BY <1>0, <1>1 DEF CompleteAttempt, TypeOK, RowsTyped
<1>8. /\ \A q \in Runs \ {r} : row'[q].accounted = row[q].accounted
      /\ row'[r].accounted = row[r].accounted + 1
  BY <1>1, <1>7 DEF TypeOK, RowsTyped, Row
<1>9. Cardinality(Accounted(r) \cup {i}) = Cardinality(Accounted(r)) + 1
  BY <1>1, <1>6, ItemSets, FS_AddElement
<1>10. row'[r].accounted = Cardinality(Accounted(r)')
  BY <1>1, <1>6, <1>8, <1>9 DEF Counting, AccountedIsExact
<1>11. /\ \A q \in Runs \ {r} : att'[q] = att[q] /\ row'[q].accounted = row[q].accounted
       /\ Stranded(r)' = {}
  BY <1>3, <1>6, <1>8
<1> QED BY <1>1, <1>10, <1>11, CleanKeepsCounting

\* recordProviderCallStarted strands the call it counts: the only one, since
\* its worker still holds the run and took the attempt when there was none.
LEMMA CallStartKeepsCounting ==
    ASSUME TypeOK, TypeOK', Counting, NobodyGains, NEW w \in Workers, RecordProviderCallStarted(w)
    PROVE  Counting'
<1>0. PICK r, i : r = wk[w].run /\ i = wk[w].item
  OBVIOUS
<1>1. r \in Runs /\ i \in Items /\ row[r].holder = w /\ Proceed(w, On(r, i, "dispatch")) /\ UNCHANGED row
  BY <1>0 DEF RecordProviderCallStarted, HoldsLease, Holds, TypeOK, WorkersTyped
<1>2. att[r][i] \in Attempt /\ att[r][i].accounting = "pending"
  <2>1. att[r][i] \in Attempt
    BY <1>1 DEF TypeOK, LedgersTyped
  <2> QED BY <1>0, <2>1 DEF RecordProviderCallStarted
<1>3. /\ \A q \in Runs \ {r} : att'[q] = att[q]
      /\ \A j \in Items \ {i} : att'[r][j] = att[r][j]
      /\ att'[r][i].accounting = "pending"
  BY ZenonT(40), <1>0, <1>1, <1>2 DEF RecordProviderCallStarted, TypeOK, LedgersTyped, Attempt
<1>4. Stranded(r) = {}
  <2>1. wk[w].pc = "exec" /\ Settled(w)
    BY <1>0 DEF RecordProviderCallStarted, Counting
  <2> QED BY <1>0, <1>1, <2>1 DEF Settled, Clear
<1>5. Accounted(r)' = Accounted(r) /\ Stranded(r)' \subseteq {i}
  <2>1. \A j \in Items : j \in Accounted(r)' <=> j \in Accounted(r)
    BY <1>2, <1>3 DEF Accounted
  <2>2. \A j \in Items \ {i} : j \notin Stranded(r)'
    BY <1>3, <1>4 DEF Stranded
  <2> QED BY <2>1, <2>2 DEF Accounted, Stranded
<1>6. PICK x \in Worker : x.run = r /\ wk' = [wk EXCEPT ![w] = x] /\ (x = On(r, i, "dispatch") \/ x = At(r, "failing"))
  <2>1. On(r, i, "dispatch") \in Worker /\ At(r, "failing") \in Worker
    BY <1>1, ValuesTyped DEF Labels
  <2>2. On(r, i, "dispatch").run = r /\ At(r, "failing").run = r
    BY DEF At, On
  <2> QED BY <1>0, <1>1, <2>1, <2>2 DEF Proceed
<1>7. x.pc \notin Clear /\ (x.pc \in Busy => x.item = i)
  BY <1>6 DEF At, On, Clear, Busy
<1>8. row'[r].accounted = Cardinality(Accounted(r)')
  BY <1>1, <1>5 DEF Counting, AccountedIsExact
<1>9. \A q \in Runs \ {r} : att'[q] = att[q] /\ row'[q].accounted = row[q].accounted
  BY <1>1, <1>3
<1>10. /\ x.pc \in Clear => Stranded(r)' = {}
       /\ x.pc \in Busy => Stranded(r)' \subseteq {x.item}
       /\ \A j, k \in Stranded(r)' : j = k
  BY <1>5, <1>7
<1> QED BY <1>1, <1>6, <1>8, <1>9, <1>10, HolderKeepsCounting

-----------------------------------------------------------------------------
(* Every other step.                                                       *)

\* Nobody moves, or one worker does and advances.
LEMMA OneAdvances ==
    ASSUME TypeOK, NEW w \in Workers, NEW x, wk' = [wk EXCEPT ![w] = x],
           \/ x.pc \notin Clear \cup Busy
           \/ x.run = wk[w].run /\ wk[w].pc \in Clear
           \/ x.run = wk[w].run /\ x.item = wk[w].item /\ wk[w].pc \in Busy /\ x.pc \in Busy
    PROVE  \A v \in Workers : Advances(v)
<1>1. wk'[w] = x /\ \A v \in Workers \ {w} : wk'[v] = wk[v]
  BY DEF TypeOK, WorkersTyped
<1> QED BY <1>1 DEF Advances

\* Where the handler goes when it is not at work on an attempt.
Elsewhere == Labels \ (Clear \cup Busy)

\* A worker that goes elsewhere advances, and so does one whose answer is lost.
LEMMA GoesElsewhere ==
    ASSUME TypeOK, NEW w \in Workers, NEW r, NEW label \in Elsewhere,
           \/ wk' = [wk EXCEPT ![w] = At(r, label)]
           \/ wk' = [wk EXCEPT ![w] = Idle]
           \/ Proceed(w, At(r, label))
           \/ Proceed(w, Idle)
    PROVE  \A v \in Workers : Advances(v)
<1>1. /\ At(r, label).pc \notin Clear \cup Busy
      /\ At(wk[w].run, "failing").pc \notin Clear \cup Busy
      /\ Idle.pc \notin Clear \cup Busy
  BY DEF At, Idle, Elsewhere, Clear, Busy
<1> QED BY <1>1, OneAdvances DEF Proceed

\* A worker that goes on in the loop over the attempts advances.
LEMMA LoopAdvances ==
    ASSUME TypeOK, NEW w \in Workers,
           HeartbeatClaim(w) \/ GetNextAttempt(w) \/ RefuseBeforeCall(w) \/ Dispatch(w) \/ ProviderAnswers(w)
    PROVE  UNCHANGED <<row, att>> /\ \A v \in Workers : Advances(v)
<1>1. UNCHANGED <<row, att>>
  BY DEF HeartbeatClaim, GetNextAttempt, RefuseBeforeCall, Dispatch, ProviderAnswers
<1>2. ASSUME NEW x, Proceed(w, x), x.run = wk[w].run, wk[w].pc \in Clear
      PROVE  \A v \in Workers : Advances(v)
  <2>1. At(wk[w].run, "failing").pc \notin Clear \cup Busy
    BY DEF At, Clear, Busy
  <2> QED BY <1>2, <2>1, OneAdvances DEF Proceed
<1>3. CASE HeartbeatClaim(w)
  BY <1>1, <1>2, <1>3 DEF HeartbeatClaim, At, Clear
<1>4. CASE GetNextAttempt(w)
  <2>1. wk[w].pc \in Clear
    BY <1>4 DEF GetNextAttempt, Clear
  <2>2. PICK x : Proceed(w, x) /\ x.run = wk[w].run
    <3>1. \/ \E i \in Items : Proceed(w, On(wk[w].run, i, "exec"))
          \/ Proceed(w, At(wk[w].run, "finalize"))
      BY <1>4 DEF GetNextAttempt, Waiting
    <3>2. At(wk[w].run, "finalize").run = wk[w].run /\ \A i \in Items : On(wk[w].run, i, "exec").run = wk[w].run
      BY DEF At, On
    <3> QED BY <3>1, <3>2
  <2> QED BY <1>1, <1>2, <2>1, <2>2
<1>5. CASE RefuseBeforeCall(w) \/ Dispatch(w) \/ ProviderAnswers(w)
  <2>1. PICK x : /\ wk' = [wk EXCEPT ![w] = x] /\ x.run = wk[w].run /\ x.item = wk[w].item
                 /\ wk[w].pc \in Clear \/ (wk[w].pc \in Busy /\ x.pc \in Busy)
    <3>1. wk[w] \in Worker /\ wk \in [Workers -> Worker]
      BY DEF TypeOK, WorkersTyped
    <3>2. CASE Dispatch(w)
      <4> DEFINE x == [wk[w] EXCEPT !.pc = "await"]
      <4>1. wk' = [wk EXCEPT ![w] = x] /\ wk[w].pc \in Busy
        BY <3>1, <3>2 DEF Dispatch, Busy
      <4>2. x.pc \in Busy /\ x.run = wk[w].run /\ x.item = wk[w].item
        BY <3>1 DEF Worker, Busy
      <4> QED BY <4>1, <4>2
    <3>3. CASE RefuseBeforeCall(w) \/ ProviderAnswers(w)
      <4>1. PICK answer : wk' = [wk EXCEPT ![w] = [wk[w] EXCEPT !.pc = "complete", !.result = answer]]
        BY <3>1, <3>3 DEF RefuseBeforeCall, ProviderAnswers
      <4> DEFINE x == [wk[w] EXCEPT !.pc = "complete", !.result = answer]
      <4>2. x.pc \in Busy /\ x.run = wk[w].run /\ x.item = wk[w].item
        BY <3>1 DEF Worker, Busy
      <4>3. wk[w].pc \in Clear \cup Busy
        BY <3>3 DEF RefuseBeforeCall, ProviderAnswers, Clear, Busy
      <4> QED BY <4>1, <4>2, <4>3
    <3> QED BY <1>5, <3>2, <3>3
  <2> QED BY <1>1, <2>1, OneAdvances
<1> QED BY <1>3, <1>4, <1>5

\* A worker whose step commits or fails outside of the loop goes elsewhere.
LEMMA OthersGoElsewhere ==
    ASSUME TypeOK, NEW w \in Workers,
           \/ Recheck(w) \/ Probe(w) \/ RecordRecheck(w) \/ RejectBeforeAuthorization(w) \/ Park(w)
           \/ AuthorizeReplay(w) \/ AuthorizeRejects(w) \/ AuthorizeRefused(w) \/ LoadAuthorizedRun(w)
           \/ FinalizeRun(w) \/ Fail(w) \/ CallRejected(w) \/ RepositoryFails(w) \/ Crash(w)
    PROVE  UNCHANGED att /\ \A v \in Workers : Advances(v)
<1>1. UNCHANGED att
  BY DEF Recheck, Probe, RecordRecheck, RejectBeforeAuthorization, Park, AuthorizeReplay, AuthorizeRejects,
         AuthorizeRefused, LoadAuthorizedRun, FinalizeRun, Fail, CallRejected, RepositoryFails, Crash
<1>2. {"authorize", "park", "probe", "reject", "load", "recover", "failing"} \subseteq Elsewhere
  BY DEF Elsewhere, Labels, Clear, Busy
<1>3. CASE Probe(w)
  <2>1. PICK answer : wk' = [wk EXCEPT ![w] = [wk[w] EXCEPT !.pc = "record", !.result = answer]]
    BY <1>3 DEF Probe, TypeOK, WorkersTyped
  <2> DEFINE x == [wk[w] EXCEPT !.pc = "record", !.result = answer]
  <2>2. x.pc \notin Clear \cup Busy
    BY DEF TypeOK, WorkersTyped, Worker, Clear, Busy
  <2> QED BY <1>1, <2>1, <2>2, OneAdvances
<1>4. CASE Recheck(w) \/ RecordRecheck(w) \/ AuthorizeReplay(w) \/ LoadAuthorizedRun(w) \/ Park(w)
  <2>1. \/ \E label \in Elsewhere : Proceed(w, At(wk[w].run, label))
        \/ Proceed(w, Idle)
        \/ wk' = [wk EXCEPT ![w] = At(wk[w].run, "failing")]
    BY <1>2, <1>4 DEF Recheck, RecordRecheck, AuthorizeReplay, LoadAuthorizedRun, Park
  <2> QED BY <1>1, <1>2, <2>1, GoesElsewhere
<1>5. CASE \/ RejectBeforeAuthorization(w) \/ FinalizeRun(w) \/ AuthorizeRejects(w) \/ AuthorizeRefused(w)
           \/ Fail(w) \/ CallRejected(w) \/ RepositoryFails(w) \/ Crash(w)
  <2>1. \/ Proceed(w, Idle)
        \/ wk' = [wk EXCEPT ![w] = At(wk[w].run, "failing")]
        \/ wk' = [wk EXCEPT ![w] = Idle]
    BY <1>5 DEF RejectBeforeAuthorization, FinalizeRun, AuthorizeRejects, AuthorizeRefused, Fail, CallRejected,
                RepositoryFails, Crash
  <2> QED BY <1>1, <1>2, <2>1, GoesElsewhere
<1> QED BY <1>3, <1>4, <1>5

\* The counter of a run is written by the four steps above and by createRun,
\* which finds nothing counted.
LEMMA CountersStay ==
    ASSUME TypeOK, Custody, Counting, [Next]_vars,
           \A w \in Workers : ~RecoverStartedAttempts(w) /\ ~CompleteAttempt(w) /\ ~Authorize(w)
    PROVE  \A q \in Runs : row'[q].accounted = row[q].accounted
<1>t. RowsTyped /\ \A w \in Workers : wk[w].pc # "idle" => wk[w].run \in Runs
  BY DEF TypeOK, WorkersTyped
<1> DEFINE Stay == \A q \in Runs : row'[q].accounted = row[q].accounted
<1>1. ASSUME NEW r \in Runs, NEW x, row' = [row EXCEPT ![r] = x], x.accounted = row[r].accounted
      PROVE  Stay
  BY <1>1, <1>t DEF RowsTyped
<1>2. ASSUME NEW r \in Runs, NEW s PROVE Released(r, s).accounted = row[r].accounted
  BY <1>t DEF Released, RowsTyped, Row
<1>3. ASSUME NEW r \in Runs, NEW v \in Versions, CreateRun(r, v) PROVE Stay
  <2>1. row[r].state = "absent" /\ row' = [row EXCEPT ![r] = [NoRow EXCEPT !.state = "queued", !.version = v]]
    BY <1>3 DEF CreateRun
  <2>2. Accounted(r) = {}
    <3>1. ~row[r].authorized
      BY <2>1 DEF Custody
    <3> QED BY <3>1, NothingBefore DEF Custody
  <2>3. row[r].accounted = 0
    BY <2>2, FS_EmptySet DEF Counting, AccountedIsExact
  <2> QED BY <2>1, <2>3, <1>1 DEF NoRow
<1>4. ASSUME NEW w \in Workers, NEW r \in Runs, ClaimRun(w, r) PROVE Stay
  <2>1. row' = [row EXCEPT ![r] = [row[r] EXCEPT !.state = "running", !.holder = w, !.live = TRUE]]
    BY <1>4, <1>t DEF ClaimRun, RowsTyped
  <2>2. [row[r] EXCEPT !.state = "running", !.holder = w, !.live = TRUE].accounted = row[r].accounted
    BY <1>t DEF RowsTyped, Row
  <2> QED BY <2>1, <2>2, <1>1
<1>5. ASSUME NEW r \in Runs, AbandonedClaimLapses(r) \/ SlowClaimLapses(r) \/ BackoffElapses(r) PROVE Stay
  <2>1. \/ row' = [row EXCEPT ![r] = [row[r] EXCEPT !.live = FALSE]]
        \/ row' = [row EXCEPT ![r] = [row[r] EXCEPT !.backoff = FALSE]]
    BY <1>5, <1>t DEF AbandonedClaimLapses, SlowClaimLapses, BackoffElapses, RowsTyped
  <2>2. /\ [row[r] EXCEPT !.live = FALSE].accounted = row[r].accounted
        /\ [row[r] EXCEPT !.backoff = FALSE].accounted = row[r].accounted
    BY <1>t DEF RowsTyped, Row
  <2> QED BY <2>1, <2>2, <1>1
<1>6. ASSUME NEW w \in Workers, HandlerStep(w) PROVE Stay
  <2>0. PICK r : r = wk[w].run
    OBVIOUS
  <2>1. CASE RecordRecheck(w)
    <3>1. /\ r \in Runs
          /\ row' = [row EXCEPT ![r] = [row[r] EXCEPT !.backoff = (wk[w].result = "unknown") \/ @]]
      BY <2>0, <2>1, <1>t DEF RecordRecheck, RowsTyped
    <3> QED BY <3>1, <1>t DEF RowsTyped, Row
  <2>2. CASE RejectBeforeAuthorization(w) \/ FinalizeRun(w) \/ Park(w) \/ Fail(w)
    <3>1. r \in Runs /\ (UNCHANGED row \/ \E s : row' = [row EXCEPT ![r] = Released(r, s)])
      BY <2>0, <2>2, <1>t DEF RejectBeforeAuthorization, FinalizeRun, Park, Fail, Parked
    <3> QED BY <3>1, <1>1, <1>2
  <2>3. CASE AuthorizeRejects(w)
    <3>1. /\ r \in Runs
          /\ row' = [row EXCEPT ![r] = [Released(r, "rejected") EXCEPT !.execAuth = Bound(r).execAuth]]
      BY <2>0, <2>3, <1>t DEF AuthorizeRejects
    <3>2. [Released(r, "rejected") EXCEPT !.execAuth = Bound(r).execAuth].accounted = row[r].accounted
      BY <3>1, <1>t DEF Released, RowsTyped, Row
    <3> QED BY <3>1, <3>2, <1>1
  <2>4. CASE UNCHANGED row
    BY <2>4
  <2> QED
    BY <1>6, <2>1, <2>2, <2>3, <2>4
    DEF HandlerStep, Recheck, Probe, AuthorizeReplay, AuthorizeRefused, LoadAuthorizedRun, HeartbeatClaim,
        GetNextAttempt, RefuseBeforeCall, RecordProviderCallStarted, Dispatch, ProviderAnswers, CallRejected
<1>7. CASE UNCHANGED row
  BY <1>7
<1> QED
  BY <1>3, <1>4, <1>5, <1>6, <1>7
  DEF Next, Discover, DropJob, RepositoryFails, Crash, RecordDevelopmentExposure, FindingsChange,
      DevelopVersion, LifecycleEvent, EditVersion, vars

\* Every step keeps the count exact and strands no second call.
LEMMA StepKeepsCounting ==
    ASSUME Inductive, Inductive', Counting, [Next]_vars
    PROVE  Counting'
<1>t. TypeOK /\ TypeOK' /\ Custody /\ Calls
  BY DEF Inductive
<1>g. NobodyGains
  BY <1>t, HoldersOnlyLeave
<1>1. ASSUME NEW w \in Workers,
             Authorize(w) \/ RecoverStartedAttempts(w) \/ CompleteAttempt(w) \/ RecordProviderCallStarted(w)
      PROVE  Counting'
  BY <1>1, <1>t, <1>g, AuthorizeKeepsCounting, RecoverKeepsCounting, CompleteKeepsCounting, CallStartKeepsCounting
<1>2. ASSUME \A w \in Workers : /\ ~Authorize(w) /\ ~RecoverStartedAttempts(w) /\ ~CompleteAttempt(w)
                                /\ ~RecordProviderCallStarted(w)
      PROVE  Counting'
  <2>1. \A q \in Runs : row'[q].accounted = row[q].accounted
    BY <1>2, <1>t, CountersStay
  <2>2. UNCHANGED att /\ \A v \in Workers : Advances(v)
    <3>1. ASSUME NEW w \in Workers, HandlerStep(w) \/ RepositoryFails(w) \/ Crash(w)
          PROVE  UNCHANGED att /\ \A v \in Workers : Advances(v)
      BY <3>1, <1>2, <1>t, LoopAdvances, OthersGoElsewhere DEF HandlerStep
    <3>2. CASE UNCHANGED <<att, wk>>
      BY <3>2 DEF Advances
    <3>3. ASSUME NEW w \in Workers, NEW r \in Runs, ClaimRun(w, r)
          PROVE  UNCHANGED att /\ \A v \in Workers : Advances(v)
      <4>1. "recheck" \in Elsewhere
        BY DEF Elsewhere, Labels, Clear, Busy
      <4>2. UNCHANGED att /\ (UNCHANGED wk \/ wk' = [wk EXCEPT ![w] = At(r, "recheck")])
        BY <3>3 DEF ClaimRun
      <4> QED BY <4>1, <4>2, <3>2, <1>t, GoesElsewhere
    <3> QED
      BY <3>1, <3>2, <3>3
      DEF Next, CreateRun, Discover, DropJob, AbandonedClaimLapses, SlowClaimLapses, BackoffElapses,
          RecordDevelopmentExposure, FindingsChange, DevelopVersion, LifecycleEvent, EditVersion, vars
  <2> QED BY <2>1, <2>2, <1>t, <1>g, StillKeepsCounting
<1> QED BY <1>1, <1>2

\* Nothing is counted, stranded or held before the first run.
LEMMA InitCounting == Init => Counting
<1> SUFFICES ASSUME Init PROVE Counting
  OBVIOUS
<1>1. \A r \in Runs : Accounted(r) = {} /\ Stranded(r) = {} /\ row[r].accounted = 0
  BY NothingBefore DEF Init, NoRow
<1>2. AccountedIsExact
  BY <1>1, FS_EmptySet DEF AccountedIsExact
<1>3. \A w \in Workers : wk[w].pc = "idle"
  BY DEF Init, Idle
<1> QED BY <1>1, <1>2, <1>3 DEF Counting

\* The counting invariant holds in every reachable state.
LEMMA CountingHolds == Spec => []Counting
<1>1. Inductive /\ Inductive' /\ Counting /\ [Next]_vars => Counting'
  BY StepKeepsCounting
<1> QED BY <1>1, InitCounting, InductiveInvariant, PTL DEF Spec

-----------------------------------------------------------------------------
\* accounted_observations is the number of accounted attempts in every state:
\* completeAttempt and recoverStartedAttempts, the two writers of the counter,
\* never count one attempt twice nor miss one, so that finalizeRun's comparison
\* with planned_observations says that every item of the revision is accounted.
THEOREM CounterIsExact == Spec => []AccountedIsExact
<1>1. Counting => AccountedIsExact
  BY DEF Counting
<1> QED BY <1>1, CountingHolds, PTL

\* However often workers crash, lose claims or overtake each other, a run has
\* at most one started call that is not accounted: a claim reaches the next
\* attempt only through recoverStartedAttempts, under the claim it recovered by.
THEOREM OneCallIsStranded == Spec => []OneStrandedCall
<1>1. Counting => OneStrandedCall
  BY AtMostOne DEF Counting, OneStrandedCall
<1> QED BY <1>1, CountingHolds, PTL

-----------------------------------------------------------------------------
(* The worker implements SealedLedger.                                     *)

\* A step of the workers that the ledger does not see.
LEMMA Unseen ==
    ASSUME UNCHANGED <<att, lease, exposed>>,
           \A q \in Runs : \/ row'[q].state = row[q].state
                           \/ row[q].state \notin Terminal /\ row'[q].state \notin Terminal
    PROVE  UNCHANGED Ledger!vars
<1>1. Book' = Book
  BY DEF Book
<1>2. Verdict' = Verdict
  BY DEF Verdict
<1> QED BY <1>1, <1>2 DEF Ledger!vars

\* What the ledger reads of one run.
LEMMA VerdictOf ==
    ASSUME NEW r \in Runs
    PROVE  /\ row[r].state \in Active => Verdict[r] = "open"
           /\ Book[r] = [i \in Items |-> Entry(att[r][i])]
           /\ \A i \in Items : Book[r][i] = Entry(att[r][i])
BY DEF Verdict, Book, Active, Terminal, Minted

\* The states that no handler step but finalizing and rejecting gives a run.
LEMMA QuietVerdicts ==
    ASSUME TypeOK, NEW w \in Workers, HandlerStep(w),
           ~(RejectBeforeAuthorization(w) \/ AuthorizeRejects(w) \/ FinalizeRun(w)),
           NEW q \in Runs
    PROVE  \/ row'[q].state = row[q].state
           \/ row[q].state \notin Terminal /\ row'[q].state \notin Terminal
<1>t. /\ row \in [Runs -> Row]
      /\ wk[w].pc # "idle" => wk[w].run \in Runs
  BY DEF TypeOK, RowsTyped, WorkersTyped
<1>r. PICK r : r = wk[w].run
  OBVIOUS
<1>1. ASSUME NEW x, r \in Runs, row' = [row EXCEPT ![r] = x], x.state = row[r].state
      PROVE  row'[q].state = row[q].state
  BY <1>1, <1>t
<1>2. CASE RecordRecheck(w)
  <2>1. r \in Runs /\ row' = [row EXCEPT ![r] = [row[r] EXCEPT !.backoff = (wk[w].result = "unknown") \/ @]]
    BY <1>2, <1>r, <1>t DEF RecordRecheck
  <2>2. [row[r] EXCEPT !.backoff = (wk[w].result = "unknown") \/ @].state = row[r].state
    BY <2>1, <1>t DEF Row
  <2> QED BY <2>1, <2>2, <1>1
<1>3. CASE Authorize(w)
  <2>1. r \in Runs /\ row' = [row EXCEPT ![r] = [Bound(r) EXCEPT !.authorized = TRUE, !.snapshot = CurrentFacts(r)]]
    BY <1>3, <1>r, <1>t DEF Authorize
  <2>2. [Bound(r) EXCEPT !.authorized = TRUE, !.snapshot = CurrentFacts(r)].state = row[r].state
    BY <2>1, <1>t DEF Row, Bound
  <2> QED BY <2>1, <2>2, <1>1
<1>4. CASE RecoverStartedAttempts(w) \/ CompleteAttempt(w)
  <2>1. r \in Runs /\ \E n : row' = [row EXCEPT ![r] = [row[r] EXCEPT !.accounted = n]]
    BY <1>4, <1>r, <1>t DEF RecoverStartedAttempts, CompleteAttempt
  <2>2. \A n : [row[r] EXCEPT !.accounted = n].state = row[r].state
    BY <2>1, <1>t DEF Row
  <2> QED BY <2>1, <2>2, <1>1
<1>5. CASE Park(w) \/ Fail(w)
  <2>1. UNCHANGED row \/ (r \in Runs /\ row[r].state = "running" /\ row' = [row EXCEPT ![r] = Released(r, "recovery_required")])
    BY <1>5, <1>r, <1>t DEF Park, Fail, Parked
  <2>2. r \in Runs => Released(r, "recovery_required").state = "recovery_required"
    BY <1>t DEF Released, Row
  <2> QED BY <2>1, <2>2, <1>t DEF Terminal, Minted
<1>6. CASE UNCHANGED row
  BY <1>6
<1> QED
  BY <1>2, <1>3, <1>4, <1>5, <1>6
  DEF HandlerStep, Recheck, Probe, AuthorizeReplay, AuthorizeRefused, LoadAuthorizedRun, HeartbeatClaim,
      GetNextAttempt, RefuseBeforeCall, RecordProviderCallStarted, Dispatch, ProviderAnswers, CallRejected

\* Both ways to refuse a run before it is authorized only pronounce a verdict.
LEMMA RejectionIsReject ==
    ASSUME Inductive, NEW w \in Workers, RejectBeforeAuthorization(w) \/ AuthorizeRejects(w)
    PROVE  Ledger!Next
<1>r. PICK r : r = wk[w].run
  OBVIOUS
<1>1. /\ r \in Runs /\ row \in [Runs -> Row] /\ ~row[r].authorized /\ row[r].state \in Active
      /\ UNCHANGED <<att, lease, exposed>>
  BY <1>r DEF Inductive, TypeOK, RowsTyped, WorkersTyped, RejectBeforeAuthorization, AuthorizeRejects, Holds,
              Active, world
<1>2. \A q \in Runs : row'[q].state = IF q = r THEN "rejected" ELSE row[q].state
  <2>1. /\ Released(r, "rejected").state = "rejected"
        /\ [Released(r, "rejected") EXCEPT !.execAuth = Bound(r).execAuth].state = "rejected"
    BY <1>1 DEF Released, Row
  <2>2. \/ row' = [row EXCEPT ![r] = Released(r, "rejected")]
        \/ row' = [row EXCEPT ![r] = [Released(r, "rejected") EXCEPT !.execAuth = Bound(r).execAuth]]
    BY <1>r DEF RejectBeforeAuthorization, AuthorizeRejects
  <2> QED BY <2>1, <2>2, <1>1
<1>3. lease # r
  BY <1>1 DEF Inductive, Custody
<1>4. Verdict' = [Verdict EXCEPT ![r] = "rejected"]
  BY <1>1, <1>2 DEF Verdict, Terminal
<1>5. Ledger!Reject(r)
  BY <1>1, <1>3, <1>4, VerdictOf DEF Ledger!Reject, Book
<1> QED BY <1>1, <1>5 DEF Ledger!Next

\* The authorization plans every item and takes the revision.
LEMMA AuthorizationIsCustody ==
    ASSUME Inductive, NEW w \in Workers, Authorize(w)
    PROVE  Ledger!Next
<1>r. PICK r : r = wk[w].run
  OBVIOUS
<1>1. /\ r \in Runs /\ row[r].state \in Active /\ lease = NoRun /\ lease' = r
      /\ ~exposed /\ UNCHANGED exposed /\ att' = [att EXCEPT ![r] = [i \in Items |-> NewAttempt]]
      /\ att \in [Runs -> [Items -> Attempt]] /\ HandlerStep(w)
  BY <1>r DEF Inductive, TypeOK, LedgersTyped, WorkersTyped, Authorize, Holds, Active, world, Eligible, HandlerStep
<1>2. \A q \in Runs : \/ row'[q].state = row[q].state
                      \/ row[q].state \notin Terminal /\ row'[q].state \notin Terminal
  <2>1. ~(RejectBeforeAuthorization(w) \/ AuthorizeRejects(w) \/ FinalizeRun(w))
    BY DEF Authorize, RejectBeforeAuthorization, AuthorizeRejects, FinalizeRun
  <2> QED BY <2>1, <1>1, QuietVerdicts DEF Inductive
<1>3. Entry(NewAttempt) = "planned"
  BY DEF Entry, NewAttempt, NoAttempt
<1>4. Book' = [Book EXCEPT ![r] = [i \in Items |-> "planned"]]
  BY <1>1, <1>3 DEF Book
<1>5. UNCHANGED Verdict
  BY <1>2 DEF Verdict
<1>6. Ledger!TakeCustody(r)
  BY <1>1, <1>4, <1>5, VerdictOf DEF Ledger!TakeCustody
<1> QED BY <1>1, <1>6 DEF Ledger!Next
\* Accounting the stranded calls abandons exactly the called entries.
LEMMA RecoveryIsAbandon ==
    ASSUME Inductive, NEW w \in Workers, RecoverStartedAttempts(w)
    PROVE  Ledger!Next
<1>r. PICK r : r = wk[w].run
  OBVIOUS
<1>1. /\ r \in Runs /\ lease = r /\ UNCHANGED <<lease, exposed>>
      /\ att \in [Runs -> [Items -> Attempt]] /\ HandlerStep(w)
      /\ att' = [att EXCEPT ![r] = [i \in Items |->
                    IF i \in Stranded(r)
                    THEN [att[r][i] EXCEPT !.accounting = "accounted", !.outcome = "outcome_unknown"]
                    ELSE att[r][i]]]
  BY <1>r DEF Inductive, TypeOK, LedgersTyped, WorkersTyped, RecoverStartedAttempts, HoldsLease, Holds, world, HandlerStep
<1>2. UNCHANGED Verdict
  <2>1. ~(RejectBeforeAuthorization(w) \/ AuthorizeRejects(w) \/ FinalizeRun(w))
    BY DEF RecoverStartedAttempts, RejectBeforeAuthorization, AuthorizeRejects, FinalizeRun
  <2> QED BY <2>1, <1>1, QuietVerdicts DEF Inductive, Verdict
<1>3. \A i \in Items : Entry(att'[r][i]) = IF Entry(att[r][i]) = "called" THEN "unknown" ELSE Entry(att[r][i])
  <2> TAKE i \in Items
  <2>1. att[r][i] \in Attempt
    BY <1>1
  <2>2. CASE i \in Stranded(r)
    <3>1. att[r][i].accounting = "pending" /\ att[r][i].phase = "started"
      BY <2>2 DEF Stranded
    <3>2. att'[r][i] = [att[r][i] EXCEPT !.accounting = "accounted", !.outcome = "outcome_unknown"]
      BY <2>2, <1>1
    <3>3. att'[r][i].accounting = "accounted" /\ att'[r][i].outcome = "outcome_unknown"
      BY <3>2, <2>1 DEF Attempt
    <3> QED BY <3>1, <3>3 DEF Entry
  <2>3. CASE i \notin Stranded(r)
    <3>1. att'[r][i] = att[r][i]
      BY <2>3, <1>1
    <3>2. att[r][i].phase = "terminal" => att[r][i].accounting = "accounted"
      BY <1>1 DEF Inductive, Calls, Counted
    <3> QED BY <3>1, <3>2, <2>3, <2>1 DEF Entry, Stranded, Attempt, Outcomes
  <2> QED BY <2>2, <2>3
<1>4. Book' = [Book EXCEPT ![r] = [i \in Items |-> IF Book[r][i] = "called" THEN "unknown" ELSE Book[r][i]]]
  BY <1>1, <1>3 DEF Book
<1>5. Ledger!Abandon(r)
  BY <1>1, <1>2, <1>4 DEF Ledger!Abandon
<1> QED BY <1>1, <1>5 DEF Ledger!Next

\* A counted call turns a planned entry, its worker being the holder, to called.
LEMMA CallIsCall ==
    ASSUME Inductive, NEW w \in Workers, RecordProviderCallStarted(w)
    PROVE  Ledger!Next
<1>r. PICK r, i : r = wk[w].run /\ i = wk[w].item
  OBVIOUS
<1> DEFINE a == [att[r][i] EXCEPT !.phase = "started", !.calls = @ + 1]
<1>1. /\ r \in Runs /\ i \in Items /\ lease = r /\ UNCHANGED <<row, lease, exposed>>
      /\ att \in [Runs -> [Items -> Attempt]] /\ i \in Waiting(r)
  BY <1>r DEF Inductive, TypeOK, LedgersTyped, WorkersTyped, RecordProviderCallStarted, HoldsLease, Holds,
              world, Calls, Informed
<1>2. att' = [att EXCEPT ![r][i] = a] /\ att[r][i] \in Attempt
  BY <1>1, <1>r DEF RecordProviderCallStarted
<1>3. a.accounting = "pending" /\ a.phase = "started"
  BY <1>1, <1>2 DEF Waiting, Attempt
<1>4. Entry(a) = "called" /\ Entry(att[r][i]) = "planned"
  BY <1>1, <1>3 DEF Entry, Waiting
<1> HIDE DEF a
<1>5. \A q \in Runs, j \in Items : att'[q][j] = IF q = r /\ j = i THEN a ELSE att[q][j]
  BY <1>1, <1>2
<1>6. Book' = [Book EXCEPT ![r][i] = "called"]
  <2>1. \A q \in Runs, j \in Items :
           Entry(att'[q][j]) = IF q = r /\ j = i THEN "called" ELSE Entry(att[q][j])
    BY <1>4, <1>5
  <2> QED BY <2>1, <1>1 DEF Book
<1>7. Verdict' = Verdict
  BY <1>1 DEF Verdict
<1>8. Ledger!Call(r, i)
  BY <1>1, <1>4, <1>6, <1>7, VerdictOf DEF Ledger!Call
<1> QED BY <1>1, <1>8 DEF Ledger!Next

\* A completion settles its entry; a usable one rests on a call.
LEMMA CompletionIsSettle ==
    ASSUME Inductive, NEW w \in Workers, CompleteAttempt(w)
    PROVE  Ledger!Next
<1>r. PICK r, i, o : r = wk[w].run /\ i = wk[w].item /\ o = wk[w].result
  OBVIOUS
<1> DEFINE a == [att[r][i] EXCEPT !.accounting = "accounted", !.phase = "terminal", !.outcome = o]
<1>1. /\ r \in Runs /\ i \in Items /\ lease = r /\ UNCHANGED <<lease, exposed>>
      /\ att \in [Runs -> [Items -> Attempt]] /\ att[r][i].accounting = "pending"
      /\ sent \in [Runs -> [Items -> Nat]]
  BY <1>r DEF Inductive, TypeOK, LedgersTyped, WorkersTyped, CompleteAttempt, HoldsLease, Holds, world
<1>2. o \in {"usable", "errored"} /\ (o = "usable" => sent[r][i] = 1)
  BY <1>r DEF Inductive, TypeOK, WorkersTyped, Worker, Outcomes, CompleteAttempt, Calls, Informed
<1>3. att' = [att EXCEPT ![r][i] = a] /\ att[r][i] \in Attempt
  BY <1>1, <1>r DEF CompleteAttempt
<1>4. a.accounting = "accounted" /\ a.outcome = o
  BY <1>3 DEF Attempt
<1>5. Entry(a) = o
  BY <1>2, <1>4 DEF Entry
<1>6. Entry(att[r][i]) \in {"planned", "called"} /\ (o = "usable" => Entry(att[r][i]) = "called")
  <2>1. Counted(r, i) /\ att[r][i].calls \in Nat /\ sent[r][i] \in Nat
    BY <1>1, <1>3 DEF Inductive, Calls, Attempt
  <2>2. o = "usable" => att[r][i].phase # "not_started"
    BY <1>2, <2>1 DEF Counted
  <2> QED BY <1>1, <2>2 DEF Entry
<1> HIDE DEF a
<1>7. \A q \in Runs, j \in Items : att'[q][j] = IF q = r /\ j = i THEN a ELSE att[q][j]
  BY <1>1, <1>3
<1>8. Book' = [Book EXCEPT ![r][i] = o]
  <2>1. \A q \in Runs, j \in Items :
           Entry(att'[q][j]) = IF q = r /\ j = i THEN o ELSE Entry(att[q][j])
    BY <1>5, <1>7
  <2> QED BY <2>1, <1>1 DEF Book
<1>9. UNCHANGED Verdict
  <2>1. ~(RejectBeforeAuthorization(w) \/ AuthorizeRejects(w) \/ FinalizeRun(w)) /\ HandlerStep(w)
    BY DEF CompleteAttempt, RejectBeforeAuthorization, AuthorizeRejects, FinalizeRun, HandlerStep
  <2> QED BY <2>1, QuietVerdicts DEF Inductive, Verdict
<1>10. Ledger!Settle(r, i, o)
  BY <1>1, <1>2, <1>6, <1>8, <1>9, VerdictOf DEF Ledger!Settle
<1> QED BY <1>1, <1>2, <1>10 DEF Ledger!Next

\* Finalizing mints over a book with nothing unplanned, planned or called.
LEMMA FinalizeIsMint ==
    ASSUME Inductive, NEW w \in Workers, FinalizeRun(w)
    PROVE  Ledger!Next
<1>r. PICK r, s : r = wk[w].run /\ s = IF AllUsable(r) /\ EligibleAtCompletion(r) THEN "complete" ELSE "incomplete"
  OBVIOUS
<1>1. /\ r \in Runs /\ lease = r /\ lease' = NoRun /\ UNCHANGED <<att, exposed>>
      /\ att \in [Runs -> [Items -> Attempt]] /\ row \in [Runs -> Row]
      /\ row[r].authorized /\ row[r].state \in Active
      /\ \A i \in Items : att[r][i].accounting # "pending"
      /\ row' = [row EXCEPT ![r] = Released(r, s)]
  BY <1>r DEF Inductive, TypeOK, LedgersTyped, RowsTyped, WorkersTyped, FinalizeRun, HoldsLease, Holds, world, Active
<1>2. \A i \in Items : att[r][i].accounting = "accounted" /\ att[r][i].outcome \in Outcomes
  <2> TAKE i \in Items
  <2>1. att[r][i] \in Attempt /\ att[r][i].accounting # "absent"
    BY <1>1 DEF Inductive, Custody
  <2>2. att[r][i].accounting = "accounted"
    BY <2>1, <1>1 DEF Attempt
  <2>3. att[r][i].outcome # "none"
    BY <2>2, <1>1 DEF Inductive, Calls, Counted
  <2> QED BY <2>1, <2>2, <2>3 DEF Attempt
<1>3. \A i \in Items : Entry(att[r][i]) \in Ledger!Settled
  BY <1>2 DEF Entry, Outcomes, Ledger!Settled
<1>4. s \in {"complete", "incomplete"} /\ (s = "complete" => \A i \in Items : Entry(att[r][i]) = "usable")
  BY <1>r, <1>2 DEF AllUsable, Entry
<1>5. Released(r, s).state = s
  BY <1>1 DEF Released, Row
<1>6. Verdict' = [Verdict EXCEPT ![r] = s]
  <2>1. \A q \in Runs : row'[q].state = IF q = r THEN s ELSE row[q].state
    BY <1>1, <1>5
  <2> QED BY <2>1, <1>1, <1>4 DEF Verdict, Terminal, Minted
<1>7. Ledger!Mint(r, s)
  BY <1>1, <1>3, <1>4, <1>6, VerdictOf DEF Ledger!Mint, Book
<1> QED BY <1>1, <1>4, <1>7 DEF Ledger!Next

\* Every other step of the handler is invisible to the ledger.
LEMMA OtherHandlerStepsUnseen ==
    ASSUME Inductive, NEW w \in Workers, HandlerStep(w),
           ~(RejectBeforeAuthorization(w) \/ AuthorizeRejects(w) \/ Authorize(w)
             \/ RecoverStartedAttempts(w) \/ RecordProviderCallStarted(w) \/ CompleteAttempt(w)
             \/ FinalizeRun(w))
    PROVE  UNCHANGED Ledger!vars
<1>1. UNCHANGED <<att, lease, exposed>>
  BY DEF HandlerStep, Recheck, Probe, RecordRecheck, Park, AuthorizeReplay, AuthorizeRefused,
         LoadAuthorizedRun, HeartbeatClaim, GetNextAttempt, RefuseBeforeCall, Dispatch,
         ProviderAnswers, Fail, CallRejected, world
<1>2. \A q \in Runs : \/ row'[q].state = row[q].state
                      \/ row[q].state \notin Terminal /\ row'[q].state \notin Terminal
  BY QuietVerdicts DEF Inductive
<1> QED BY <1>1, <1>2, Unseen

\* Owners, the queue, crashes and clocks never touch a verdict or the book.
LEMMA ClaimsUnseen ==
    ASSUME Inductive,
           \/ \E r \in Runs, v \in Versions : CreateRun(r, v)
           \/ Discover
           \/ \E w \in Workers, r \in Runs : ClaimRun(w, r) \/ DropJob(w, r)
           \/ \E w \in Workers : RepositoryFails(w) \/ Crash(w)
           \/ \E r \in Runs : AbandonedClaimLapses(r) \/ SlowClaimLapses(r) \/ BackoffElapses(r)
    PROVE  UNCHANGED Ledger!vars
<1>t. row \in [Runs -> Row]
  BY DEF Inductive, TypeOK, RowsTyped
<1>1. UNCHANGED <<att, lease, exposed>>
  BY DEF CreateRun, Discover, ClaimRun, DropJob, RepositoryFails, Crash, AbandonedClaimLapses,
         SlowClaimLapses, BackoffElapses, world
<1>2. \A q \in Runs : \/ row'[q].state = row[q].state
                      \/ row[q].state \notin Terminal /\ row'[q].state \notin Terminal
  <2> TAKE q \in Runs
  <2>1. ASSUME NEW r \in Runs, NEW v \in Versions, CreateRun(r, v)
        PROVE  row[q].state # row'[q].state => row[q].state \notin Terminal /\ row'[q].state \notin Terminal
    <3>1. /\ row[r].state = "absent"
          /\ row' = [row EXCEPT ![r] = [NoRow EXCEPT !.state = "queued", !.version = v]]
          /\ [NoRow EXCEPT !.state = "queued", !.version = v].state = "queued"
      BY <2>1 DEF CreateRun, NoRow
    <3> QED BY <3>1, <1>t DEF Terminal, Minted
  <2>2. ASSUME NEW w \in Workers, NEW r \in Runs, ClaimRun(w, r)
        PROVE  row[q].state # row'[q].state => row[q].state \notin Terminal /\ row'[q].state \notin Terminal
    <3>1. /\ row[r].state \in Active /\ row[r] \in Row
          /\ row' = [row EXCEPT ![r] = [row[r] EXCEPT !.state = "running", !.holder = w, !.live = TRUE]]
      BY <2>2, <1>t DEF ClaimRun
    <3>2. [row[r] EXCEPT !.state = "running", !.holder = w, !.live = TRUE].state = "running"
      BY <3>1 DEF Row
    <3> QED BY <3>1, <3>2, <1>t DEF Terminal, Minted, Active
  <2>3. ASSUME NEW r \in Runs, AbandonedClaimLapses(r) \/ SlowClaimLapses(r) PROVE row'[q].state = row[q].state
    <3>1. row' = [row EXCEPT ![r] = [row[r] EXCEPT !.live = FALSE]] /\ row[r] \in Row
      BY <2>3, <1>t DEF AbandonedClaimLapses, SlowClaimLapses
    <3>2. [row[r] EXCEPT !.live = FALSE].state = row[r].state
      BY <3>1 DEF Row
    <3> QED BY <3>1, <3>2, <1>t
  <2>4. ASSUME NEW r \in Runs, BackoffElapses(r) PROVE row'[q].state = row[q].state
    <3>1. row' = [row EXCEPT ![r] = [row[r] EXCEPT !.backoff = FALSE]] /\ row[r] \in Row
      BY <2>4, <1>t DEF BackoffElapses
    <3>2. [row[r] EXCEPT !.backoff = FALSE].state = row[r].state
      BY <3>1 DEF Row
    <3> QED BY <3>1, <3>2, <1>t
  <2>5. CASE UNCHANGED row
    BY <2>5
  <2> QED
    BY <2>1, <2>2, <2>3, <2>4, <2>5 DEF Discover, DropJob, RepositoryFails, Crash
<1> QED BY <1>1, <1>2, Unseen

\* An exposure needs a revision nobody has custody of.
LEMMA WorldIsExposeOrUnseen ==
    ASSUME RecordDevelopmentExposure \/ FindingsChange
    PROVE  Ledger!Next \/ UNCHANGED Ledger!vars
<1>1. UNCHANGED <<row, att, lease>>
  BY DEF RecordDevelopmentExposure, FindingsChange
<1>2. CASE RecordDevelopmentExposure
  <2>1. UNCHANGED <<Book, Verdict>>
    BY <1>1 DEF Book, Verdict
  <2>2. Ledger!Expose
    BY <1>1, <1>2, <2>1 DEF RecordDevelopmentExposure, Ledger!Expose
  <2> QED BY <2>2 DEF Ledger!Next
<1>3. CASE UNCHANGED exposed
  BY <1>1, <1>3, Unseen
<1> QED BY <1>2, <1>3 DEF FindingsChange

\* The initial states of the workers are initial states of the ledger.
LEMMA LedgerInit == Init => Ledger!Init
<1> SUFFICES ASSUME Init PROVE Ledger!Init
  OBVIOUS
<1>1. Entry(NoAttempt) = "unplanned" /\ NoRow.state \notin Terminal
  BY DEF Entry, NoAttempt, NoRow, Terminal, Minted
<1>2. Book = [q \in Runs |-> [i \in Items |-> "unplanned"]] /\ Verdict = [q \in Runs |-> "open"]
  BY <1>1 DEF Init, Book, Verdict
<1> QED BY <1>2 DEF Init, Ledger!Init

\* Every step of the workers is a step of the ledger or invisible to it.
LEMMA LedgerStep == Inductive /\ [Next]_vars => [Ledger!Next]_(Ledger!vars)
<1> SUFFICES ASSUME Inductive, [Next]_vars PROVE Ledger!Next \/ UNCHANGED Ledger!vars
  OBVIOUS
<1>1. CASE UNCHANGED vars
  BY <1>1, Unseen DEF vars
<1>2. ASSUME NEW v \in Versions, DevelopVersion(v) \/ LifecycleEvent(v) \/ EditVersion(v)
      PROVE  UNCHANGED Ledger!vars
  BY <1>2, Unseen DEF DevelopVersion, LifecycleEvent, EditVersion
<1>3. ASSUME NEW w \in Workers, HandlerStep(w) PROVE Ledger!Next \/ UNCHANGED Ledger!vars
  BY <1>3, RejectionIsReject, AuthorizationIsCustody, RecoveryIsAbandon, CallIsCall, CompletionIsSettle,
     FinalizeIsMint, OtherHandlerStepsUnseen
<1> QED
  BY <1>1, <1>2, <1>3, ClaimsUnseen, WorldIsExposeOrUnseen DEF Next

\* Every behaviour of any number of workers, runs, items and faults keeps the
\* promise of the ledger: one custodian, one call and one settlement an item,
\* no verdict over an unsettled book, no exposure in between.
THEOREM WorkersImplementLedger == Spec => LedgerSpec
<1>1. Init => Ledger!Init
  BY LedgerInit
<1>2. Inductive /\ [Next]_vars => [Ledger!Next]_(Ledger!vars)
  BY LedgerStep
<1> QED
  BY <1>1, <1>2, InductiveInvariant, PTL DEF Spec, LedgerSpec, Ledger!Spec
=============================================================================

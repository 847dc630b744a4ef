------------------------- MODULE EvalDispatchProofs -------------------------
(***************************************************************************)
(* What the outbox of an evaluation run promises, for every set of         *)
(* dispatchers and any number of faults and dead jobs: a job that can      *)
(* still run is the one the row names, "ready" speaks of an accepted job,  *)
(* and nothing is queued once the run was marked dispatched.               *)
(***************************************************************************)
EXTENDS EvalDispatch, TLAPS

Assumptions == TokensAssumption /\ BoundsAssumption

-----------------------------------------------------------------------------
(* The inductive invariant.                                                *)

Accepted == \E j \in JobIds : job[j] # "none"

\* Ids are used one after the other, each after the death of the last; the
\* deaths so far say how far they got.
IdsInOrder ==
    /\ \A j \in JobIds : j < run.jobId => job[j] = "dead"
    /\ \A j \in JobIds : j > run.jobId => job[j] = "none"
    /\ run.jobId = 0 \/ run.jobId <= deaths + 1
    /\ run.jobId # 0 /\ job[run.jobId] = "dead" => run.jobId <= deaths

\* A dispatched run has its job and no claim.
DispatchedHasItsJob ==
    run.dispatched => run.token = Nobody /\ run.jobId # 0 /\ job[run.jobId] # "none"

\* The gate's dispatchers arm and close nothing before a job is accepted.
ArmedIsAccepted == Rotates /\ (run.armed \/ run.status = "closed") => Accepted

Sending == {"arm", "send", "look", "rotate", "mark"}

\* What a dispatcher knows of its job, and what its claim is worth.
Informed(x) ==
    /\ d[x].job <= run.jobId
    /\ d[x].pc \in Sending \cup {"probe"} => d[x].job # 0
    /\ d[x].pc \in {"look", "mark"} => job[d[x].job] # "none"
    /\ d[x].pc = "rotate" => job[d[x].job] = "dead"
    /\ d[x].pc = "arm" => ~Rotates
    /\ run.token = x => d[x].pc \in Sending \cup {"release"}
    /\ run.token = x /\ d[x].pc \in Sending => d[x].job = run.jobId
    /\ d[x].answer = "ready" => Accepted

Inductive ==
    /\ TypeOK /\ IdsInOrder /\ DispatchedHasItsJob /\ ArmedIsAccepted
    /\ \A x \in Dispatchers : Informed(x)

-----------------------------------------------------------------------------
(* Keeping it.                                                             *)

Answers == {"none", "ready", "busy", "error"}

\* Going somewhere, and answering, change nothing else.
LEMMA Goes ==
    ASSUME NEW x \in Dispatchers, NEW pc \in Steps, Goto(x, pc), d \in [Dispatchers -> Dispatcher]
    PROVE  /\ d' \in [Dispatchers -> Dispatcher]
           /\ d'[x].pc = pc /\ d'[x].job = d[x].job /\ d'[x].answer = d[x].answer
           /\ d'[x].retried = d[x].retried
           /\ \A y \in Dispatchers : y # x => d'[y] = d[y]
<1>1. d[x] \in Dispatcher
  OBVIOUS
<1>2. d' = [d EXCEPT ![x] = [d[x] EXCEPT !.pc = pc]]
  BY DEF Goto
<1>3. [d[x] EXCEPT !.pc = pc] \in Dispatcher
  BY <1>1 DEF Dispatcher
<1> QED BY <1>1, <1>2, <1>3 DEF Dispatcher

\* A dispatcher that answers has ended, and the others stay.
LEMMA AnswersOnly ==
    ASSUME NEW x \in Dispatchers, NEW a \in Answers, Answer(x, a), d \in [Dispatchers -> Dispatcher]
    PROVE  /\ d' \in [Dispatchers -> Dispatcher]
           /\ d'[x].pc = "end" /\ d'[x].job = d[x].job /\ d'[x].answer = a
           /\ \A y \in Dispatchers : y # x => d'[y] = d[y]
<1>1. d[x] \in Dispatcher
  OBVIOUS
<1>2. d' = [d EXCEPT ![x] = [[d[x] EXCEPT !.pc = "end"] EXCEPT !.answer = a]]
  BY DEF Answer
<1>3. [[d[x] EXCEPT !.pc = "end"] EXCEPT !.answer = a] \in Dispatcher
  BY <1>1 DEF Dispatcher, Steps, Answers
<1> QED BY <1>1, <1>2, <1>3 DEF Dispatcher

\* A dispatcher is as informed as before when it stays where it is, no job
\* comes back and its claim is not touched.
LEMMA StaysInformed ==
    ASSUME Inductive, NEW y \in Dispatchers, Informed(y), d'[y] = d[y],
           run \in Run, run' \in Run, d[y] \in Dispatcher,
           run.jobId <= run'.jobId,
           \A j \in JobIds : job[j] # "none" => job'[j] # "none",
           \A j \in JobIds : job[j] = "dead" => job'[j] = "dead",
           run'.token = y => run.token = y /\ run'.jobId = run.jobId
    PROVE  Informed(y)'
<1>1. d[y].job \in JobIds \cup {0} /\ run.jobId \in JobIds \cup {0} /\ run'.jobId \in JobIds \cup {0}
  BY DEF Dispatcher, Run
<1>2. JobIds \subseteq Nat
  BY DEF JobIds
<1>0. d[y].job \in Nat /\ run.jobId \in Nat /\ run'.jobId \in Nat
  BY <1>1 DEF JobIds
<1>3. d'[y].job <= run'.jobId
  BY <1>0 DEF Informed
<1>4. Accepted => Accepted'
  BY DEF Accepted
<1>5. d[y].pc \in {"look", "mark", "rotate"} => d[y].job \in JobIds
  BY <1>1 DEF Informed, Sending
<1> QED BY <1>3, <1>4, <1>5 DEF Informed

\* What the invariant says of the types.
LEMMA Typed ==
    ASSUME Inductive
    PROVE  /\ run \in Run /\ job \in [JobIds -> Live \cup {"none", "completed", "dead"}]
           /\ d \in [Dispatchers -> Dispatcher]
           /\ faults \in 0 .. MaxFaults /\ deaths \in 0 .. MaxDeaths
           /\ \A x \in Dispatchers : d[x] \in Dispatcher /\ Informed(x)
  BY DEF Inductive, TypeOK

\* A step of one dispatcher that sends nothing and keeps the id.
LEMMA Moves ==
    ASSUME Inductive, NEW x \in Dispatchers,
           d' \in [Dispatchers -> Dispatcher], \A y \in Dispatchers : y # x => d'[y] = d[y],
           UNCHANGED <<job, deaths>>, faults' \in 0 .. MaxFaults, run' \in Run, run'.jobId = run.jobId,
           run'.dispatched =>
               run'.token = Nobody /\ (run.dispatched \/ (run.jobId # 0 /\ job[run.jobId] # "none")),
           Rotates /\ (run'.armed \/ run'.status = "closed") => Accepted,
           \A y \in Dispatchers : y # x /\ run'.token = y => run.token = y,
           Informed(x)'
    PROVE  Inductive'
<1>1. TypeOK'
  BY Typed DEF TypeOK
<1>2. IdsInOrder'
  BY DEF Inductive, IdsInOrder
<1>3. DispatchedHasItsJob'
  BY DEF Inductive, DispatchedHasItsJob
<1>4. ArmedIsAccepted'
  BY DEF ArmedIsAccepted, Accepted
<1>5. run'.jobId \in Nat
  BY DEF Run, JobIds
<1>6. ASSUME NEW y \in Dispatchers, y # x PROVE Informed(y)'
  BY <1>5, <1>6, Typed, StaysInformed
<1> QED BY <1>1, <1>2, <1>3, <1>4, <1>6 DEF Inductive

\* A fault is counted within its bound.
LEMMA FaultsAreBounded ==
    ASSUME Assumptions, faults \in 0 .. MaxFaults, Fault \/ NoFault \/ faults' = faults
    PROVE  faults' \in 0 .. MaxFaults
  BY DEF Assumptions, BoundsAssumption, Fault, NoFault

\* A dispatcher that only moves.
LEMMA MovesAlone ==
    ASSUME Assumptions, Inductive, NEW x \in Dispatchers, Fault \/ NoFault \/ faults' = faults,
           d' \in [Dispatchers -> Dispatcher], \A y \in Dispatchers : y # x => d'[y] = d[y],
           UNCHANGED <<run, job, deaths>>, Informed(x)'
    PROVE  Inductive'
<1>1. run'.dispatched => run'.token = Nobody
  BY DEF Inductive, DispatchedHasItsJob
<1>2. Rotates /\ (run'.armed \/ run'.status = "closed") => Accepted
  BY DEF Inductive, ArmedIsAccepted
<1>3. faults' \in 0 .. MaxFaults
  BY Typed, FaultsAreBounded
<1>4. run' \in Run /\ run'.jobId = run.jobId /\ UNCHANGED <<job, deaths>>
  BY Typed
<1>6. run' = run
  OBVIOUS
<1>7. ASSUME run'.dispatched PROVE run'.token = Nobody /\ run.dispatched
  BY <1>1, <1>6, <1>7
<1>5. ASSUME NEW y \in Dispatchers, run'.token = y PROVE run.token = y
  BY <1>6, <1>5
<1>11. d' \in [Dispatchers -> Dispatcher] /\ \A y \in Dispatchers : y # x => d'[y] = d[y]
  OBVIOUS
<1>12. UNCHANGED <<job, deaths>>
  OBVIOUS
<1>13. run'.dispatched =>
               run'.token = Nobody /\ (run.dispatched \/ (run.jobId # 0 /\ job[run.jobId] # "none"))
  BY <1>7, Zenon
<1>14. \A y \in Dispatchers : y # x /\ run'.token = y => run.token = y
  BY <1>5
<1>15. Informed(x)'
  OBVIOUS
<1> QED BY <1>2, <1>3, <1>4, <1>11, <1>12, <1>13, <1>14, <1>15, Moves

\* A statement that failed leads to the catch block.
LEMMA GivesUp ==
    ASSUME Assumptions, Inductive, NEW x \in Dispatchers, Fault, Goto(x, "release"),
           UNCHANGED <<run, job, deaths>>, run.token = x => d[x].pc \in Sending
    PROVE  Inductive'
<1>1. /\ d' \in [Dispatchers -> Dispatcher] /\ d'[x].pc = "release" /\ d'[x].job = d[x].job
      /\ d'[x].answer = d[x].answer /\ \A y \in Dispatchers : y # x => d'[y] = d[y]
  BY Typed, Goes DEF Steps
<1>2. Informed(x)'
  BY <1>1, Typed DEF Informed, Sending, Accepted
<1> QED BY <1>1, <1>2, MovesAlone

\* The dispatcher finds the run, or misses it.
LEMMA FindKeeps ==
    ASSUME Assumptions, Inductive, NEW x \in Dispatchers, Find(x) PROVE Inductive'
<1>1. PICK pc \in {"create", "check"} : Goto(x, pc)
  BY DEF Find
<1>2. /\ d' \in [Dispatchers -> Dispatcher] /\ d'[x].pc = pc /\ d'[x].job = d[x].job
      /\ d'[x].answer = d[x].answer /\ \A y \in Dispatchers : y # x => d'[y] = d[y]
  BY <1>1, Typed, Goes DEF Steps
<1>3. UNCHANGED <<run, job, faults, deaths>> /\ d[x].pc = "start"
  BY DEF Find, At
<1>4. Informed(x)'
  BY <1>2, <1>3, Typed DEF Informed, Sending, Accepted
<1> QED BY <1>2, <1>3, <1>4, MovesAlone

\* The run is created once.
LEMMA CreateKeeps ==
    ASSUME Assumptions, Inductive, NEW x \in Dispatchers, Create(x) PROVE Inductive'
<1>1. /\ run' = [run EXCEPT !.exists = TRUE] /\ UNCHANGED <<job, faults, deaths>> /\ d[x].pc = "create"
      /\ Goto(x, "check")
  BY DEF Create, At
<1>2. /\ d' \in [Dispatchers -> Dispatcher] /\ d'[x].pc = "check" /\ d'[x].job = d[x].job
      /\ d'[x].answer = d[x].answer /\ \A y \in Dispatchers : y # x => d'[y] = d[y]
  BY <1>1, Typed, Goes DEF Steps
<1>3. /\ run' \in Run /\ run'.jobId = run.jobId /\ run'.token = run.token /\ run'.status = run.status
      /\ run'.dispatched = run.dispatched /\ run'.armed = run.armed
  BY <1>1, Typed DEF Run
<1>4. Informed(x)'
  BY <1>1, <1>2, <1>3, Typed DEF Informed, Sending, Accepted
<1>5. run.dispatched => run.token = Nobody
  BY DEF Inductive, DispatchedHasItsJob
<1>6. Rotates /\ (run.armed \/ run.status = "closed") => Accepted
  BY DEF Inductive, ArmedIsAccepted
<1>7. faults' \in 0 .. MaxFaults
  BY <1>1, Typed
<1>8. ASSUME run'.dispatched PROVE run'.token = Nobody /\ run.dispatched
  BY <1>3, <1>5, <1>8
<1>9. Rotates /\ (run'.armed \/ run'.status = "closed") => Accepted
  BY <1>3, <1>6
<1>10. ASSUME NEW y \in Dispatchers, run'.token = y PROVE run.token = y
  BY <1>3, <1>10
<1> QED BY <1>1, <1>2, <1>3, <1>4, <1>7, <1>8, <1>9, <1>10, Moves

\* A closed run is ready: a job was accepted before it could close.
LEMMA CheckKeeps ==
    ASSUME Assumptions, Inductive, NEW x \in Dispatchers, Check(x) PROVE Inductive'
<1>1. UNCHANGED <<run, job, faults, deaths>> /\ d[x].pc = "check"
  BY DEF Check, At
<1>2. CASE Rotates /\ run.status = "closed" /\ Answer(x, "ready")
  <2>1. /\ d' \in [Dispatchers -> Dispatcher] /\ d'[x].pc = "end" /\ d'[x].job = d[x].job
        /\ d'[x].answer = "ready" /\ \A y \in Dispatchers : y # x => d'[y] = d[y]
    BY <1>2, Typed, AnswersOnly DEF Answers
  <2>2. Accepted
    BY <1>2 DEF Inductive, ArmedIsAccepted
  <2>3. Informed(x)'
    BY <1>1, <2>1, <2>2, Typed DEF Informed, Sending, Accepted
  <2> QED BY <1>1, <2>1, <2>3, MovesAlone
<1>3. CASE Goto(x, "claim")
  <2>1. /\ d' \in [Dispatchers -> Dispatcher] /\ d'[x].pc = "claim" /\ d'[x].job = d[x].job
        /\ d'[x].answer = d[x].answer /\ \A y \in Dispatchers : y # x => d'[y] = d[y]
    BY <1>3, Typed, Goes DEF Steps
  <2>2. Informed(x)'
    BY <1>1, <2>1, Typed DEF Informed, Sending, Accepted
  <2> QED BY <1>1, <2>1, <2>2, MovesAlone
<1> QED BY <1>2, <1>3 DEF Check

\* The claim names the first id, or the one the row has.
LEMMA ClaimKeeps ==
    ASSUME Assumptions, Inductive, NEW x \in Dispatchers, Claim(x) PROVE Inductive'
<1>1. UNCHANGED <<job, faults, deaths>> /\ d[x].pc = "claim"
  BY DEF Claim, At
<1>2. CASE Goto(x, "inspect") /\ UNCHANGED run
  <2>1. /\ d' \in [Dispatchers -> Dispatcher] /\ d'[x].pc = "inspect" /\ d'[x].job = d[x].job
        /\ d'[x].answer = d[x].answer /\ \A y \in Dispatchers : y # x => d'[y] = d[y]
    BY <1>2, Typed, Goes DEF Steps
  <2>2. Informed(x)'
    BY <1>1, <1>2, <2>1, Typed DEF Informed, Sending, Accepted
  <2> QED BY <1>1, <1>2, <2>1, <2>2, MovesAlone
<1>3. CASE ~run.dispatched /\ ~(Goto(x, "inspect") /\ UNCHANGED run)
  <2> DEFINE id == IF run.jobId = 0 THEN 1 ELSE run.jobId
             pc == IF Rotates THEN "send" ELSE "arm"
  <2>1. /\ run' = [run EXCEPT !.jobId = id, !.token = x, !.aged = FALSE]
        /\ d' = [d EXCEPT ![x].pc = pc, ![x].job = id, ![x].retried = FALSE]
    BY <1>3 DEF Claim
  <2>2. /\ id \in JobIds /\ id # 0 /\ run.jobId <= id
        /\ pc \in {"send", "arm"} /\ (pc = "arm" => ~Rotates)
    BY Typed DEF JobIds, Run, Assumptions, BoundsAssumption
  <2> HIDE DEF id, pc
  <2>3. d[x] \in Dispatcher /\ d \in [Dispatchers -> Dispatcher] /\ run \in Run
    BY Typed
  <2>4. [[[d[x] EXCEPT !.pc = pc] EXCEPT !.job = id] EXCEPT !.retried = FALSE] \in Dispatcher
    BY <2>2, <2>3 DEF Dispatcher, Steps
  <2>5. d' = [d EXCEPT ![x] = [[[d[x] EXCEPT !.pc = pc] EXCEPT !.job = id] EXCEPT !.retried = FALSE]]
    BY <2>1, <2>3
  <2>6. /\ d' \in [Dispatchers -> Dispatcher] /\ d'[x].pc = pc /\ d'[x].job = id
        /\ d'[x].answer = d[x].answer /\ \A y \in Dispatchers : y # x => d'[y] = d[y]
    BY <2>3, <2>4, <2>5 DEF Dispatcher
  <2>7. /\ run' \in Run /\ run'.jobId = id /\ run'.token = x /\ ~run'.dispatched
        /\ run'.armed = run.armed /\ run'.status = run.status
    BY <1>3, <2>1, <2>2, <2>3 DEF Run
  <2>8. TypeOK'
    BY <1>1, <2>6, <2>7, Typed DEF TypeOK
  <2>9. IdsInOrder'
    <3>1. CASE run.jobId # 0
      <4>1. id = run.jobId
        BY <3>1 DEF id
      <4> QED BY <1>1, <2>7, <4>1 DEF Inductive, IdsInOrder
    <3>2. CASE run.jobId = 0
      <4>1. id = 1 /\ 1 \in JobIds /\ deaths \in Nat /\ \A j \in JobIds : j > 0 /\ j \in Nat
        BY <2>2, <3>2, Typed DEF id, JobIds, Assumptions, BoundsAssumption
      <4>2. \A j \in JobIds : job[j] = "none"
        BY <3>2, <4>1 DEF Inductive, IdsInOrder
      <4> QED BY <1>1, <2>7, <4>1, <4>2 DEF IdsInOrder
    <3> QED BY <3>1, <3>2
  <2>10. DispatchedHasItsJob' /\ ArmedIsAccepted'
    BY <1>1, <2>7 DEF Inductive, DispatchedHasItsJob, ArmedIsAccepted, Accepted
  <2>11. Informed(x)'
    BY <1>1, <2>2, <2>6, <2>7, Typed DEF Informed, Sending, Accepted, JobIds
  <2>12. ASSUME NEW y \in Dispatchers, y # x PROVE Informed(y)'
    BY <1>1, <2>2, <2>3, <2>6, <2>7, <2>12, Typed, StaysInformed
  <2> QED BY <2>8, <2>9, <2>10, <2>11, <2>12 DEF Inductive
<1> QED BY <1>2, <1>3 DEF Claim


\* Whoever was beaten to the claim holds no token; it asks, or is answered.
LEMMA InspectKeeps ==
    ASSUME Assumptions, Inductive, NEW x \in Dispatchers, Inspect(x) PROVE Inductive'
<1>1. UNCHANGED <<run, job, faults, deaths>> /\ d[x].pc = "inspect"
  BY DEF Inspect, At
<1>2. ASSUME NEW a \in {"ready", "busy"}, Answer(x, a), a = "ready" => Accepted PROVE Inductive'
  <2>1. /\ d' \in [Dispatchers -> Dispatcher] /\ d'[x].pc = "end" /\ d'[x].job = d[x].job
        /\ d'[x].answer = a /\ \A y \in Dispatchers : y # x => d'[y] = d[y]
    BY <1>2, Typed, AnswersOnly DEF Answers
  <2>2. Informed(x)'
    BY <1>1, <1>2, <2>1, Typed DEF Informed, Sending, Accepted
  <2> QED BY <1>1, <2>1, <2>2, MovesAlone
<1>3. CASE run.dispatched /\ Answer(x, "ready")
  <2>1. Accepted
    BY <1>3, Typed DEF Inductive, DispatchedHasItsJob, Accepted, Run
  <2> QED BY <1>2, <1>3, <2>1
<1>4. CASE Answer(x, "busy")
  BY <1>2, <1>4
<1>5. CASE run.jobId # 0 /\ d' = [d EXCEPT ![x].pc = "probe", ![x].job = run.jobId]
  <2>1. d[x] \in Dispatcher /\ d \in [Dispatchers -> Dispatcher] /\ run \in Run
    BY Typed
  <2>2. [[d[x] EXCEPT !.pc = "probe"] EXCEPT !.job = run.jobId] \in Dispatcher
    BY <2>1 DEF Dispatcher, Steps, Run
  <2>3. d' = [d EXCEPT ![x] = [[d[x] EXCEPT !.pc = "probe"] EXCEPT !.job = run.jobId]]
    BY <1>5, <2>1
  <2>4. /\ d' \in [Dispatchers -> Dispatcher] /\ d'[x].pc = "probe" /\ d'[x].job = run.jobId
        /\ d'[x].answer = d[x].answer /\ \A y \in Dispatchers : y # x => d'[y] = d[y]
    BY <2>1, <2>2, <2>3 DEF Dispatcher
  <2>5. Informed(x)'
    BY <1>1, <1>5, <2>1, <2>4, Typed DEF Informed, Sending, Accepted, Run, JobIds
  <2> QED BY <1>1, <2>4, <2>5, MovesAlone
<1> QED BY <1>3, <1>4, <1>5 DEF Inspect

\* The queue knows of the job: it was accepted.
LEMMA ProbeKeeps ==
    ASSUME Assumptions, Inductive, NEW x \in Dispatchers, Probe(x) PROVE Inductive'
<1>1. UNCHANGED <<run, job, faults, deaths>> /\ d[x].pc = "probe"
  BY DEF Probe, At
<1>2. PICK a \in {"ready", "busy"} : Answer(x, a) /\ (a = "ready" => job[d[x].job] \in Live \cup {"completed"})
  BY DEF Probe
<1>3. d[x].job \in JobIds
  BY <1>1, Typed DEF Informed, Dispatcher
<1>4. a = "ready" => Accepted
  BY <1>2, <1>3 DEF Accepted, Live
<1>5. /\ d' \in [Dispatchers -> Dispatcher] /\ d'[x].pc = "end" /\ d'[x].job = d[x].job
      /\ d'[x].answer = a /\ \A y \in Dispatchers : y # x => d'[y] = d[y]
  BY <1>2, Typed, AnswersOnly DEF Answers
<1>6. Informed(x)'
  BY <1>1, <1>4, <1>5, Typed DEF Informed, Sending, Accepted
<1> QED BY <1>1, <1>5, <1>6, MovesAlone

\* Only the convergence route arms before a job is accepted.
LEMMA ArmFirstKeeps ==
    ASSUME Assumptions, Inductive, NEW x \in Dispatchers, ArmFirst(x) PROVE Inductive'
<1>1. UNCHANGED <<job, deaths>> /\ d[x].pc = "arm"
  BY DEF ArmFirst, At, NoEffect
<1>2. CASE NoEffect(x)
  BY <1>1, <1>2, GivesUp DEF NoEffect, Sending
<1>3. CASE run' = [run EXCEPT !.armed = @ \/ run.status \in Open] /\ Proceed(x, "send")
  <2>1. PICK q \in {"send", "release"} : Goto(x, q) /\ (Fault \/ NoFault)
    BY <1>3 DEF Proceed
  <2>2. /\ d' \in [Dispatchers -> Dispatcher] /\ d'[x].pc = q /\ d'[x].job = d[x].job
        /\ d'[x].answer = d[x].answer /\ \A y \in Dispatchers : y # x => d'[y] = d[y]
    BY <2>1, Typed, Goes DEF Steps
  <2>3. /\ run' \in Run /\ run'.jobId = run.jobId /\ run'.token = run.token /\ run'.status = run.status
        /\ run'.dispatched = run.dispatched
    BY <1>3, Typed DEF Run
  <2>4. ~Rotates
    BY <1>1, Typed DEF Informed
  <2>5. Informed(x)'
    BY <1>1, <2>2, <2>3, Typed DEF Informed, Sending, Accepted
  <2>6. faults' \in 0 .. MaxFaults
    BY <2>1, Typed, FaultsAreBounded
  <2>7. run'.dispatched => run'.token = Nobody /\ run.dispatched
    BY <2>3 DEF Inductive, DispatchedHasItsJob
  <2> QED BY <1>1, <2>2, <2>3, <2>4, <2>5, <2>6, <2>7, Moves
<1> QED BY <1>2, <1>3 DEF ArmFirst

\* An id that was never sent is the one the row names: the older ones are
\* dead.  Sending it leaves every other dispatcher as informed as before.
LEMMA SendsTheRecordedOne ==
    ASSUME Inductive, NEW x \in Dispatchers, d[x].pc = "send", job[d[x].job] = "none"
    PROVE  d[x].job = run.jobId /\ d[x].job \in JobIds
<1>1. d[x].job \in JobIds /\ d[x].job <= run.jobId /\ run.jobId \in JobIds
  BY Typed DEF Informed, Sending, Dispatcher, Run, JobIds
<1>2. ~(d[x].job < run.jobId)
  BY <1>1 DEF Inductive, IdsInOrder
<1> QED BY <1>1, <1>2 DEF JobIds

\* The send may lose its answer, and the job is the recorded one.
LEMMA SendKeeps ==
    ASSUME Assumptions, Inductive, NEW x \in Dispatchers, Send(x) PROVE Inductive'
<1>1. UNCHANGED <<run, deaths>> /\ d[x].pc = "send"
  BY DEF Send, At, NoEffect
<1>2. CASE NoEffect(x)
  BY <1>1, <1>2, GivesUp DEF NoEffect, Sending
<1>3. CASE job[d[x].job] # "none" /\ Proceed(x, IF Rotates THEN "look" ELSE "mark") /\ UNCHANGED job
  <2>1. PICK q \in {"look", "mark", "release"} : Goto(x, q) /\ (Fault \/ NoFault)
    BY <1>3 DEF Proceed
  <2>2. /\ d' \in [Dispatchers -> Dispatcher] /\ d'[x].pc = q /\ d'[x].job = d[x].job
        /\ d'[x].answer = d[x].answer /\ \A y \in Dispatchers : y # x => d'[y] = d[y]
    BY <2>1, Typed, Goes DEF Steps
  <2>3. Informed(x)'
    BY <1>1, <1>3, <2>2, Typed DEF Informed, Sending, Accepted
  <2> QED BY <1>1, <1>3, <2>1, <2>2, <2>3, MovesAlone
<1>4. CASE /\ job[d[x].job] = "none" /\ job' = [job EXCEPT ![d[x].job] = "created"]
           /\ Proceed(x, "mark")
  <2>1. PICK q \in {"mark", "release"} : Goto(x, q) /\ (Fault \/ NoFault)
    BY <1>4 DEF Proceed
  <2>2. /\ d' \in [Dispatchers -> Dispatcher] /\ d'[x].pc = q /\ d'[x].job = d[x].job
        /\ d'[x].answer = d[x].answer /\ \A y \in Dispatchers : y # x => d'[y] = d[y]
    BY <2>1, Typed, Goes DEF Steps
  <2>3. d[x].job = run.jobId /\ run.jobId \in JobIds
    BY <1>1, <1>4, SendsTheRecordedOne
  <2>4. /\ job' \in [JobIds -> Live \cup {"none", "completed", "dead"}] /\ job'[run.jobId] = "created"
        /\ \A j \in JobIds : j # run.jobId => job'[j] = job[j]
    BY <1>4, <2>3, Typed DEF Live
  <2>5. faults' \in 0 .. MaxFaults
    BY <2>1, Typed, FaultsAreBounded
  <2>6. TypeOK'
    BY <1>1, <2>2, <2>4, <2>5, Typed DEF TypeOK
  <2>7. JobIds \subseteq Nat /\ run.jobId \in Nat
    BY <2>3 DEF JobIds
  <2>8. IdsInOrder'
    BY <1>1, <2>3, <2>4, <2>7 DEF Inductive, IdsInOrder
  <2>9. Accepted' /\ DispatchedHasItsJob' /\ ArmedIsAccepted'
    BY <1>1, <2>3, <2>4 DEF Inductive, DispatchedHasItsJob, ArmedIsAccepted, Accepted
  <2>10. Informed(x)'
    BY <1>1, <2>2, <2>3, <2>4, <2>9, Typed DEF Informed, Sending
  <2>11. \A j \in JobIds : (job[j] # "none" => job'[j] # "none") /\ (job[j] = "dead" => job'[j] = "dead")
    BY <1>4, <2>3, <2>4
  <2>12. ASSUME NEW y \in Dispatchers, y # x PROVE Informed(y)'
    BY <1>1, <2>2, <2>7, <2>11, <2>12, Typed, StaysInformed
  <2> QED BY <2>6, <2>8, <2>9, <2>10, <2>12 DEF Inductive
<1> QED BY <1>2, <1>3, <1>4 DEF Send

\* What is neither alive nor done, of an id that was sent, is dead.
LEMMA LookKeeps ==
    ASSUME Assumptions, Inductive, NEW x \in Dispatchers, Look(x) PROVE Inductive'
<1>1. UNCHANGED <<run, job, deaths>> /\ d[x].pc = "look"
  BY DEF Look, At
<1>2. d[x].job \in JobIds /\ job[d[x].job] # "none"
  BY <1>1, Typed DEF Informed, Sending, Dispatcher
<1>3. PICK q \in {"mark", "rotate", "release"} :
          Goto(x, q) /\ (Fault \/ NoFault) /\ (q = "rotate" => job[d[x].job] \notin Live \cup {"completed"})
  BY DEF Look
<1>4. q = "rotate" => job[d[x].job] = "dead"
  BY <1>2, <1>3, Typed
<1>5. /\ d' \in [Dispatchers -> Dispatcher] /\ d'[x].pc = q /\ d'[x].job = d[x].job
      /\ d'[x].answer = d[x].answer /\ \A y \in Dispatchers : y # x => d'[y] = d[y]
  BY <1>3, Typed, Goes DEF Steps
<1>6. Informed(x)'
  BY <1>1, <1>2, <1>4, <1>5, Typed DEF Informed, Sending, Accepted
<1> QED BY <1>1, <1>3, <1>5, <1>6, MovesAlone



\* The owner replaces a dead id by the next; the deaths leave room for it.
LEMMA RotateKeeps ==
    ASSUME Assumptions, Inductive, NEW x \in Dispatchers, Rotate(x) PROVE Inductive'
<1>1. UNCHANGED <<job, deaths>> /\ d[x].pc = "rotate"
  BY DEF Rotate, At, NoEffect
<1>2. CASE NoEffect(x)
  BY <1>1, <1>2, GivesUp DEF NoEffect, Sending
<1>3. CASE NoFault /\ Goto(x, "release") /\ UNCHANGED run
  <2>1. /\ d' \in [Dispatchers -> Dispatcher] /\ d'[x].pc = "release" /\ d'[x].job = d[x].job
        /\ d'[x].answer = d[x].answer /\ \A y \in Dispatchers : y # x => d'[y] = d[y]
    BY <1>3, Typed, Goes DEF Steps
  <2>2. Informed(x)'
    BY <1>1, <1>3, <2>1, Typed DEF Informed, Sending, Accepted
  <2> QED BY <1>1, <1>3, <2>1, <2>2, MovesAlone
<1>4. CASE /\ Owns(x) /\ run' = [run EXCEPT !.jobId = @ + 1]
           /\ \/ /\ NoFault
                 /\ d' = [d EXCEPT ![x].pc = "send", ![x].job = run.jobId + 1, ![x].retried = TRUE]
              \/ Fault /\ Goto(x, "release")
  <2>1. d[x].job = run.jobId /\ run.jobId # 0 /\ job[run.jobId] = "dead" /\ run.jobId <= deaths
    BY <1>1, <1>4, Typed DEF Informed, Sending, Owns, Inductive, IdsInOrder
  <2>2. run.jobId \in Nat /\ run.jobId + 1 \in JobIds /\ run.jobId + 1 <= deaths + 1 /\ deaths \in Nat
    BY <2>1, Typed DEF Run, JobIds, Assumptions, BoundsAssumption
  <2>3. run \in Run /\ d[x] \in Dispatcher /\ d \in [Dispatchers -> Dispatcher]
    BY Typed
  <2>4. /\ run' \in Run /\ run'.jobId = run.jobId + 1 /\ run'.token = x /\ ~run'.dispatched
        /\ run'.armed = run.armed /\ run'.status = run.status
    BY <1>4, <2>2, <2>3 DEF Run, Owns
  <2>5. /\ d' \in [Dispatchers -> Dispatcher] /\ d'[x].answer = d[x].answer
        /\ \/ d'[x].pc = "send" /\ d'[x].job = run.jobId + 1
           \/ d'[x].pc = "release" /\ d'[x].job = d[x].job
        /\ \A y \in Dispatchers : y # x => d'[y] = d[y]
    <3>1. CASE Goto(x, "release")
      BY <3>1, Typed, Goes DEF Steps
    <3>2. CASE d' = [d EXCEPT ![x].pc = "send", ![x].job = run.jobId + 1, ![x].retried = TRUE]
      <4>1. [[[d[x] EXCEPT !.pc = "send"] EXCEPT !.job = run.jobId + 1] EXCEPT !.retried = TRUE]
              \in Dispatcher
        BY <2>2, <2>3 DEF Dispatcher, Steps
      <4>2. d' = [d EXCEPT ![x] =
                    [[[d[x] EXCEPT !.pc = "send"] EXCEPT !.job = run.jobId + 1] EXCEPT !.retried = TRUE]]
        BY <2>3, <3>2
      <4> QED BY <2>3, <4>1, <4>2 DEF Dispatcher
    <3> QED BY <1>4, <3>1, <3>2
  <2>6. faults' \in 0 .. MaxFaults
    BY <1>4, Typed, FaultsAreBounded
  <2>7. TypeOK'
    BY <1>1, <2>4, <2>5, <2>6, Typed DEF TypeOK
  <2>8. JobIds \subseteq Nat
    BY DEF JobIds
  <2>9. IdsInOrder'
    <3>1. ASSUME NEW j \in JobIds, j < run.jobId + 1 PROVE job[j] = "dead"
      BY <2>1, <2>2, <2>8, <3>1 DEF Inductive, IdsInOrder
    <3>2. ASSUME NEW j \in JobIds, j > run.jobId + 1 PROVE job[j] = "none"
      BY <2>2, <2>8, <3>2 DEF Inductive, IdsInOrder
    <3>3. job[run.jobId + 1] = "none"
      BY <2>2 DEF Inductive, IdsInOrder
    <3> QED BY <1>1, <2>2, <2>4, <3>1, <3>2, <3>3 DEF IdsInOrder
  <2>10. DispatchedHasItsJob' /\ ArmedIsAccepted'
    BY <1>1, <2>4 DEF Inductive, DispatchedHasItsJob, ArmedIsAccepted, Accepted
  <2>11. Informed(x)'
    BY <1>1, <2>1, <2>2, <2>4, <2>5, Typed DEF Informed, Sending, Accepted
  <2>12. ASSUME NEW y \in Dispatchers, y # x PROVE Informed(y)'
    BY <1>1, <2>2, <2>3, <2>4, <2>5, <2>12, Typed, StaysInformed
  <2> QED BY <2>7, <2>9, <2>10, <2>11, <2>12 DEF Inductive
<1> QED BY <1>2, <1>3, <1>4 DEF Rotate

\* Whoever still holds the claim has the accepted job the row names.
LEMMA MarkKeeps ==
    ASSUME Assumptions, Inductive, NEW x \in Dispatchers, Mark(x) PROVE Inductive'
<1>1. UNCHANGED <<job, deaths>> /\ d[x].pc = "mark"
  BY DEF Mark, At, NoEffect
<1>2. d[x].job \in JobIds /\ job[d[x].job] # "none"
  BY <1>1, Typed DEF Informed, Sending, Dispatcher
<1>3. Accepted
  BY <1>2 DEF Accepted
<1>4. CASE NoEffect(x)
  BY <1>1, <1>4, GivesUp DEF NoEffect, Sending
<1>5. CASE /\ run' = IF run.token = x
                     THEN [Unclaimed(run) EXCEPT !.dispatched = TRUE, !.armed = TRUE]
                     ELSE run
           /\ \/ NoFault /\ Answer(x, "ready")
              \/ Fault /\ Goto(x, "release")
  <2>1. /\ d' \in [Dispatchers -> Dispatcher] /\ d'[x].job = d[x].job
        /\ \/ d'[x].pc = "end" /\ d'[x].answer = "ready"
           \/ d'[x].pc = "release" /\ d'[x].answer = d[x].answer
        /\ \A y \in Dispatchers : y # x => d'[y] = d[y]
    <3>1. CASE Answer(x, "ready")
      BY <3>1, Typed, AnswersOnly DEF Answers
    <3>2. CASE Goto(x, "release")
      BY <3>2, Typed, Goes DEF Steps
    <3> QED BY <1>5, <3>1, <3>2
  <2>2. faults' \in 0 .. MaxFaults
    BY <1>5, Typed, FaultsAreBounded
  <2>3. CASE run.token # x
    <3>1. run' = run
      BY <1>5, <2>3
    <3>2. Informed(x)'
      BY <1>1, <1>2, <1>3, <2>1, <2>3, <3>1, Typed DEF Informed, Sending, Accepted
    <3> QED BY <1>1, <1>5, <2>1, <3>1, <3>2, MovesAlone
  <2>4. CASE run.token = x
    <3>1. d[x].job = run.jobId
      BY <1>1, <2>4, Typed DEF Informed, Sending
    <3>2. [[[run EXCEPT !.token = Nobody] EXCEPT !.aged = FALSE] EXCEPT !.dispatched = TRUE] \in Run
      BY Typed DEF Run
    <3>3. run' = [[[[run EXCEPT !.token = Nobody] EXCEPT !.aged = FALSE] EXCEPT !.dispatched = TRUE]
                    EXCEPT !.armed = TRUE]
      BY <1>5, <2>4 DEF Unclaimed
    <3>4. /\ run' \in Run /\ run'.jobId = run.jobId /\ run'.token = Nobody /\ run'.dispatched
          /\ run'.status = run.status
      BY <3>2, <3>3, Typed DEF Run
    <3>5. Nobody \notin Dispatchers
      BY DEF Assumptions, TokensAssumption
    <3>6. Informed(x)'
      BY <1>1, <1>2, <1>3, <2>1, <3>1, <3>4, <3>5, Typed DEF Informed, Sending, Accepted
    <3>7. run'.dispatched =>
               run'.token = Nobody /\ (run.dispatched \/ (run.jobId # 0 /\ job[run.jobId] # "none"))
      BY <1>2, <3>1, <3>4, 0 \notin JobIds DEF JobIds
    <3>8. \A y \in Dispatchers : y # x /\ run'.token = y => run.token = y
      BY <3>4, <3>5
    <3> QED BY <1>1, <1>3, <2>1, <2>2, <3>4, <3>6, <3>7, <3>8, Moves
  <2> QED BY <2>3, <2>4
<1> QED BY <1>4, <1>5 DEF Mark

\* A claim given up, or outliving its owner, leaves the rest of the row alone.
LEMMA LetsGo ==
    ASSUME Assumptions, Inductive, NEW x \in Dispatchers, Fault \/ NoFault, Answer(x, "error"),
           UNCHANGED <<job, deaths>>,
           \/ run' = IF Owns(x) THEN Unclaimed(run) ELSE run
           \/ run' = IF run.token = x THEN [run EXCEPT !.token = Lost] ELSE run
    PROVE  Inductive'
<1>1. /\ d' \in [Dispatchers -> Dispatcher] /\ d'[x].pc = "end" /\ d'[x].job = d[x].job
      /\ d'[x].answer = "error" /\ \A y \in Dispatchers : y # x => d'[y] = d[y]
  BY Typed, AnswersOnly DEF Answers
<1>2. Lost \notin Dispatchers /\ Nobody \notin Dispatchers /\ Lost # Nobody
  BY DEF Assumptions, TokensAssumption
<1>3. run.token = x => run.dispatched = FALSE
  BY <1>2, Typed DEF Inductive, DispatchedHasItsJob, Run
<1>4. [[run EXCEPT !.token = Nobody] EXCEPT !.aged = FALSE] \in Run /\ [run EXCEPT !.token = Lost] \in Run
  BY Typed DEF Run
<1>5. Unclaimed(run) = [[run EXCEPT !.token = Nobody] EXCEPT !.aged = FALSE]
  BY DEF Unclaimed
<1>6. /\ run' \in Run /\ run'.jobId = run.jobId /\ run'.dispatched = run.dispatched
      /\ run'.armed = run.armed /\ run'.status = run.status
      /\ IF run.token = x THEN run'.token \in {Nobody, Lost} ELSE run'.token = run.token
  <2>1. run \in Run
    BY Typed
  <2>2. CASE run.token # x
    <3>1. run' = run
      BY <2>2 DEF Owns
    <3> QED BY <2>1, <2>2, <3>1
  <2>3. CASE run.token = x
    <3>1. run' = [[run EXCEPT !.token = Nobody] EXCEPT !.aged = FALSE] \/ run' = [run EXCEPT !.token = Lost]
      BY <1>3, <1>5, <2>3 DEF Owns
    <3> QED BY ZenonT(40), <1>4, <2>1, <2>3, <3>1 DEF Run
  <2> QED BY <2>2, <2>3
<1>7. Informed(x)'
  BY <1>1, <1>2, <1>6, Typed DEF Informed, Sending, Accepted
<1>8. faults' \in 0 .. MaxFaults
  BY Typed, FaultsAreBounded
<1>9. run'.dispatched => run'.token = Nobody /\ run.dispatched
  BY <1>2, <1>3, <1>6 DEF Inductive, DispatchedHasItsJob
<1>10. Rotates /\ (run'.armed \/ run'.status = "closed") => Accepted
  BY <1>6 DEF Inductive, ArmedIsAccepted
<1>11. \A y \in Dispatchers : y # x /\ run'.token = y => run.token = y
  BY <1>2, <1>6
<1> QED BY <1>1, <1>6, <1>7, <1>8, <1>9, <1>10, <1>11, Moves

\* Coming back is starting anew, without a claim.
LEMMA AskAgainKeeps ==
    ASSUME Assumptions, Inductive, NEW x \in Dispatchers, AskAgain(x) PROVE Inductive'
<1>1. UNCHANGED <<run, job, faults, deaths>> /\ d[x].pc = "end" /\ d' = [d EXCEPT ![x] = Idle]
  BY DEF AskAgain, At
<1>2. Idle \in Dispatcher /\ Idle.pc = "start" /\ Idle.job = 0 /\ Idle.answer = "none"
  BY DEF Idle, Dispatcher, Steps
<1>3. d' \in [Dispatchers -> Dispatcher] /\ d'[x] = Idle /\ \A y \in Dispatchers : y # x => d'[y] = d[y]
  BY <1>1, <1>2, Typed
<1>4. Informed(x)'
  BY <1>1, <1>2, <1>3, Typed DEF Informed, Sending, Accepted, Run, JobIds
<1> QED BY <1>1, <1>3, <1>4, MovesAlone

-----------------------------------------------------------------------------
(* Time and the queue.                                                     *)

\* The row ages or ends under the feet of its dispatchers.
LEMMA RowMoves ==
    ASSUME Inductive, UNCHANGED <<d, job, deaths>>, faults' \in 0 .. MaxFaults,
           run' \in Run, run'.jobId = run.jobId, run'.token = run.token,
           run'.dispatched = run.dispatched, run'.armed = run.armed,
           run'.status = "closed" => run.armed \/ run.status = "closed"
    PROVE  Inductive'
<1>1. TypeOK'
  BY Typed DEF TypeOK
<1>2. IdsInOrder' /\ DispatchedHasItsJob' /\ ArmedIsAccepted'
  BY DEF Inductive, IdsInOrder, DispatchedHasItsJob, ArmedIsAccepted, Accepted
<1>3. ASSUME NEW y \in Dispatchers PROVE Informed(y)'
  BY Typed DEF Informed, Accepted
<1> QED BY <1>1, <1>2, <1>3 DEF Inductive

\* A claim grows old.
LEMMA ClaimAgesKeeps ==
    ASSUME Assumptions, Inductive, ClaimAges PROVE Inductive'
<1>1. run' = [run EXCEPT !.aged = TRUE] /\ UNCHANGED <<job, d, deaths>> /\ (Fault \/ NoFault)
  BY DEF ClaimAges
<1>2. /\ run' \in Run /\ run'.jobId = run.jobId /\ run'.token = run.token
      /\ run'.dispatched = run.dispatched /\ run'.armed = run.armed /\ run'.status = run.status
  BY <1>1, Typed DEF Run
<1>3. faults' \in 0 .. MaxFaults
  BY <1>1, Typed, FaultsAreBounded
<1> QED BY <1>1, <1>2, <1>3, RowMoves

\* A run that is over needs no job.
LEMMA RunClosesKeeps ==
    ASSUME Assumptions, Inductive, RunCloses PROVE Inductive'
<1>1. run' = [run EXCEPT !.status = "closed"] /\ UNCHANGED <<job, d, faults, deaths>> /\ run.armed
  BY DEF RunCloses
<1>2. /\ run' \in Run /\ run'.jobId = run.jobId /\ run'.token = run.token
      /\ run'.dispatched = run.dispatched /\ run'.armed = run.armed
  BY <1>1, Typed DEF Run
<1>3. faults' \in 0 .. MaxFaults
  BY <1>1, Typed
<1> QED BY <1>1, <1>2, <1>3, RowMoves

\* A job that lives is the one the row names.
LEMMA LivingIsRecorded ==
    ASSUME Inductive, NEW j \in JobIds, job[j] \in Live
    PROVE  j = run.jobId
<1>1. j \in Nat /\ run.jobId \in Nat
  BY Typed DEF JobIds, Run
<1>2. ~(j < run.jobId) /\ ~(j > run.jobId)
  BY DEF Inductive, IdsInOrder, Live
<1> QED BY <1>1, <1>2

\* A step of a living job, which no dispatcher takes part in.
LEMMA JobMoves ==
    ASSUME Assumptions, Inductive, NEW j \in JobIds, job[j] \in Live,
           NEW s \in Live \cup {"completed", "dead"}, job' = [job EXCEPT ![j] = s],
           UNCHANGED d, faults' \in 0 .. MaxFaults, deaths' \in 0 .. MaxDeaths, deaths <= deaths',
           s = "dead" => deaths' = deaths + 1,
           run' \in Run, run'.jobId = run.jobId, run'.token = run.token, run'.dispatched = run.dispatched
    PROVE  Inductive'
<1>1. j = run.jobId /\ j \in Nat /\ deaths \in Nat /\ deaths' \in Nat /\ JobIds \subseteq Nat
  BY LivingIsRecorded, Typed DEF JobIds
<1>2. job' \in [JobIds -> Live \cup {"none", "completed", "dead"}]
  BY Typed
<1>3. job'[j] = s /\ s # "none" /\ \A k \in JobIds : k # j => job'[k] = job[k]
  BY Typed DEF Live
<1>4. TypeOK'
  BY <1>2, Typed DEF TypeOK
<1>5. IdsInOrder'
  BY <1>1, <1>3 DEF Inductive, IdsInOrder
<1>6. Accepted' /\ DispatchedHasItsJob' /\ ArmedIsAccepted'
  BY <1>1, <1>3 DEF Inductive, DispatchedHasItsJob, ArmedIsAccepted, Accepted
<1>7. \A k \in JobIds : (job[k] # "none" => job'[k] # "none") /\ (job[k] = "dead" => job'[k] = "dead")
  BY <1>3 DEF Live
<1>8. ASSUME NEW y \in Dispatchers PROVE Informed(y)'
  BY <1>1, <1>7, <1>8, Typed, StaysInformed
<1> QED BY <1>4, <1>5, <1>6, <1>8 DEF Inductive

\* The accepted job starts.
LEMMA JobStartsKeeps ==
    ASSUME Assumptions, Inductive, NEW j \in JobIds, JobStarts(j) PROVE Inductive'
<1>1. /\ job[j] \in Live /\ job' = [job EXCEPT ![j] = "active"] /\ "active" \in Live
      /\ UNCHANGED <<run, d, faults, deaths>>
  BY DEF JobStarts, Live
<1>2. faults' \in 0 .. MaxFaults /\ deaths' \in 0 .. MaxDeaths /\ deaths <= deaths' /\ run' \in Run
  BY <1>1, Typed
<1> QED BY <1>1, <1>2, JobMoves

\* The job marks its run.
LEMMA JobMarksRunKeeps ==
    ASSUME Assumptions, Inductive, NEW j \in JobIds, JobMarksRun(j) PROVE Inductive'
<1>1. PICK s \in {"marked", "completed"} : job' = [job EXCEPT ![j] = s]
  BY DEF JobMarksRun
<1>2. job[j] \in Live /\ s \in Live \cup {"completed", "dead"} /\ s # "dead" /\ UNCHANGED <<d, faults, deaths>>
  BY DEF JobMarksRun, Live
<1>3. run' = [run EXCEPT !.status = "running"] \/ run' = run
  BY DEF JobMarksRun
<1>4. /\ run' \in Run /\ run'.jobId = run.jobId /\ run'.token = run.token
      /\ run'.dispatched = run.dispatched
  BY <1>3, Typed DEF Run, Open
<1>5. faults' \in 0 .. MaxFaults /\ deaths' \in 0 .. MaxDeaths /\ deaths <= deaths'
  BY <1>2, Typed
<1> QED BY <1>1, <1>2, <1>4, <1>5, JobMoves

\* The job arms the deadlines of its run.
LEMMA JobArmsKeeps ==
    ASSUME Assumptions, Inductive, NEW j \in JobIds, JobArms(j) PROVE Inductive'
<1>1. job[j] \in Live /\ job' = [job EXCEPT ![j] = "completed"] /\ UNCHANGED <<d, faults, deaths>>
  BY DEF JobArms, Live
<1>2. run' = [run EXCEPT !.armed = TRUE] \/ run' = run
  BY DEF JobArms
<1>3. /\ run' \in Run /\ run'.jobId = run.jobId /\ run'.token = run.token
      /\ run'.dispatched = run.dispatched
  BY <1>2, Typed DEF Run
<1>4. faults' \in 0 .. MaxFaults /\ deaths' \in 0 .. MaxDeaths /\ deaths <= deaths'
  BY <1>1, Typed
<1> QED BY <1>1, <1>3, <1>4, JobMoves

\* The job fails and is delivered again.
LEMMA JobFailsKeeps ==
    ASSUME Assumptions, Inductive, NEW j \in JobIds, JobFails(j) PROVE Inductive'
<1>1. /\ job[j] \in Live /\ job' = [job EXCEPT ![j] = "created"] /\ "created" \in Live
      /\ UNCHANGED <<run, d, deaths>> /\ Fault
  BY DEF JobFails, Live
<1>2. faults' \in 0 .. MaxFaults /\ deaths' \in 0 .. MaxDeaths /\ deaths <= deaths' /\ run' \in Run
  BY <1>1, Typed, FaultsAreBounded
<1> QED BY <1>1, <1>2, JobMoves

\* The job dies for good.
LEMMA JobDiesKeeps ==
    ASSUME Assumptions, Inductive, NEW j \in JobIds, JobDies(j) PROVE Inductive'
<1>1. /\ job[j] \in Live /\ job' = [job EXCEPT ![j] = "dead"] /\ UNCHANGED <<run, d, faults>>
      /\ deaths < MaxDeaths /\ deaths' = deaths + 1
  BY DEF JobDies
<1>2. faults' \in 0 .. MaxFaults /\ deaths' \in 0 .. MaxDeaths /\ deaths <= deaths' /\ run' \in Run
  BY <1>1, Typed DEF Assumptions, BoundsAssumption
<1> QED BY <1>1, <1>2, JobMoves

-----------------------------------------------------------------------------
(* The theorems.                                                           *)

\* No run and no job.
LEMMA InitInductive ==
    ASSUME Assumptions, Init PROVE Inductive
<1>1. 0 \in 0 .. MaxFaults /\ 0 \in 0 .. MaxDeaths /\ JobIds \subseteq Nat /\ \A j \in JobIds : j > 0
  BY DEF Assumptions, BoundsAssumption, JobIds
<1>2. TypeOK
  BY <1>1 DEF Init, TypeOK, NewRun, Run, Idle, Dispatcher, Steps, Open
<1>3. /\ run.jobId = 0 /\ run.token = Nobody /\ run.dispatched = FALSE /\ run.armed = FALSE
      /\ run.status = "pending" /\ \A j \in JobIds : job[j] = "none"
  BY DEF Init, NewRun
<1>4. IdsInOrder /\ DispatchedHasItsJob /\ ArmedIsAccepted
  BY <1>1, <1>3 DEF IdsInOrder, DispatchedHasItsJob, ArmedIsAccepted
<1>5. ASSUME NEW x \in Dispatchers PROVE Informed(x)
  <2>1. d[x].pc = "start" /\ d[x].job = 0 /\ d[x].answer = "none"
    BY DEF Init, Idle
  <2>2. run.token # x
    BY <1>3 DEF Assumptions, TokensAssumption
  <2> QED BY <1>3, <2>1, <2>2 DEF Informed, Sending
<1> QED BY <1>2, <1>4, <1>5 DEF Inductive

\* Every step keeps what row and queue say of each other.
LEMMA StepInductive ==
    ASSUME Assumptions, Inductive, [Next]_vars PROVE Inductive'
<1>1. ASSUME NEW x \in Dispatchers, DispatcherStep(x) PROVE Inductive'
  <2>1. CASE Release(x)
    <3>1. /\ (Fault \/ NoFault) /\ Answer(x, "error") /\ UNCHANGED <<job, deaths>>
          /\ \/ run' = IF Owns(x) THEN Unclaimed(run) ELSE run
             \/ run' = IF run.token = x THEN [run EXCEPT !.token = Lost] ELSE run
      BY <2>1 DEF Release
    <3> QED BY <3>1, LetsGo
  <2> QED BY <1>1, <2>1, FindKeeps, CreateKeeps, CheckKeeps, ClaimKeeps, InspectKeeps, ProbeKeeps,
             ArmFirstKeeps, SendKeeps, LookKeeps, RotateKeeps, MarkKeeps, AskAgainKeeps DEF DispatcherStep
<1>2. ASSUME NEW x \in Dispatchers, Crash(x) PROVE Inductive'
  <2>1. /\ Fault /\ Answer(x, "error") /\ UNCHANGED <<job, deaths>>
        /\ run' = IF run.token = x THEN [run EXCEPT !.token = Lost] ELSE run
    BY <1>2 DEF Crash
  <2> QED BY <2>1, LetsGo
<1>3. ASSUME NEW j \in JobIds, JobStep(j) \/ JobFails(j) \/ JobDies(j) PROVE Inductive'
  BY <1>3, JobStartsKeeps, JobMarksRunKeeps, JobArmsKeeps, JobFailsKeeps, JobDiesKeeps DEF JobStep
<1>4. CASE UNCHANGED vars
  <2>1. run' = run /\ job' = job /\ d' = d /\ faults' = faults /\ deaths' = deaths
    BY <1>4 DEF vars
  <2> QED BY <2>1, Typed, RowMoves
<1> QED BY <1>1, <1>2, <1>3, <1>4, ClaimAgesKeeps, RunClosesKeeps DEF Next


\* An id is first used by the dispatcher that holds it as the recorded one,
\* and once the run was marked dispatched that id is taken.
LEMMA StepQueuesNothing ==
    ASSUME Assumptions, Inductive, [Next]_vars PROVE QueuesNothingOnceDispatched
<1> SUFFICES ASSUME run.dispatched, NEW j \in JobIds, job[j] = "none" PROVE job'[j] = "none"
  BY DEF QueuesNothingOnceDispatched
<1>1. job \in [JobIds -> Live \cup {"none", "completed", "dead"}]
  BY Typed
<1>2. run.jobId \in JobIds /\ job[run.jobId] # "none"
  BY Typed DEF Inductive, DispatchedHasItsJob, Run
<1>3. ASSUME NEW x \in Dispatchers, Send(x) PROVE job'[j] = "none"
  <2>1. job[d[x].job] # "none"
    <3> SUFFICES ASSUME job[d[x].job] = "none" PROVE FALSE
      OBVIOUS
    <3>1. d[x].pc = "send"
      BY <1>3 DEF Send, At
    <3> QED BY <1>2, <3>1, SendsTheRecordedOne
  <2> QED BY <1>3, <2>1 DEF Send, NoEffect
<1>4. ASSUME NEW x \in Dispatchers, ~Send(x), DispatcherStep(x) \/ Crash(x) PROVE job' = job
  BY <1>4 DEF DispatcherStep, Find, Create, Check, Claim, Inspect, Probe, ArmFirst, Look, Rotate, Mark,
     Release, AskAgain, Crash, NoEffect
<1>5. ASSUME NEW k \in JobIds, JobStep(k) \/ JobFails(k) \/ JobDies(k) PROVE job'[j] = "none"
  <2>1. k # j
    BY <1>5 DEF JobStep, JobStarts, JobMarksRun, JobArms, JobFails, JobDies, Live
  <2> QED BY <1>1, <1>5, <2>1 DEF JobStep, JobStarts, JobMarksRun, JobArms, JobFails, JobDies
<1>6. ClaimAges \/ RunCloses \/ UNCHANGED vars => job' = job
  BY DEF ClaimAges, RunCloses, vars
<1> QED BY <1>3, <1>4, <1>5, <1>6 DEF Next

\* The invariant says what the properties ask.
LEMMA InductiveDelivers ==
    Inductive => TypeOK /\ LiveJobIsTheRecordedOne /\ ReadyMeansAccepted
<1> SUFFICES ASSUME Inductive PROVE TypeOK /\ LiveJobIsTheRecordedOne /\ ReadyMeansAccepted
  OBVIOUS
<1>1. LiveJobIsTheRecordedOne
  BY LivingIsRecorded DEF LiveJobIsTheRecordedOne
<1>2. ReadyMeansAccepted
  BY Typed DEF ReadyMeansAccepted, Informed, Accepted
<1> QED BY <1>1, <1>2 DEF Inductive

\* The outbox (workers/gate.ts, and the convergence route): rows, jobs and
\* dispatchers keep their shapes, however claims are stolen, released and
\* rotated.
THEOREM OutboxTyped ==
    ASSUME Assumptions PROVE Spec => []TypeOK
<1>1. Init => Inductive
  BY InitInductive
<1>2. Inductive /\ [Next]_vars => Inductive'
  BY StepInductive
<1>3. Inductive => TypeOK
  BY InductiveDelivers
<1> QED BY <1>1, <1>2, <1>3, PTL DEF Spec

\* A job that can still run is the one the row names: two fan-outs of one
\* run never overlap through the dispatch, whatever dies or stalls.
THEOREM LiveJobIsRecorded ==
    ASSUME Assumptions PROVE Spec => []LiveJobIsTheRecordedOne
<1>1. Init => Inductive
  BY InitInductive
<1>2. Inductive /\ [Next]_vars => Inductive'
  BY StepInductive
<1>3. Inductive => LiveJobIsTheRecordedOne
  BY InductiveDelivers
<1> QED BY <1>1, <1>2, <1>3, PTL DEF Spec

\* A caller that is told "ready" on any path speaks of a job the queue
\* accepted.
THEOREM ReadyIsAccepted ==
    ASSUME Assumptions PROVE Spec => []ReadyMeansAccepted
<1>1. Init => Inductive
  BY InitInductive
<1>2. Inductive /\ [Next]_vars => Inductive'
  BY StepInductive
<1>3. Inductive => ReadyMeansAccepted
  BY InductiveDelivers
<1> QED BY <1>1, <1>2, <1>3, PTL DEF Spec

\* A dispatcher that stalled past its lease and wakes after another one
\* marked the run dispatched queues nothing.
THEOREM DispatchedOnce ==
    ASSUME Assumptions PROVE Spec => NothingIsQueuedAfterDispatch
<1>1. Init => Inductive
  BY InitInductive
<1>2. Inductive /\ [Next]_vars => Inductive'
  BY StepInductive
<1>3. Inductive /\ [Next]_vars => [QueuesNothingOnceDispatched]_vars
  BY StepQueuesNothing
<1> QED BY <1>1, <1>2, <1>3, PTL DEF Spec, NothingIsQueuedAfterDispatch

=============================================================================

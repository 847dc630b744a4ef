----------------------------- MODULE JudgeService -----------------------------
(***************************************************************************)
(* The synchronous judge endpoint and the two ledgers a judgement goes to. *)
(*   v1-evaluation-administration.ts  POST /api/v1/judge                   *)
(*   workers/judge.ts                 judgeAndRecord                       *)
(*   judge-feedback-repository.ts     loadJudgeRunContext, recordJudgeRun  *)
(*   case-evidence-repository.ts      recordVerdict, listVerdicts          *)
(* A request imports its trace (TraceRetention models the import itself),  *)
(* answers with a recorded verdict if there is one, and otherwise races    *)
(* the evaluator against a timer.  The timer ends the response only: the   *)
(* judgement goes on and is recorded when it comes.  Each statement        *)
(* commits alone; other requests and a retention pruning run between them. *)
(***************************************************************************)
EXTENDS Naturals, FiniteSets, Sequences

CONSTANTS
    Traces, Versions, Labels,
    MaxRequests,   \* bound: requests
    MaxPrunes,     \* bound: retention prunings
    MaxFaults      \* bound: processes that die

VARIABLES
    live,       \* the cases there are: <<trace, prunings before it>>
    runs,       \* judge_runs: set of [id, case, version]
    verdicts,   \* verdicts: set of [id, case, version, label]
    judged,     \* projects.auto_judged_trace_count
    requests,   \* sequence of [pc, case, version, force, sink, label, first, answer]
    prunes,
    faults

vars == <<live, runs, verdicts, judged, requests, prunes, faults>>

Ids == 1 .. MaxRequests
Answers == {"none", "cached", "judged", "timeout", "error", "lost"}
Init ==
    /\ live = {}
    /\ runs = {}
    /\ verdicts = {}
    /\ judged = 0
    /\ requests = <<>>
    /\ prunes = 0
    /\ faults = 0

Cases == Traces \X (0 .. MaxPrunes)
\* The verdicts on record of a case by a version.
OnRecord(c, v) == {w \in verdicts : w.case = c /\ w.version = v}

-----------------------------------------------------------------------------
(* The endpoint. *)

\* importTrace, then the cache is asked only if the trace was there already.
Post(t, v, force) ==
    LET own == {c \in live : c[1] = t}
        case == IF own = {} THEN <<t, prunes>> ELSE CHOOSE c \in own : TRUE IN
    /\ Len(requests) < MaxRequests
    /\ live' = live \cup {case}
    /\ requests' = Append(requests,
         [pc |-> IF own /= {} /\ ~force THEN "lookup" ELSE "load",
          case |-> case, version |-> v, force |-> force, sink |-> 1,
          label |-> CHOOSE l \in Labels : TRUE, first |-> FALSE, answer |-> "none"])
    /\ UNCHANGED <<runs, verdicts, judged, prunes, faults>>

Set(r, changes) == requests' = [requests EXCEPT ![r] = changes]

\* Faulty variant: a failure is answered like a verdict.
Early(q, answer) == IF q.answer = "none" THEN "judged" ELSE q.answer
\* A request whose response has not gone yet gets this one.
Respond(q, answer) == IF q.answer = "none" THEN answer ELSE q.answer

Lookup(r) ==
    LET q == requests[r] IN
    /\ q.pc = "lookup"
    /\ IF OnRecord(q.case, q.version) /= {}
          THEN Set(r, [q EXCEPT !.pc = "done", !.answer = "cached"])
          ELSE Set(r, [q EXCEPT !.pc = "load"])
    /\ UNCHANGED <<live, runs, verdicts, judged, prunes, faults>>

Failed(q) == [q EXCEPT !.pc = "failed", !.answer = Respond(q, "error")]

\* loadJudgeRunContext: the case must still be there; then the evaluator is called.
Load(r) ==
    LET q == requests[r] IN
    /\ q.pc = "load"
    /\ Set(r, IF q.case \in live THEN [q EXCEPT !.pc = "calling"] ELSE Failed(q))
    /\ UNCHANGED <<live, runs, verdicts, judged, prunes, faults>>

\* The evaluator answers, or refuses.
Return(r) ==
    LET q == requests[r] IN
    /\ q.pc = "calling"
    /\ \/ \E l \in Labels : Set(r, [q EXCEPT !.pc = "sink", !.label = l])
       \/ Set(r, Failed(q))
    /\ UNCHANGED <<live, runs, verdicts, judged, prunes, faults>>

\* Losing the race changes the response, not the judgement.
AfterTimeout(pc) == pc

Timeout(r) ==
    LET q == requests[r] IN
    /\ q.pc \notin {"lookup", "done", "failed", "dead"}
    /\ q.answer = "none"
    /\ Set(r, [q EXCEPT !.answer = "timeout", !.pc = AfterTimeout(q.pc)])
    /\ UNCHANGED <<live, runs, verdicts, judged, prunes, faults>>

-----------------------------------------------------------------------------
(* The two ledgers. *)

\* Faulty variant: the verdict is written first.
Reversed == <<"verdict", "run">>
\* The projection that can be repeated is written before the append-only verdict.
Sinks == <<"run", "verdict">>

At(q, sink) == q.pc = "sink" /\ Sinks[q.sink] = sink
NextSink(q) == IF q.sink = Len(Sinks)
                  THEN [q EXCEPT !.pc = "done", !.answer = Respond(q, "judged")]
                  ELSE [q EXCEPT !.pc = "sink", !.sink = @ + 1]

\* recordJudgeRun looks for a run of the case and version.
SelectRun(r) ==
    LET q == requests[r] IN
    /\ At(q, "run")
    /\ IF \E x \in runs : x.case = q.case /\ x.version = q.version
          THEN Set(r, NextSink(q))
          ELSE Set(r, [q EXCEPT !.pc = "insert"])
    /\ UNCHANGED <<live, runs, verdicts, judged, prunes, faults>>

\* The insert: a case that was pruned meanwhile refuses it.
InsertRun(r) ==
    LET q == requests[r] IN
    /\ q.pc = "insert"
    /\ IF q.case \in live
          THEN /\ runs' = runs \cup {[id |-> r, case |-> q.case, version |-> q.version]}
               /\ Set(r, [q EXCEPT !.pc = "probe"])
          ELSE /\ Set(r, Failed(q))
               /\ UNCHANGED runs
    /\ UNCHANGED <<live, verdicts, judged, prunes, faults>>

\* Faulty variant: every judge run is counted.
EveryRun(r, c) == c \in Cases
\* The case has no run but this one.
IsFirst(r, c) == ~ \E x \in runs : x.case = c /\ x.id /= r

\* The update of the counter: what it reads is as of its start, and it may
\* wait for the project's row before it writes.
Probe(r) ==
    LET q == requests[r] IN
    /\ q.pc = "probe"
    /\ Set(r, [q EXCEPT !.pc = "count", !.first = IsFirst(r, q.case)])
    /\ UNCHANGED <<live, runs, verdicts, judged, prunes, faults>>

Count(r) ==
    LET q == requests[r] IN
    /\ q.pc = "count"
    /\ judged' = judged + (IF q.first THEN 1 ELSE 0)
    /\ Set(r, NextSink(q))
    /\ UNCHANGED <<live, runs, verdicts, prunes, faults>>

\* recordVerdict: append-only.
InsertVerdict(r) ==
    LET q == requests[r] IN
    /\ At(q, "verdict")
    /\ IF q.case \in live
          THEN /\ verdicts' = verdicts \cup
                      {[id |-> r, case |-> q.case, version |-> q.version, label |-> q.label]}
               /\ Set(r, NextSink(q))
          ELSE /\ Set(r, Failed(q))
               /\ UNCHANGED verdicts
    /\ UNCHANGED <<live, runs, judged, prunes, faults>>

-----------------------------------------------------------------------------
(* The environment. *)

\* A process dies with its request and its judgement.
Crash(r) ==
    LET q == requests[r] IN
    /\ faults < MaxFaults
    /\ q.pc \notin {"done", "failed", "dead"}
    /\ faults' = faults + 1
    /\ Set(r, [q EXCEPT !.pc = "dead", !.answer = Respond(q, "lost")])
    /\ UNCHANGED <<live, runs, verdicts, judged, prunes>>

\* Judged cases, each once however many runs it has.
JudgedCases == {x.case : x \in runs}

\* Retention deletes a case with its runs and verdicts and recounts.
Prune(c) ==
    /\ prunes < MaxPrunes
    /\ c \in live
    /\ prunes' = prunes + 1
    /\ live' = live \ {c}
    /\ runs' = {x \in runs : x.case /= c}
    /\ verdicts' = {w \in verdicts : w.case /= c}
    /\ judged' = Cardinality(JudgedCases \ {c})
    /\ UNCHANGED <<requests, faults>>

Judge(r) ==
    \/ Lookup(r) \/ Load(r) \/ Return(r) \/ SelectRun(r) \/ InsertRun(r)
    \/ Probe(r) \/ Count(r) \/ InsertVerdict(r)

Next ==
    \/ \E t \in Traces, v \in Versions, force \in BOOLEAN : Post(t, v, force)
    \/ \E r \in 1 .. Len(requests) : Judge(r) \/ Timeout(r) \/ Crash(r)
    \/ \E c \in live : Prune(c)

Spec == Init /\ [][Next]_vars

\* The evaluator answers or refuses, and statements end.
FairSpec == Spec /\ \A r \in Ids : WF_vars(r \in 1 .. Len(requests) /\ Judge(r))

-----------------------------------------------------------------------------
(* Properties. *)

\* Every variable has its type.
TypeOK ==
    /\ live \subseteq Cases
    /\ runs \subseteq [id : Ids, case : Cases, version : Versions]
    /\ verdicts \subseteq [id : Ids, case : Cases, version : Versions, label : Labels]
    /\ judged \in 0 .. MaxRequests
    /\ requests \in Seq([pc : {"lookup", "load", "calling", "sink", "insert", "probe", "count",
                               "done", "failed", "dead"},
                         case : Cases, version : Versions, force : BOOLEAN, sink : {1, 2},
                         label : Labels, first : BOOLEAN, answer : Answers])
    /\ prunes \in 0 .. MaxPrunes /\ faults \in 0 .. MaxFaults

\* A verdict in the ledger always has the judge run that the dashboard and the
\* feedback read, whatever fails between the two statements (judge.ts:166:
\* the order avoids orphaning a verdict).
VerdictHasItsRun ==
    \A w \in verdicts : \E x \in runs : x.case = w.case /\ x.version = w.version

\* A response that carries a verdict is backed by the ledger: of a judgement,
\* by its own verdict; from the cache, by one of the same trace and version.
\* Only a pruning of the case takes it away.
AnswerIsOnRecord ==
    \A r \in 1 .. Len(requests) :
        LET q == requests[r] IN
        /\ (q.answer = "judged" /\ prunes = 0) => \E w \in verdicts : w.id = r /\ w.label = q.label
        /\ (q.answer = "cached" /\ prunes = 0) =>
             \E w \in OnRecord(q.case, q.version) : w.id /= r

\* While retention deletes nothing, the coverage never exceeds the judged
\* cases: re-judging a case by another version, by force or by a retry that
\* overlaps is no new coverage (recordJudgeRun counts a first run only).
CoverageIsNotInflated == prunes = 0 => judged <= Cardinality(JudgedCases)

TimedOut(r) ==
    r \in 1 .. Len(requests) /\ requests[r].answer = "timeout" /\ requests[r].pc /= "done"
Recorded(r) == \E w \in verdicts : w.id = r
Ended(r) == r \in 1 .. Len(requests) /\ requests[r].pc \in {"failed", "dead"}

\* A judgement whose response timed out is still recorded, unless it fails, its
\* case is deleted or its process dies (the comment of POST /api/v1/judge: the
\* provider result lands in the ledger when it finishes).
LateVerdictLands ==
    \A r \in Ids :
        TimedOut(r) ~> (Recorded(r) \/ Ended(r))

\* judge.ts:167: recordJudgeRun dedups on (project, case, skillVersion).
OneRunPerCase ==
    \A x, y \in runs : x.case = y.case /\ x.version = y.version => x = y

\* judge-feedback-repository.ts:177: concurrent first runs of one case can
\* double-count, that is, the counter errs on the high side only.
JudgedIsNotUndercounted ==
    (\A r \in 1 .. Len(requests) : requests[r].pc \in {"done", "failed", "dead"})
      => judged >= Cardinality(JudgedCases)

\* v1-evaluation-administration.ts:98: a trace that is posted again without
\* force returns the verdict on record instead of appending a duplicate.
RetryIsNotJudgedAgain ==
    \A v, w \in verdicts :
        (v.case = w.case /\ v.version = w.version /\ ~requests[v.id].force /\ ~requests[w.id].force)
          => v = w
=============================================================================

---------------------------- MODULE MCVerdicts ----------------------------
(* What verdicts are made of and what is made of them: the judge service   *)
(* and the judging of imported cases, the capture of a session and its     *)
(* submission, the report over production records, the statistics of a log *)
(* of verdicts, and the two feeds over it. They share no variable, so they *)
(* are checked side by side: a behaviour follows the scenario that focus   *)
(* names and leaves the other components as they started.                  *)
EXTENDS Integers, Sequences, FiniteSets, TLC

CONSTANTS
    x1, x2,  \* workers, reviewers, versions
    c1, c2,  \* cases and traces
    v1, v2,  \* versions of a judge that are compared
    Null  \* no one

VARIABLES
    focus,  \* the scenario this behaviour follows
    \* JudgeService
    live, judgeRuns, judgeVerdicts, judgeJudged, requests, prunes, judgeFaults,
    \* ImportJudging
    imported, importsVerdicts, importsRuns, worker, jobs, importsFaults, others,
    \* ProductionCalibration
    records,
    \* VerdictStatistics
    log,
    \* VerdictFeeds
    rows, now, golden, used, client,
    \* CaptureAndSubmit
    turn, lines, flushed, hook, cursor, file, captureJudged, captureRuns, bucket,
    failures, watch

judgeVars == <<live, judgeRuns, judgeVerdicts, judgeJudged, requests, prunes, judgeFaults>>
importsVars == <<imported, importsVerdicts, importsRuns, worker, jobs, importsFaults, others>>
reportVars == <<records>>
statisticsVars == <<log>>
feedVars == <<rows, now, golden, used, client>>
captureVars == <<turn, lines, flushed, hook, cursor, file, captureJudged, captureRuns, bucket, failures, watch>>

\* ProductionCalibration: records of four decisions and of one nobody made, one
\* of them outside the window; ties, corrections, levels off the scale and a
\* replaced decision.
Decision(id, at, model, set, answers) ==
    [kind |-> "decision", id |-> id, at |-> at, model |-> model, set |-> set,
     answers |-> answers, synthetic |-> FALSE]
Outcome(id, q, at, type, is) ==
    [kind |-> "outcome", decision |-> id, question |-> q, at |-> at,
     source |-> "human", value |-> [type |-> type, is |-> is]]
Bl(p) == [type |-> "boolean", p |-> p]
Ch(c, p) == [type |-> "choice", choice |-> c, p |-> p]
Sc(d, mean) == [type |-> "score", probabilities |-> d, mean |-> mean]

D1 == Decision("d1", 3, "m1", "s1", [b |-> Bl(10), s |-> Sc(<<2, 5, 3>>, 11)])
D2 == Decision("d2", 2, "m2", "s1", [b |-> Bl(5), c |-> Ch("x", 7)])
D3 == Decision("d3", 6, "m1", "s2", [b |-> Bl(4), s |-> Sc(<<3, 0, 7>>, 14)])
D4 == Decision("d4", 9, "m1", "s1", [b |-> Bl(0)])
D5 == Decision("d5", 7, "m2", "s2", [s |-> Sc(<<5, 5>>, 5)])

RecordMenu ==
    {D1, D2, D4, D5,
     [D1 EXCEPT !.model = "m2"],
     Outcome("d1", "b", 4, "boolean", "yes"), Outcome("d1", "b", 4, "boolean", "no"),
     Outcome("d1", "b", 5, "boolean", "no"), Outcome("d1", "s", 5, "score", 2),
     Outcome("d2", "c", 4, "choice", "y"), Outcome("d2", "b", 4, "choice", "y"),
     Outcome("d3", "b", 7, "boolean", "yes"), Outcome("d3", "s", 7, "score", 3),
     Outcome("d4", "b", 9, "boolean", "no"), Outcome("d9", "b", 4, "boolean", "no")}
Ledgers ==
    {<<Outcome("d1", "b", 6, "boolean", "yes"), D3, D1>>,
     <<D3, Outcome("d3", "s", 9, "score", 0), D2>>}

\* Three decisions, two of them on one day: every choice of probabilities and
\* outcomes.
Judged(k, p, y) ==
    <<Decision(ToString(k), k \div 2, "m1", "s1", [b |-> Bl(p)])>>
        \o (IF y = "none" THEN <<>> ELSE <<Outcome(ToString(k), "b", k, "boolean", y)>>)
Judgements ==
    {Judged(1, p[1], y[1]) \o Judged(2, p[2], y[2]) \o Judged(3, p[3], y[3]) :
        p \in [1..3 -> {0, 4, 5, 6, 10}], y \in [1..3 -> {"yes", "no", "none"}]}

\* Every distribution over three levels, and what came true of it.
Distributions == {d \in [1..3 -> 0..10] : d[1] + d[2] + d[3] = 10}
Ordinals ==
    {<<Decision("d1", 1, "m1", "s1", [s |-> Sc(d, 10)]),
       Outcome("d1", "s", 2, "score", t), D3>> : d \in Distributions, t \in 0..3}

Prices == [fp |-> 2, fn |-> 3, review |-> 1]

\* VerdictStatistics: logs that grow, and tables in which every reviewer has
\* rated each of some cases, in turn.
Verdict(source, case, actor, version, label) ==
    [source |-> source, case |-> case, actor |-> actor, version |-> version, label |-> label]
Human(cs, as, ls) == {Verdict("human", c, a, v1, l) : c \in cs, a \in as, l \in ls}
Model(cs, vs, ls) == {Verdict("llm_judge", c, "judge", v, l) : c \in cs, v \in vs, l \in ls}
Ruling(cs, vs, ls) == {Verdict("adjudicated", c, "owner", v, l) : c \in cs, v \in vs, l \in ls}

LogMenu ==
    Human({c1, c2}, {x1, x2}, {"pass", "fail", "scalar"}) \cup Model({c1, c2}, {v1, v2}, {"pass", "fail"})
      \cup Ruling({c1, c2}, {v1}, {"pass", "fail"})
AuditMenu ==
    Model({c1, c2}, {v1, v2}, {"pass", "fail", "ambiguous"}) \cup Ruling({c1, c2}, {v1}, {"pass", "fail"})
Rated(t, n) ==
    [i \in 1 .. Len(t) * n |->
       LET a == ((i - 1) \div n) + 1
           c == ((i - 1) % n) + 1
       IN [source |-> "human", case |-> c, actor |-> a, version |-> v1,
           label |-> t[a][c], ms |-> i, id |-> i]]
Tables ==
    {Rated(t, 3) : t \in [1 .. 2 -> [1 .. 3 -> {"pass", "fail", "ambiguous"}]]}
      \cup {Rated(t, 2) : t \in [1 .. 3 -> [1 .. 2 -> {"pass", "fail", "scalar"}]]}

\* VerdictFeeds: what the judge and the owner may write.
Rows(kind, vs, ls) == {[kind |-> kind, case |-> c, version |-> v, label |-> l] : c \in {1, 2}, v \in vs, l \in ls}
OneCriterion == [v \in {"v1", "v2"} |-> "k"]
TwoCriteria == [v \in {"v1", "w1"} |-> IF v = "v1" THEN "k" ELSE "l"]
PagedMenu ==
    Rows("adjudicated", {"v1"}, {"pass"}) \cup Rows("llm_judge", {"v1"}, {"pass"})
      \cup Rows("llm_judge", {"v2"}, {"pass", "fail"})

-----------------------------------------------------------------------------
\* One trace is judged again and again.
Judging == INSTANCE JudgeService WITH
    Traces <- {c1}, Versions <- {v1}, Labels <- {"pass"}, MaxRequests <- 3,
    MaxPrunes <- 0, MaxFaults <- 0, runs <- judgeRuns, verdicts <- judgeVerdicts,
    judged <- judgeJudged, faults <- judgeFaults

\* Two versions judge one trace.
ByTwo == INSTANCE JudgeService WITH
    Traces <- {c1}, Versions <- {v1, v2}, Labels <- {"pass"}, MaxRequests <- 2,
    MaxPrunes <- 0, MaxFaults <- 0, runs <- judgeRuns, verdicts <- judgeVerdicts,
    judged <- judgeJudged, faults <- judgeFaults

\* Two traces are judged while retention prunes and a process dies.
Pruned == INSTANCE JudgeService WITH
    Traces <- {c1, c2}, Versions <- {v1}, Labels <- {"pass", "fail"},
    MaxRequests <- 2, MaxPrunes <- 1, MaxFaults <- 1, runs <- judgeRuns,
    verdicts <- judgeVerdicts, judged <- judgeJudged, faults <- judgeFaults

\* Import jobs and a gate job overlap on one project.
Imported == INSTANCE ImportJudging WITH
    Cases <- {c1, c2}, Workers <- {x1, x2}, Page <- 9, MaxRuns <- 4, MaxJobs <- 3,
    MaxFaults <- 1, MaxOther <- 0, verdicts <- importsVerdicts, runs <- importsRuns,
    faults <- importsFaults

\* Every choice of three probabilities and outcomes.
EveryJudgement == INSTANCE ProductionCalibration WITH
    Histories <- Judgements, Menu <- RecordMenu, MaxRecords <- 0, Scale <- 10,
    Bins <- 5, Threshold <- 5, PositiveClass <- FALSE, WindowDays <- 1,
    MinOutcomesToFlag <- 1, From <- 0, To <- 8, DayTicks <- 2, Grid <- {2, 4, 5, 8},
    Costs <- Prices

\* Every distribution over three levels.
EveryDistribution == INSTANCE ProductionCalibration WITH
    Histories <- Ordinals, Menu <- RecordMenu, MaxRecords <- 0, Scale <- 10,
    Bins <- 4, Threshold <- 5, PositiveClass <- TRUE, WindowDays <- 1,
    MinOutcomesToFlag <- 1, From <- 0, To <- 8, DayTicks <- 2, Grid <- {2, 4, 5, 8},
    Costs <- Prices

\* Records of a small menu arrive in any order.
AnyOrder == INSTANCE ProductionCalibration WITH
    Histories <- Ledgers, Menu <- RecordMenu, MaxRecords <- 5, Scale <- 10,
    Bins <- 4, Threshold <- 5, PositiveClass <- TRUE, WindowDays <- 1,
    MinOutcomesToFlag <- 1, From <- 0, To <- 8, DayTicks <- 2, Grid <- {2, 4, 5, 8},
    Costs <- Prices

\* A log of judgements by two versions, and rulings.
Audited == INSTANCE VerdictStatistics WITH
    Histories <- {<<>>}, Menu <- AuditMenu, MaxVerdicts <- 4, Cap <- 9,
    SharedMs <- FALSE

\* Every table of ratings of two or three reviewers.
Tabled == INSTANCE VerdictStatistics WITH
    Histories <- Tables, Menu <- {}, MaxVerdicts <- 0, Cap <- 20, SharedMs <- FALSE

\* A log of human verdicts, judgements and rulings.
Log == INSTANCE VerdictStatistics WITH
    Histories <- {<<>>}, Menu <- LogMenu, MaxVerdicts <- 4, Cap <- 9,
    SharedMs <- FALSE

\* A client turns the pages of the audit while rows are added and a case is
\* pruned.
Paged == INSTANCE VerdictFeeds WITH
    Cases <- {1, 2}, CriterionOf <- OneCriterion, Before <- "v1", After <- "v2",
    Menu <- PagedMenu, PageSize <- 1, Limit <- 1, MaxRows <- 5, MaxPrunes <- 1,
    MaxRetires <- 0, None <- Null

\* Runs, rulings and golden entries of two criteria.
Queue == INSTANCE VerdictFeeds WITH
    Cases <- {1, 2}, CriterionOf <- TwoCriteria, Before <- "v1", After <- "v1",
    Menu <- Rows("run", {"v1", "w1"}, {"pass", "fail"}), PageSize <- 1, Limit <- 1,
    MaxRows <- 3, MaxPrunes <- 1, MaxRetires <- 1, None <- Null

\* A session that nothing disturbs, and a run that fails.
Session == INSTANCE CaptureAndSubmit WITH
    MaxTurns <- 4, Disturbances <- {}, MaxItems <- 3, Rate <- 2, MaxFailures <- 1,
    Pause <- 0, MaxWatch <- 0, None <- Null, judged <- captureJudged,
    runs <- captureRuns

\* Late lines, turns that go on and hooks that are killed.
Disturbed == INSTANCE CaptureAndSubmit WITH
    MaxTurns <- 2, Disturbances <- {"late", "continued", "killed"}, MaxItems <- 3,
    Rate <- 3, MaxFailures <- 0, Pause <- 0, MaxWatch <- 0, None <- Null,
    judged <- captureJudged, runs <- captureRuns

\* The tokens a key spends in a stretch of time.
Quota == INSTANCE CaptureAndSubmit WITH
    MaxTurns <- 3, Disturbances <- {}, MaxItems <- 3, Rate <- 1, MaxFailures <- 0,
    Pause <- 0, MaxWatch <- 3, None <- Null, judged <- captureJudged,
    runs <- captureRuns

ASSUME ConstantsAssumption ==
    /\ Imported!PageAssumption

-----------------------------------------------------------------------------
Init ==
    /\ focus \in {"judging", "by_two", "pruned", "imported", "every_judgement",
                 "every_distribution", "any_order", "audited", "tabled", "log",
                 "paged", "queue", "session", "disturbed", "quota"}
    /\ IF focus = "judging" THEN Judging!Init
       ELSE IF focus = "by_two" THEN ByTwo!Init
       ELSE Pruned!Init
    /\ Imported!Init
    /\ IF focus = "every_judgement" THEN EveryJudgement!Init
       ELSE IF focus = "every_distribution" THEN EveryDistribution!Init
       ELSE AnyOrder!Init
    /\ focus \notin {"every_judgement", "every_distribution", "any_order"} =>
          records = <<D3, Outcome("d3", "s", 9, "score", 0), D2>>
    /\ IF focus = "audited" THEN Audited!Init
       ELSE IF focus = "tabled" THEN Tabled!Init
       ELSE Log!Init
    /\ IF focus = "paged" THEN Paged!Init
       ELSE Queue!Init
    /\ IF focus = "session" THEN Session!Init
       ELSE IF focus = "disturbed" THEN Disturbed!Init
       ELSE Quota!Init

Step ==
    \/ focus = "judging" /\ Judging!Next
    \/ focus = "by_two" /\ ByTwo!Next
    \/ focus = "pruned" /\ Pruned!Next
    \/ focus = "imported" /\ Imported!Next
    \/ focus = "every_judgement" /\ EveryJudgement!Next
    \/ focus = "every_distribution" /\ EveryDistribution!Next
    \/ focus = "any_order" /\ AnyOrder!Next
    \/ focus = "audited" /\ Audited!Next
    \/ focus = "tabled" /\ Tabled!Next
    \/ focus = "log" /\ Log!Next
    \/ focus = "paged" /\ Paged!Next
    \/ focus = "queue" /\ Queue!Next
    \/ focus = "session" /\ Session!Next
    \/ focus = "disturbed" /\ Disturbed!Next
    \/ focus = "quota" /\ Quota!Next

\* The components that the scenario does not follow stay as they are.
Others ==
    /\ UNCHANGED focus
    /\ focus \notin {"judging", "by_two", "pruned"} => UNCHANGED judgeVars
    /\ focus # "imported" => UNCHANGED importsVars
    /\ focus \notin {"every_judgement", "every_distribution", "any_order"} => UNCHANGED reportVars
    /\ focus \notin {"audited", "tabled", "log"} => UNCHANGED statisticsVars
    /\ focus \notin {"paged", "queue"} => UNCHANGED feedVars
    /\ focus \notin {"session", "disturbed", "quota"} => UNCHANGED captureVars

Next == Step /\ Others

vars == <<focus, judgeVars, importsVars, reportVars, statisticsVars, feedVars,
          captureVars>>

Spec == Init /\ [][Next]_vars

Symmetry ==
    Permutations({x1, x2}) \cup Permutations({c1, c2})

-----------------------------------------------------------------------------
\* Judging: a verdict has its run and an answer its verdict, coverage is
\* not inflated, no imported case is judged by two runs, and what a session
\* captures is each turn of the skill once, submitted within the rate.
JudgedOnceAndOnRecord ==
    /\ focus = "judging" => Judging!TypeOK /\ Judging!VerdictHasItsRun /\ Judging!CoverageIsNotInflated
    /\ focus = "by_two" => ByTwo!VerdictHasItsRun /\ ByTwo!CoverageIsNotInflated
    /\ focus = "pruned" => Pruned!VerdictHasItsRun /\ Pruned!AnswerIsOnRecord
    /\ Imported!TypeOK /\ Imported!NoSecondCall
    /\ focus = "session" => Session!TypeOK /\ Session!PairsAreOfOneTurn /\ Session!NothingIsMissed
    /\ focus = "disturbed" => Disturbed!CapturedOnce
    /\ focus = "quota" => Quota!SpendIsBounded

\* The report over production records depends on what was recorded and not
\* on its order, counts every record once, gives the cheapest advice, flags
\* only what deserves it, and is not moved by old news.
ReportIsOfTheRecords ==
    /\ [](/\ focus = "any_order" =>
              AnyOrder!TypeOK /\ AnyOrder!OrderDoesNotMatter /\ AnyOrder!EveryRecordIsCounted /\ AnyOrder!CountsAgree
          /\ focus = "every_judgement" => EveryJudgement!AdviceIsTheCheapest /\ EveryJudgement!FlagsAreDeserved
          /\ focus = "every_distribution" => EveryDistribution!ScoreCutsAgree)
    /\ [][focus = "any_order" => AnyOrder!OldNewsStep /\ AnyOrder!LaterDecisionStep]_vars

\* Statistics and feeds of verdicts: kappa is bounded and its disagreements
\* are the splits, the judge is held to its latest label, versions do not
\* mix and ratings stand, the audit adds up and its pages are one answer,
\* and a pinned exception stays pinned.
FeedsSayWhatTheLogSays ==
    /\ [](/\ focus = "log" =>
              Log!TypeOK /\ Log!SplitsAreDisagreements /\ Log!JudgeIsHeldToItsLatest /\ Log!FeedsAgree
          /\ focus = "audited" => Audited!AuditAddsUp /\ Audited!AuditIsSymmetric
          /\ focus = "tabled" => Tabled!KappaIsBounded /\ Tabled!SplitsAreDisagreements
          /\ focus = "paged" => Paged!TypeOK /\ Paged!PagesAreOneAnswer /\ Paged!NothingIsListedTwice
          /\ focus = "queue" => Queue!QueueIsTheSpec)
    /\ [][/\ focus = "log" => Log!VersionStep /\ Log!RatingStep
          /\ focus = "queue" => Queue!PinnedStep]_vars

=============================================================================

---------------------- MODULE ProductionCalibration ----------------------
(***************************************************************************)
(* The report over production decision records.  Records arrive in any     *)
(* order and more than once; the report is a pure function of the sequence *)
(* that was read.  Source: packages/shared/src/                            *)
(* production-calibration-analysis.ts.                                     *)
(*                                                                         *)
(* The arithmetic is exact: a probability is a whole number of Scale-ths,  *)
(* and a mean, a Brier score or an error is kept as the sum it is divided  *)
(* from.  The square of the normal quantile of the Wilson interval,        *)
(* 3.8415, is taken as 96/25 = 3.84.                                       *)
(***************************************************************************)
EXTENDS Integers, Sequences, FiniteSets, FiniteSetsExt

CONSTANTS
    Histories,   \* sequences of records a ledger may already hold
    Menu,        \* records that may arrive
    MaxRecords,  \* bound on a ledger
    Scale,       \* a probability of one
    Bins, Threshold, PositiveClass, WindowDays, MinOutcomesToFlag,
    From, To,    \* the window of the report, in ticks
    DayTicks,    \* ticks of a day
    Grid,        \* thresholds the advisor sweeps
    Costs        \* [fp, fn, review]

VARIABLE records
vars == <<records>>

Kind(recs, k) == {i \in DOMAIN recs : recs[i].kind = k}

---------------------------------------------------------------------------
(* The join. *)

SameRecordValue(a, b) == a = b

\* Two decisions of one id differ: no report is built.
Conflicting(recs) ==
    \E i, j \in Kind(recs, "decision") :
        recs[i].id = recs[j].id /\ ~SameRecordValue(recs[i], recs[j])

\* The first record of each decision.
Supplied(recs) ==
    {i \in Kind(recs, "decision") :
        \A j \in Kind(recs, "decision") : recs[j].id = recs[i].id => i <= j}

OutcomesOf(recs, id) == {i \in Kind(recs, "outcome") : recs[i].decision = id}
Of(recs, id, q) == {i \in OutcomesOf(recs, id) : recs[i].question = q}
Questions(recs, id) == {recs[i].question : i \in OutcomesOf(recs, id)}

\* Faulty variant: the last to arrive wins, whatever its time.
LastIn(recs, i, j) == i > j
Later(recs, i, j) ==
    \/ recs[i].at > recs[j].at
    \/ recs[i].at = recs[j].at /\ i > j

Winner(recs, id, q) ==
    CHOOSE i \in Of(recs, id, q) :
        \A j \in Of(recs, id, q) \ {i} : Later(recs, i, j)

ConflictingOf(recs, id) ==
    Cardinality({i \in OutcomesOf(recs, id) :
        LET won == recs[Winner(recs, id, recs[i].question)].value
        IN  recs[i].value.type # won.type \/ recs[i].value.is # won.is})

---------------------------------------------------------------------------
(* Shared binary machinery.  A pair is [p, y, i]; y is "none" without an   *)
(* outcome of the type of the answer, and i the record of the decision.    *)

Sum(F(_), S) == MapThenSumSet(F, S)
Scored(pairs) == {x \in pairs : x.y # "none"}
Positives(pairs) == {x \in pairs : x.y = "yes"}
One(x) == IF x.y = "yes" THEN Scale ELSE 0
Bool(b) == IF b THEN "yes" ELSE "no"
Sq(n) == n * n
Dist(n) == IF n < 0 THEN -n ELSE n
Least(a, b) == IF a < b THEN a ELSE b

\* Faulty variant: a probability of one falls past the last bin.
Uncapped(p) == (p * Bins) \div Scale
BinIndex(p) == Least(Bins - 1, (p * Bins) \div Scale)

SumP(pairs) == Sum(LAMBDA x : x.p, pairs)
\* The sum of squares, over the square of Scale.
SquaredError(pairs) == Sum(LAMBDA x : Sq(x.p - One(x)), Scored(pairs))

BinaryStats(pairs) ==
    LET slot(b) == {x \in Scored(pairs) : BinIndex(x.p) = b}
    IN  [n |-> Cardinality(pairs), nWithOutcome |-> Cardinality(Scored(pairs)),
         brier |-> SquaredError(pairs),
         reliability |-> [b \in 0..Bins - 1 |->
             [count |-> Cardinality(slot(b)), sumP |-> SumP(slot(b)),
              positives |-> Cardinality(Positives(slot(b)))]],
         \* weighted by the count: over Scale times nWithOutcome
         ece |-> Sum(LAMBDA b : Dist(Scale * Cardinality(Positives(slot(b))) - SumP(slot(b))),
                     0..Bins - 1)]

Predicted(p, t) == p >= t

Confusion(pairs, t) ==
    LET cell(yes, y) == Cardinality({x \in pairs : Predicted(x.p, t) = yes /\ x.y = y})
    IN  [tp |-> cell(TRUE, "yes"), fp |-> cell(TRUE, "no"),
         tn |-> cell(FALSE, "no"), fn |-> cell(FALSE, "yes")]

\* The answers to q of one type, with the outcome that won.
Answered(recs, covered, q, type) ==
    {i \in covered : q \in DOMAIN recs[i].answers /\ recs[i].answers[q].type = type}
Truth(recs, i, q, type) ==
    LET none == IF type = "score" THEN -1 ELSE "none"
    IN  IF Of(recs, recs[i].id, q) = {} THEN none
        ELSE LET v == recs[Winner(recs, recs[i].id, q)].value
             IN  IF v.type = type THEN v.is ELSE none

BooleanPairs(recs, covered, q, positive) ==
    {[p |-> IF positive THEN recs[i].answers[q].p ELSE Scale - recs[i].answers[q].p,
      y |-> LET t == Truth(recs, i, q, "boolean")
            IN  IF t = "none" THEN "none" ELSE Bool(t = Bool(positive)),
      i |-> i] : i \in Answered(recs, covered, q, "boolean")}

ModelGroups(recs, pairs) ==
    [m \in {recs[x.i].model : x \in pairs} |-> {x \in pairs : recs[x.i].model = m}]
DigestGroups(recs, pairs) ==
    [s \in {recs[x.i].set : x \in pairs} |-> {x \in pairs : recs[x.i].set = s}]

BooleanCalibration(recs, covered, q, positive) ==
    LET pairs == BooleanPairs(recs, covered, q, positive)
        models == ModelGroups(recs, pairs)
        digests == DigestGroups(recs, pairs)
    IN  [stats |-> BinaryStats(pairs), confusion |-> Confusion(pairs, Threshold),
         byModel |-> [m \in DOMAIN models |-> BinaryStats(models[m])],
         byDigest |-> [s \in DOMAIN digests |-> BinaryStats(digests[s])]]

ChoiceCalibration(recs, covered, q) ==
    LET truth(i) == Truth(recs, i, q, "choice")
        pairs == {[p |-> recs[i].answers[q].p,
                   y |-> IF truth(i) = "none" THEN "none"
                         ELSE Bool(truth(i) = recs[i].answers[q].choice),
                   i |-> i] : i \in Answered(recs, covered, q, "choice")}
        key(x) == <<truth(x.i), recs[x.i].answers[q].choice>>
        models == ModelGroups(recs, pairs)
    IN  [stats |-> BinaryStats(pairs), correct |-> Cardinality(Positives(pairs)),
         confusion |-> [c \in {key(x) : x \in Scored(pairs)} |->
             Cardinality({x \in Scored(pairs) : key(x) = c})],
         byModel |-> [m \in DOMAIN models |-> BinaryStats(models[m])]]

---------------------------------------------------------------------------
(* Score answers: a distribution over levels 0 .. n - 1 and a stated mean  *)
(* in Scale-ths of a level.                                                *)

Total(d) == Sum(LAMBDA k : d[k], DOMAIN d)

ValidScore(a) ==
    /\ Len(a.probabilities) \in 2..10
    /\ \A k \in DOMAIN a.probabilities : a.probabilities[k] \in 0..Scale
    /\ Total(a.probabilities) = Scale
    /\ a.mean \in 0..(Len(a.probabilities) - 1) * Scale

\* The most likely level; ties resolve to the lowest.
MostLikely(d) ==
    Min({k \in DOMAIN d : \A j \in DOMAIN d : d[j] <= d[k]}) - 1

\* Faulty variant: the tail of a cut starts above the level.
Above(d, k) == Sum(LAMBDA j : IF j > k + 1 THEN d[j] ELSE 0, DOMAIN d)
AtLeast(d, k) == Sum(LAMBDA j : IF j > k THEN d[j] ELSE 0, DOMAIN d)

InRange(t, levels) == t \in 0..levels - 1

ScorePrediction(recs, i, q) ==
    LET a == recs[i].answers[q]
        levels == Len(a.probabilities)
        t == Truth(recs, i, q, "score")
    IN  [levels |-> levels, mean |-> a.mean, predicted |-> MostLikely(a.probabilities),
         confidence |-> a.probabilities[MostLikely(a.probabilities) + 1],
         atLeast |-> [k \in 1..levels - 1 |-> AtLeast(a.probabilities, k)],
         truth |-> IF InRange(t, levels) THEN t ELSE -1, i |-> i]

Judged(predictions) == {x \in predictions : x.truth # -1}

CutPairs(predictions, k) ==
    {[p |-> x.atLeast[k],
      y |-> IF x.truth = -1 THEN "none" ELSE Bool(x.truth >= k), i |-> x.i] :
        x \in predictions}

RankedProbability(x) ==
    Sum(LAMBDA k : Sq(x.atLeast[k] - IF x.truth >= k THEN Scale ELSE 0), DOMAIN x.atLeast)

ScoreSummary(predictions) ==
    LET judged == Judged(predictions)
    IN  [nWithOutcome |-> Cardinality(judged),
         exact |-> Cardinality({x \in judged : x.predicted = x.truth}),
         withinOne |-> Cardinality({x \in judged : Dist(x.predicted - x.truth) <= 1}),
         absolute |-> Sum(LAMBDA x : Dist(x.mean - Scale * x.truth), judged),
         signed |-> Sum(LAMBDA x : x.mean - Scale * x.truth, judged),
         \* over the square of Scale and, when the levels agree, over the cuts
         ranked |-> Sum(RankedProbability, judged)]

ScoreCalibration(recs, covered, q) ==
    LET answers == Answered(recs, covered, q, "score")
        valid == {i \in answers : ValidScore(recs[i].answers[q])}
        predictions == {ScorePrediction(recs, i, q) : i \in valid}
        all == {x.levels : x \in predictions}
        confident == {[p |-> x.confidence, i |-> x.i,
                       y |-> IF x.truth = -1 THEN "none" ELSE Bool(x.truth = x.predicted)] :
                         x \in predictions}
        outside == {i \in valid : Truth(recs, i, q, "score") # -1
                        /\ ~InRange(Truth(recs, i, q, "score"), Len(recs[i].answers[q].probabilities))}
        models == ModelGroups(recs, predictions)
        base == [n |-> Cardinality(predictions), invalidAnswer |-> Cardinality(answers \ valid),
                 outcomeOutOfRange |-> Cardinality(outside),
                 nWithOutcome |-> Cardinality(Judged(predictions)),
                 levelCounts |-> [l \in all |-> Cardinality({x \in predictions : x.levels = l})]]
    IN  IF Cardinality(all) # 1 THEN [base |-> base, state |-> "undefined"]
        ELSE [base |-> base, state |-> "defined", summary |-> ScoreSummary(predictions),
              reliability |-> BinaryStats(confident),
              cumulative |-> [k \in 1..(CHOOSE l \in all : TRUE) - 1 |->
                  BinaryStats(CutPairs(predictions, k))],
              confusion |-> [c \in {<<x.truth, x.predicted>> : x \in Judged(predictions)} |->
                  Cardinality({x \in predictions : <<x.truth, x.predicted>> = c})],
              byModel |-> [m \in DOMAIN models |-> ScoreSummary(models[m])]]

---------------------------------------------------------------------------
(* The threshold advisor.  A single threshold is a band without a middle.  *)

\* Faulty variant: the answers at the lower end of every band are negatives,
\* of a band without a middle too.
AlwaysAtOrBelow(p, low, high) == p <= low
DecidedNo(p, low, high) == IF low = high THEN p < high ELSE p <= low

Row(scored, low, high) ==
    LET fp == Cardinality({x \in scored : x.p >= high /\ x.y = "no"})
        fn == Cardinality({x \in scored : DecidedNo(x.p, low, high) /\ x.y = "yes"})
        humans == IF low = high THEN 0
                  ELSE Cardinality({x \in scored : x.p > low /\ x.p < high})
    IN  [low |-> low, high |-> high, fp |-> fp, fn |-> fn, humans |-> humans,
         automated |-> Cardinality(scored) - humans,
         cost |-> fp * Costs.fp + fn * Costs.fn + humans * Costs.review]

Bands == {b \in Grid \X Grid : b[1] <= b[2]}

\* The sweep goes by the lower end, then by the higher.
Better(a, b) ==
    \/ a.cost < b.cost
    \/ a.cost = b.cost /\ a.automated > b.automated
    \/ /\ a.cost = b.cost /\ a.automated = b.automated
       /\ (a.low < b.low \/ (a.low = b.low /\ a.high < b.high))

Best(rows) == CHOOSE r \in rows : \A s \in rows \ {r} : Better(r, s)

Advise(recs, covered, q, review) ==
    LET scored == Scored(BooleanPairs(recs, covered, q, PositiveClass))
        rows == IF review THEN {Row(scored, b[1], b[2]) : b \in Bands}
                ELSE {Row(scored, t, t) : t \in Grid}
    IN  [caveat |-> IF scored = {} THEN "no_outcomes"
                    ELSE IF Cardinality(scored) < 30 THEN "fewer_than_30_outcomes" ELSE "none",
         recommendation |-> IF scored = {} THEN "none" ELSE Best(rows),
         sweep |-> rows]

---------------------------------------------------------------------------
(* Drift by time window. *)

\* The mean of k positives of n is left of or right of the interval: both
\* sides are multiplied by 25 * n * Scale, the root squared away.
Outside(sumP, k, n) ==
    LET centre == 25 * n * Scale * k + 48 * n * Scale
        gap == centre - sumP * (25 * n + 96)
        margin == 96 * Sq(Scale) * n * (25 * k * (n - k) + 24 * n)
    IN  /\ Sq(gap) > margin
        /\ ~(k = 0 /\ gap > 0)
        /\ ~(k = n /\ gap < 0)

\* Faulty variant: the first window begins with the earliest decision itself.
FirstDecision(times) == Min(times)
Origin(times) == (Min(times) \div DayTicks) * DayTicks

\* Faulty variant: decisions without an outcome weigh on the mean prediction.
All(pairs) == pairs
OnlyScored(pairs) == Scored(pairs)

DriftByWindow(recs, covered, q) ==
    LET pairs == BooleanPairs(recs, covered, q, PositiveClass)
        origin == Origin({recs[x.i].at : x \in pairs})
        span == WindowDays * DayTicks
        index(x) == (recs[x.i].at - origin) \div span
        indices == {index(x) : x \in pairs}
        group(w) == {x \in pairs : index(x) = w}
        models(w) == {recs[x.i].model : x \in group(w)}
        changed(w) == LET before == {v \in indices : v < w}
                      IN  before # {} /\ ~(models(w) \subseteq models(Max(before)))
        window(w) ==
            LET scored == Scored(group(w))
                n == Cardinality(scored)
                k == Cardinality(Positives(scored))
            IN  [start |-> origin + w * span, n |-> Cardinality(group(w)), nWithOutcome |-> n,
                 sumP |-> SumP(OnlyScored(group(w))), positives |-> k, brier |-> SquaredError(scored),
                 models |-> models(w), modelChanged |-> changed(w),
                 driftFlag |-> n >= MinOutcomesToFlag /\ n > 0
                                 /\ Outside(SumP(OnlyScored(group(w))), k, n)]
    IN  IF pairs = {} THEN {} ELSE {window(w) : w \in indices}

---------------------------------------------------------------------------
(* The report. *)

Contains(at) == From <= at /\ at < To
Covered(recs) == {i \in Supplied(recs) : Contains(recs[i].at)}
Ids(recs, S) == {recs[i].id : i \in S}

Superseded(recs, id) == Cardinality(OutcomesOf(recs, id)) - Cardinality(Questions(recs, id))
\* Faulty variant: outcomes of decisions outside the window are orphans too.
EverythingElse(recs) ==
    {i \in Kind(recs, "outcome") : recs[i].decision \notin Ids(recs, Covered(recs))}
Orphans(recs) ==
    {i \in Kind(recs, "outcome") : recs[i].decision \notin Ids(recs, Supplied(recs))}
OutsideWindow(recs) ==
    {i \in Kind(recs, "outcome") :
        recs[i].decision \in Ids(recs, Supplied(recs)) \ Ids(recs, Covered(recs))}

RecordCounts(recs) ==
    LET covered == Covered(recs)
        outside == OutsideWindow(recs)
        ids == Ids(recs, covered)
    IN  [total |-> Cardinality(Supplied(recs)),
         outsideWindow |-> Cardinality(Supplied(recs) \ covered),
         synthetic |-> Cardinality({i \in covered : recs[i].synthetic}),
         first |-> IF covered = {} THEN -1 ELSE Min({recs[i].at : i \in covered}),
         last |-> IF covered = {} THEN -1 ELSE Max({recs[i].at : i \in covered}),
         models |-> [m \in {recs[i].model : i \in covered} |->
             Cardinality({i \in covered : recs[i].model = m})],
         sets |-> [s \in {recs[i].set : i \in covered} |->
             Cardinality({i \in covered : recs[i].set = s})],
         outcomes |-> Cardinality(Kind(recs, "outcome")),
         orphan |-> Cardinality(Orphans(recs)), outcomesOutside |-> Cardinality(outside),
         sources |-> [s \in {recs[i].source : i \in Kind(recs, "outcome") \ outside} |->
             Cardinality({i \in Kind(recs, "outcome") \ outside : recs[i].source = s})],
         superseded |-> Sum(LAMBDA d : Superseded(recs, d), ids),
         conflicting |-> Sum(LAMBDA d : ConflictingOf(recs, d), ids)]

QuestionTypes(recs, covered) ==
    {<<q, recs[i].answers[q].type>> : <<i, q>> \in
        {iq \in covered \X UNION {DOMAIN recs[i].answers : i \in covered} :
            iq[2] \in DOMAIN recs[iq[1]].answers}}

Calibration(recs, covered, q, type) ==
    CASE type = "boolean" ->
            [calibration |-> BooleanCalibration(recs, covered, q, PositiveClass),
             single |-> Advise(recs, covered, q, FALSE),
             band |-> Advise(recs, covered, q, TRUE),
             drift |-> DriftByWindow(recs, covered, q)]
      [] type = "choice" -> [calibration |-> ChoiceCalibration(recs, covered, q)]
      [] type = "score" -> [calibration |-> ScoreCalibration(recs, covered, q)]

Report(recs) ==
    IF Conflicting(recs) THEN [state |-> "conflict"]
    ELSE LET covered == Covered(recs)
         IN  [state |-> "built", counts |-> RecordCounts(recs),
              questions |-> [qt \in QuestionTypes(recs, covered) |->
                  Calibration(recs, covered, qt[1], qt[2])]]

---------------------------------------------------------------------------
Init == records \in Histories

Arrive(r) ==
    /\ Len(records) < MaxRecords
    /\ records' = Append(records, r)

Next == \E r \in Menu : Arrive(r)
Spec == Init /\ [][Next]_vars

---------------------------------------------------------------------------
(* Properties. *)

Built == ~Conflicting(records)
Asked(type) == {qt[1] : qt \in {x \in QuestionTypes(records, Covered(records)) : x[2] = type}}
Booleans(q, positive) == BooleanPairs(records, Covered(records), q, positive)

\* Every probability has a bin, and a ledger holds records of the three kinds
\* the parser accepts.
TypeOK ==
    /\ \A i \in DOMAIN records : records[i].kind \in {"decision", "outcome"}
    /\ \A p \in 0..Scale : BinIndex(p) \in 0..Bins - 1

Tied(a, b) ==
    /\ a.kind = "outcome" /\ b.kind = "outcome"
    /\ a.decision = b.decision /\ a.question = b.question /\ a.at = b.at

Swapped(recs, i) == [recs EXCEPT ![i] = recs[i + 1], ![i + 1] = recs[i]]

\* The report depends on what was recorded, not on the order in which it was
\* read: outcomes before their decisions, an old outcome after a newer one.
\* Only outcomes of one question with one time are decided by their order.
OrderDoesNotMatter ==
    \A i \in 1..Len(records) - 1 :
        ~Tied(records[i], records[i + 1])
            => Report(Swapped(records, i)) = Report(records)

\* Every outcome that was read is accounted for once: it is the latest of a
\* question of a covered decision, superseded, outside the window or an
\* orphan; the sources leave out only the ones outside the window.
EveryRecordIsCounted ==
    Built =>
        LET ids == Ids(records, Covered(records))
            winners == {i \in Kind(records, "outcome") :
                /\ records[i].decision \in ids
                /\ i = Winner(records, records[i].decision, records[i].question)}
        IN  \A c \in {RecordCounts(records)} :
                /\ c.outcomes = Cardinality(winners) + c.superseded + c.outcomesOutside + c.orphan
                /\ Sum(LAMBDA s : c.sources[s], DOMAIN c.sources) = c.outcomes - c.outcomesOutside
                /\ c.conflicting <= c.superseded

Older(r) ==
    \E i \in Of(records, r.decision, r.question) : records[i].at > r.at

\* A record delivered again, and an outcome older than one that is known,
\* change no calibration, no advice and no window.
OldNewsStep ==
    \A r \in Menu :
     /\ records' = Append(records, r)
     /\ Built
     /\ IF r.kind = "outcome" THEN Older(r) ELSE \E i \in DOMAIN records : records[i] = r
     => Report(records').questions = Report(records).questions
OldNewsChangesNothing == [][OldNewsStep]_vars

\* The tables of one report agree: the bins, the confusion matrix, the models
\* and the question sets count the same decisions, and which answer is called
\* positive does not change the error.
CountsAgree ==
    Built =>
        \A q \in Asked("boolean") :
          \A c \in {BooleanCalibration(records, Covered(records), q, PositiveClass)} :
            LET over(g) == Sum(LAMBDA k : g[k].nWithOutcome, DOMAIN g)
                errors(g) == Sum(LAMBDA k : g[k].brier, DOMAIN g)
                n == c.stats.nWithOutcome
            IN  /\ Sum(LAMBDA b : c.stats.reliability[b].count, 0..Bins - 1) = n
                /\ c.confusion.tp + c.confusion.fp + c.confusion.tn + c.confusion.fn = n
                /\ over(c.byModel) = n /\ over(c.byDigest) = n
                /\ errors(c.byModel) = c.stats.brier /\ errors(c.byDigest) = c.stats.brier
                /\ SquaredError(Booleans(q, ~PositiveClass)) = c.stats.brier
                \* the mean of squares is no less than the square of a mean
                /\ Sq(c.stats.ece) <= n * c.stats.brier

CostOf(x, low, high) ==
    IF x.p >= high THEN (IF x.y = "no" THEN Costs.fp ELSE 0)
    ELSE IF low = high \/ x.p <= low THEN (IF x.y = "yes" THEN Costs.fn ELSE 0)
    ELSE Costs.review

\* The advice is the cheapest way to decide the judged decisions, each decided
\* once: by the model on one side of the band or by a person inside it.  A
\* person never makes the cheapest way dearer, and ties go to automation.
AdviceIsTheCheapest ==
    Built =>
        \A q \in Asked("boolean") :
            LET scored == Scored(Booleans(q, PositiveClass))
                price(b) == Sum(LAMBDA x : CostOf(x, b[1], b[2]), scored)
            IN  scored # {} =>
              \A band \in {Advise(records, Covered(records), q, TRUE).recommendation},
                 single \in {Advise(records, Covered(records), q, FALSE).recommendation} :
                /\ band.cost = price(<<band.low, band.high>>)
                /\ \A b \in Bands :
                    /\ band.cost <= price(b)
                    /\ price(b) = band.cost
                        => Cardinality({x \in scored : b[1] < x.p /\ x.p < b[2]}) >= band.humans
                /\ \A t \in Grid : single.cost <= price(<<t, t>>)
                /\ single.humans = 0 /\ band.fp + band.fn <= band.automated

\* The cuts of a score question speak of one distribution: their tails add up
\* to its mean, and their Brier scores to the ranked probability score.
ScoreCutsAgree ==
    Built =>
        \A q \in Asked("score") :
            LET answers == {i \in Answered(records, Covered(records), q, "score") :
                               ValidScore(records[i].answers[q])}
                d(i) == records[i].answers[q].probabilities
            IN  /\ \A i \in answers :
                    Sum(LAMBDA k : AtLeast(d(i), k), 1..Len(d(i)) - 1)
                        = Sum(LAMBDA k : (k - 1) * d(i)[k], DOMAIN d(i))
                /\ \A s \in {ScoreCalibration(records, Covered(records), q)} : s.state = "defined" =>
                    /\ Sum(LAMBDA k : s.cumulative[k].brier, DOMAIN s.cumulative) = s.summary.ranked
                    /\ Dist(s.summary.signed) <= s.summary.absolute
                    /\ s.summary.exact <= s.summary.withinOne

DriftOf(recs, q) == DriftByWindow(recs, Covered(recs), q)

\* A decision that is recorded late but was made no earlier than the day of
\* the first one leaves the windows it is not in where they are and as they are.
LaterDecisionStep ==
    \A r \in Menu :
     /\ records' = Append(records, r) /\ r.kind = "decision"
     /\ Built /\ ~Conflicting(records')
     => \A q \in Asked("boolean") :
         (\A x \in Booleans(q, PositiveClass) :
             r.at \div DayTicks >= records[x.i].at \div DayTicks
                 \/ \E z \in Booleans(q, PositiveClass) :
                     r.at \div DayTicks >= records[z.i].at \div DayTicks)
         => \A w \in DriftOf(records, q) :
             (r.at < w.start \/ r.at >= w.start + WindowDays * DayTicks) =>
                 \E v \in DriftOf(records', q) :
                     [v EXCEPT !.modelChanged = w.modelChanged] = w
LaterDecisionsMoveNoWindow == [][LaterDecisionStep]_vars

\* A window is not flagged when its predictions come true as often as they
\* said, and it is when they were certain and every one of them was wrong.
FlagsAreDeserved ==
    Built =>
        \A q \in Asked("boolean") : \A w \in DriftOf(records, q) :
            LET scored == {x \in Scored(Booleans(q, PositiveClass)) :
                    w.start <= records[x.i].at /\ records[x.i].at < w.start + WindowDays * DayTicks}
            IN  /\ SumP(scored) = Scale * Cardinality(Positives(scored)) => ~w.driftFlag
                /\ /\ \A x \in scored : Dist(x.p - One(x)) = Scale
                   /\ Cardinality(scored) >= MinOutcomesToFlag
                   /\ (Positives(scored) \in {{}, scored})
                   => w.driftFlag
===========================================================================

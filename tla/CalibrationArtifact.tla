----------------------- MODULE CalibrationArtifact -----------------------
(***************************************************************************)
(* What a sealed calibration run publishes.  The worker accounts for each  *)
(* attempt with what its provider call gave; when none is pending the      *)
(* repository counts the attempts into an artifact, verifies it, and       *)
(* verifies it again against the private ledger.  A refusal rolls back the *)
(* mint, and the run, whose attempts are spent, can never end.             *)
(*                                                                         *)
(* Claims, leases and retries are those of BinaryCalibration; here one     *)
(* worker acts and may die.  Digests are the values they digest; intervals *)
(* are the fractions they belong to.                                       *)
(* Source: apps/api/src/binary-calibration/{provider,worker,repository.pg, *)
(* repository.pg-support}.ts, apps/api/src/lib/binary-calibration-v2.ts.   *)
(***************************************************************************)
EXTENDS Integers, FiniteSets, FiniteSetsExt, Functions

CONSTANTS Items, Providers, Kinds, Failures, None

NoneAssumption == None \notin Failures \cup {"m", "f", "u"}

VARIABLES
    plan,      \* the pinned run: provider, kind of evaluator, positive class
    truth,     \* the labels of the sealed items
    att,       \* binary_calibration_attempts
    exposed,   \* what the completion check finds
    state      \* "running", "minted" or "refused"
vars == <<plan, truth, att, exposed, state>>

Labels == {"pass", "fail"}
Observations == [model : {None, "m"}, fingerprint : {None, "f"}, upstream : {None, "u"}]
Nothing == [model |-> None, fingerprint |-> None, upstream |-> None]

Outcome(o) == [state |-> "outcome", outcome |-> o]
Failed(k) == [state |-> "failure", outcome |-> k]
Pending == [state |-> "pending", outcome |-> None]

Plans == [provider : Providers, kind : Kinds, positive : Labels]
Fresh == [attempt |-> "not_started", calls |-> 0, result |-> Pending, seen |-> Nothing]

Init ==
    /\ plan \in Plans
    /\ truth \in [Items -> Labels]
    /\ att = [i \in Items |-> Fresh]
    /\ exposed \in BOOLEAN
    /\ state = "running"

---------------------------------------------------------------------------
(* One attempt. *)

\* Faulty variant: what the provider reported is kept as it came.
AsReported(o) == o
Kept(o) ==
    [model |-> o.model,
     fingerprint |-> IF o.model = None THEN None ELSE o.fingerprint,
     upstream |-> IF plan.provider = "openrouter" THEN o.upstream ELSE None]

Judgement(o) ==
    IF o = "abstain" /\ plan.kind = "typed-question" THEN Failed("invalid_evaluator_output")
    ELSE Outcome(o)

\* The checks of the table on an accounted row.
RowHolds(a) ==
    /\ a.result.state = "outcome" => a.attempt = "terminal" /\ a.calls >= 1
    /\ a.result.state = "failure" =>
        IF a.result.outcome = "outcome_unknown" THEN a.attempt = "started" /\ a.calls >= 1
        ELSE a.attempt = "terminal"
    /\ a.calls > 0 \/ a.seen = Nothing
    /\ a.seen.fingerprint # None => a.seen.model # None
    /\ a.attempt = "not_started" => a.calls = 0 /\ a.seen = Nothing

Account(i, result, seen) ==
    LET row == [att[i] EXCEPT !.attempt = "terminal", !.result = result, !.seen = seen]
    IN  /\ state = "running" /\ RowHolds(row)
        /\ att' = [att EXCEPT ![i] = row]
        /\ UNCHANGED <<plan, truth, exposed, state>>

IsPending(i, stage) == att[i].result = Pending /\ att[i].attempt = stage

\* A credential or a payload that cannot be used: nothing leaves.
RefuseBeforeTheCall(i) ==
    /\ IsPending(i, "not_started")
    /\ \E k \in Failures : Account(i, Failed(k), Nothing)

RecordProviderCallStarted(i) ==
    /\ IsPending(i, "not_started") /\ state = "running"
    /\ ~\E j \in Items : IsPending(j, "started")
    /\ att' = [att EXCEPT ![i].attempt = "started", ![i].calls = @ + 1]
    /\ UNCHANGED <<plan, truth, exposed, state>>

Answered(i) ==
    /\ IsPending(i, "started")
    /\ \E o \in Labels \cup {"abstain"}, seen \in Observations :
        LET judged == Judgement(o)
        IN  Account(i, judged, Kept(IF judged.state = "failure" THEN Nothing ELSE seen))

\* A call fails with what the provider had reported until then.
CallFailed(i) ==
    /\ IsPending(i, "started")
    /\ \E k \in Failures, seen \in Observations : Account(i, Failed(k), Kept(seen))

\* The worker died during a call; the next claim accounts for it.
Recover(i) ==
    LET row == [att[i] EXCEPT !.result = Failed("outcome_unknown")]
    IN  /\ IsPending(i, "started") /\ RowHolds(row) /\ state = "running"
        /\ att' = [att EXCEPT ![i] = row]
        /\ UNCHANGED <<plan, truth, exposed, state>>

---------------------------------------------------------------------------
(* Counting. *)

Bucket(r) ==
    CASE r.state = "failure" -> "errored"
      [] r.state = "outcome" /\ r.outcome = "abstain" -> "abstained"
      [] OTHER -> "classified"
Buckets == {"classified", "abstained", "errored"}

Strength(o) ==
    IF o.fingerprint # None THEN "observed_fingerprint"
    ELSE IF o.model # None THEN "observed_model" ELSE "requested_only"

Count(P(_)) == Cardinality({i \in Items : P(i)})

CallsOf(rows) == MapThenSumSet(LAMBDA i : rows[i].calls, Items)

AggregateTrial(rows) ==
    [outcomes |-> [planned |-> Cardinality(Items), providerCalls |-> CallsOf(rows),
        total |-> [b \in Buckets |-> Count(LAMBDA i : Bucket(rows[i].result) = b)],
        byTruth |-> [t \in Labels |-> [b \in Buckets |->
            Count(LAMBDA i : truth[i] = t /\ Bucket(rows[i].result) = b)]],
        errors |-> [k \in {rows[i].result.outcome : i \in {j \in Items : rows[j].result.state = "failure"}}
            |-> Count(LAMBDA i : rows[i].result = Failed(k))]],
     matrix |-> [t \in Labels |-> [o \in Labels |->
         Count(LAMBDA i : truth[i] = t /\ rows[i].result = Outcome(o))]],
     groups |-> [o \in {rows[i].seen : i \in Items} |->
         [strength |-> Strength(o), count |-> Count(LAMBDA i : rows[i].seen = o)]]]

Sum(f) == MapThenSumSet(LAMBDA k : f[k], DOMAIN f)
Other(l) == IF l = "pass" THEN "fail" ELSE "pass"

Rate(n, d) == <<n, d>>
Oriented(m) ==
    LET p == plan.positive
    IN  [tp |-> m[p][p], fp |-> m[Other(p)][p], fn |-> m[p][Other(p)]]

MetricsFor(m, outcomes, support) ==
    LET c == Oriented(m)
    IN  [accuracy |-> Rate(m["pass"]["pass"] + m["fail"]["fail"], Sum(m["pass"]) + Sum(m["fail"])),
         recall |-> [t \in Labels |-> Rate(m[t][t], Sum(m[t]))],
         precision |-> Rate(c.tp, c.tp + c.fp), positiveRecall |-> Rate(c.tp, c.tp + c.fn),
         f1 |-> IF support[plan.positive] = 0 THEN <<"no_positive_truth_support">>
                ELSE Rate(2 * c.tp, 2 * c.tp + c.fp + c.fn),
         coverage |-> [t \in Labels |-> Rate(outcomes.byTruth[t]["classified"], support[t])]]

MeasurementComplete(outcomes) ==
    /\ outcomes.total["classified"] + outcomes.total["abstained"] = outcomes.planned
    /\ outcomes.total["errored"] = 0

IncompleteReasons(trial) ==
    (IF MeasurementComplete(trial.outcomes) THEN {} ELSE {"trial_incomplete"})
        \cup (IF exposed THEN {"completion_exposure_exposed", "completion_exposure_ineligible"} ELSE {})

Support == [t \in Labels |-> Count(LAMBDA i : truth[i] = t)]

\* The artifact over a counted trial and the ledger it commits to.
Build(trial, ledger) ==
    [trial |-> trial, support |-> Support, commitment |-> ledger,
     metrics |-> MetricsFor(trial.matrix, trial.outcomes, Support),
     falsePass |-> trial.matrix["fail"]["pass"], falseFail |-> trial.matrix["pass"]["fail"],
     reasons |-> IncompleteReasons(trial),
     status |-> IF IncompleteReasons(trial) = {} THEN "complete" ELSE "incomplete"]

---------------------------------------------------------------------------
(* Verifying. *)

VerifyTruthOutcomeConservation(a, t) ==
    /\ Sum(a.trial.outcomes.byTruth[t]) = a.support[t]
    /\ a.trial.outcomes.byTruth[t]["classified"] = Sum(a.trial.matrix[t])

VerifyErrors(a) ==
    Sum(a.trial.outcomes.errors) = a.trial.outcomes.total["errored"]

UnknownOutcomes(outcomes) ==
    IF "outcome_unknown" \in DOMAIN outcomes.errors THEN outcomes.errors["outcome_unknown"] ELSE 0

VerifyProviderIdentityGroups(a) ==
    /\ \A o \in DOMAIN a.trial.groups :
        /\ o.upstream # None => plan.provider = "openrouter"
        /\ o.fingerprint # None => o.model # None
        /\ a.trial.groups[o].strength = Strength(o)
    /\ MapThenSumSet(LAMBDA o : a.trial.groups[o].count, DOMAIN a.trial.groups)
        = a.trial.outcomes.planned

VerifyTrial(a) ==
    LET outcomes == a.trial.outcomes
    IN  /\ plan.kind = "typed-question" => outcomes.total["abstained"] = 0
        /\ outcomes.planned = Sum(a.support)
        /\ Sum(outcomes.total) = outcomes.planned
        /\ \A t \in Labels : VerifyTruthOutcomeConservation(a, t)
        /\ \A b \in Buckets : outcomes.total[b] = outcomes.byTruth["pass"][b] + outcomes.byTruth["fail"][b]
        /\ Sum(a.trial.matrix["pass"]) + Sum(a.trial.matrix["fail"]) = outcomes.total["classified"]
        /\ a.falsePass = a.trial.matrix["fail"]["pass"] /\ a.falseFail = a.trial.matrix["pass"]["fail"]
        /\ VerifyErrors(a)
        /\ outcomes.providerCalls >=
            outcomes.total["classified"] + outcomes.total["abstained"] + UnknownOutcomes(outcomes)
        /\ VerifyProviderIdentityGroups(a)
        /\ a.metrics = MetricsFor(a.trial.matrix, outcomes, a.support)

VerifyArtifact(a) ==
    /\ VerifyTrial(a)
    /\ a.reasons = IncompleteReasons(a.trial)
    /\ a.status = (IF a.reasons = {} THEN "complete" ELSE "incomplete")

VerifyPrivateLedgerRecord(r) ==
    /\ r.seen.fingerprint # None => r.seen.model # None
    /\ r.seen.upstream # None => plan.provider = "openrouter"
    /\ r.seen # Nothing => r.calls >= 1
    /\ IF r.result.state = "failure"
       THEN /\ r.attempt = (IF r.result.outcome = "outcome_unknown" THEN "started" ELSE "terminal")
            /\ r.result.outcome = "outcome_unknown" => r.calls >= 1
       ELSE r.attempt = "terminal" /\ r.calls >= 1

VerifyPrivateLedger(ledger) == \A i \in Items : VerifyPrivateLedgerRecord(ledger[i])

\* Faulty variant: the confusion matrix is not counted again.
SameOutcomes(counted, trial) == counted.outcomes = trial.outcomes /\ counted.groups = trial.groups
SameTrial(counted, trial) ==
    /\ counted.outcomes = trial.outcomes
    /\ counted.matrix = trial.matrix
    /\ counted.groups = trial.groups

VerifyForArtifact(ledger, a) ==
    /\ VerifyPrivateLedger(ledger) /\ VerifyArtifact(a)
    /\ a.commitment = ledger
    /\ SameTrial(AggregateTrial(ledger), a.trial)

\* What is minted from the attempts.
Artifact == Build(AggregateTrial(att), att)
AllAccounted == \A i \in Items : att[i].result # Pending

FinalizeRun ==
    /\ state = "running" /\ AllAccounted
    /\ state' = IF VerifyArtifact(Artifact) /\ VerifyForArtifact(att, Artifact)
                THEN "minted" ELSE "refused"
    /\ UNCHANGED <<plan, truth, att, exposed>>

Next ==
    \/ \E i \in Items :
        \/ RefuseBeforeTheCall(i) \/ RecordProviderCallStarted(i)
        \/ Answered(i) \/ CallFailed(i) \/ Recover(i)
    \/ FinalizeRun

Spec == Init /\ [][Next]_vars

---------------------------------------------------------------------------
(* Properties. *)

\* The state keeps its shape, an accounted attempt the checks of its row, and
\* an evaluator with a threshold never abstains.
TypeOK ==
    /\ plan \in Plans /\ truth \in [Items -> Labels] /\ exposed \in BOOLEAN
    /\ \A i \in Items :
        /\ att[i].attempt \in {"not_started", "started", "terminal"}
        /\ att[i].calls \in 0..1
        /\ att[i].seen \in Observations
        /\ att[i].result # Pending => RowHolds(att[i])
        /\ plan.kind = "typed-question" => att[i].result # Outcome("abstain")

\* However the calls of a run end - answers, abstentions, errors before and
\* after the request left, odd provenance, workers that die - what its
\* attempts were accounted with can be published: the pipeline of checks
\* never refuses an artifact the run itself counted.
SpentRunsCanPublish ==
    /\ state # "refused"
    /\ AllAccounted => VerifyForArtifact(att, Artifact)

\* And no attempt is left that the row refuses to account for: whatever an
\* executor reports about a call in flight can be written down.
CallsCanBeAccounted ==
    \A i \in Items : IsPending(i, "started") =>
        \A seen \in Observations :
            /\ \A k \in Failures :
                RowHolds([att[i] EXCEPT !.attempt = "terminal", !.result = Failed(k), !.seen = Kept(seen)])
            /\ \A o \in Labels : RowHolds([att[i] EXCEPT !.attempt = "terminal",
                !.result = Judgement(o), !.seen = Kept(seen)])

Swapped(r) ==
    IF r.result.state = "outcome" /\ r.result.outcome \in Labels
    THEN [r EXCEPT !.result = Outcome(Other(r.result.outcome))]
    ELSE [r EXCEPT !.result = Failed("internal"), !.attempt = "terminal"]

\* An artifact counted from other results than the ledger's is refused, even
\* one that is right in itself and commits to that ledger.
OtherCountsAreRefused ==
    state = "minted" =>
        \A i \in Items :
            LET other == [att EXCEPT ![i] = Swapped(@)]
                forged == Build(AggregateTrial(other), att)
            IN  AggregateTrial(other) # AggregateTrial(att) => ~VerifyForArtifact(att, forged)

\* The published rates are those of the items: precision and recall speak of
\* the positive class of the plan, the error directions do not, and an item
\* without a classification is in no numerator.
RatesAreOfTheItems ==
    state = "minted" =>
        LET judged == {i \in Items : att[i].result \in {Outcome(l) : l \in Labels}}
            said(l) == {i \in judged : att[i].result = Outcome(l)}
            is(l) == {i \in judged : truth[i] = l}
            p == plan.positive
            right == Cardinality({i \in judged : att[i].result = Outcome(truth[i])})
        IN  /\ Artifact.metrics.accuracy = <<right, Cardinality(judged)>>
            /\ Artifact.metrics.precision = <<Cardinality(said(p) \cap is(p)), Cardinality(said(p))>>
            /\ Artifact.metrics.positiveRecall = <<Cardinality(said(p) \cap is(p)), Cardinality(is(p))>>
            /\ Artifact.falsePass = Cardinality(said("pass") \cap is("fail"))
            /\ (Artifact.status = "complete") => ~exposed /\ \A i \in Items : att[i].result.state = "outcome"
===========================================================================

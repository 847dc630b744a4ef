------------------------- MODULE VerdictStatistics -------------------------
(***************************************************************************)
(* What is computed of the verdicts of a project: agreement between        *)
(* reviewers and with the judge, disagreements, the convergence audit,     *)
(* self-consistency, and the overrides of the findings.                    *)
(*                                                                         *)
(* Source: lib/kappa.ts, lib/findings.ts and the reads of repository.pg/   *)
(* case-evidence-repository.ts that feed them.                             *)
(*                                                                         *)
(* A verdict's place in the log is its creation time; ms is that time as   *)
(* a record carries it, in milliseconds, and id orders ids.  Kappa is kept *)
(* as the fraction num / den.                                              *)
(***************************************************************************)
EXTENDS Integers, Sequences, FiniteSets, FiniteSetsExt

CONSTANTS
  Histories,    \* logs there may be to begin with
  Menu,         \* verdicts that may be recorded: [source, case, actor, version, label]
  MaxVerdicts,  \* bound: verdicts of a log
  Cap,          \* rows a read takes, oldest first (50,000 in the code)
  SharedMs      \* whether verdicts may share a millisecond

Scalar == "scalar"    \* a payload without a discrete category

VARIABLE log
vars == <<log>>

Stamped(v, ms, id) ==
  [source |-> v.source, case |-> v.case, actor |-> v.actor, version |-> v.version, label |-> v.label, ms |-> ms, id |-> id]

Init == log \in Histories

Record(v) ==
  LET n == Len(log) IN
  /\ n < MaxVerdicts
  /\ \E ms \in IF SharedMs /\ n > 0 THEN {log[n].ms, log[n].ms + 1} ELSE {n + 1},
        id \in IF SharedMs THEN (1 .. MaxVerdicts) \ {log[i].id : i \in 1 .. n} ELSE {n + 1} :
       log' = Append(log, Stamped(v, ms, id))

Next == \E v \in Menu : Record(v)
Spec == Init /\ [][Next]_vars

-----------------------------------------------------------------------------
(* The reads: the oldest rows of some sources, as places in the log. *)
Read(sources) ==
  LET of == {i \in DOMAIN log : log[i].source \in sources}
  IN {i \in of : Cardinality({j \in of : j <= i}) <= Cap}

Cases == {log[i].case : i \in DOMAIN log}
First(S) == CHOOSE i \in S : \A j \in S : i <= j
Discrete(S) == {i \in S : log[i].label # Scalar}
Labels(S) == {log[i].label : i \in S}
LatestByPlace(S) == CHOOSE i \in S : \A j \in S : log[j].ms < log[i].ms \/ (log[j].ms = log[i].ms /\ j <= i)
LatestById(S) == CHOOSE i \in S : \A j \in S : log[j].ms < log[i].ms \/ (log[j].ms = log[i].ms /\ log[j].id <= log[i].id)

-----------------------------------------------------------------------------
(* computeKappaSummary over a set of rows.  In the calibration a verdict   *)
(* of the judge is rated by a synthetic reviewer, one for each version.    *)
RaterOfAnyVersion(i) ==    \* Faulty variant: every version is the one judge
  IF log[i].source = "llm_judge" THEN <<"judge", "of any version">> ELSE <<log[i].actor>>
Rater(i) == IF log[i].source = "llm_judge" THEN <<"judge", log[i].version>> ELSE <<log[i].actor>>

RatersOf(S) == {Rater(i) : i \in S}
RatedBy(S, a, c) == {i \in S : Rater(i) = a /\ log[i].case = c}
SharedCases(S, a, b) == {c \in Cases : RatedBy(S, a, c) # {} /\ RatedBy(S, b, c) # {}}

LastRating(S, a, c) ==     \* Faulty variant: a later verdict replaces the first
  log[Max(RatedBy(S, a, c))].label
Rating(S, a, c) == log[First(RatedBy(S, a, c))].label

(* Sums over the shared cases: total squared is the common denominator of  *)
(* the observed and the expected agreement.                                *)
AgreementOverCategoriesOfA(S, a, b) ==    \* Faulty variant: the marginals of one rater are used for both
  LET cs == SharedCases(S, a, b)
      n == Cardinality(cs)
      of(r, l) == Cardinality({c \in cs : Rating(S, r, c) = l})
      agree == Cardinality({c \in cs : Rating(S, a, c) = Rating(S, b, c)})
      chance == MapThenSumSet(LAMBDA l : of(a, l) * of(a, l), {Rating(S, a, c) : c \in cs})
  IN [n |-> n, num |-> agree * n - chance, den |-> n * n - chance]
Agreement(S, a, b) ==
  LET cs == SharedCases(S, a, b)
      n == Cardinality(cs)
      of(r, l) == Cardinality({c \in cs : Rating(S, r, c) = l})
      agree == Cardinality({c \in cs : Rating(S, a, c) = Rating(S, b, c)})
      chance == MapThenSumSet(LAMBDA l : of(a, l) * of(b, l), {Rating(S, r, c) : r \in {a, b}, c \in cs})
  IN [n |-> n, num |-> agree * n - chance, den |-> n * n - chance]

Kind(S, a, b) ==
  LET cs == SharedCases(S, a, b)
      ls == {Rating(S, r, c) : r \in {a, b}, c \in cs}
  IN CASE cs = {} -> "apart"
       [] Scalar \in ls -> "unsupported"
       [] cs # {} /\ Scalar \notin ls /\ Cardinality(ls) = 1 -> "undefined"
       [] OTHER -> "defined"

AnyPair(a, b) == a # b
JudgeAndHuman(a, b) == (Len(a) = 2) # (Len(b) = 2)

Pairs(S, filter(_, _)) == {p \in SUBSET RatersOf(S) : Cardinality(p) = 2 /\ \A a, b \in p : a # b => filter(a, b)}
KindOf(S, p) == LET a == CHOOSE r \in p : TRUE IN Kind(S, a, CHOOSE r \in p : r # a)
Kappas(S, filter(_, _)) ==
  [p \in {q \in Pairs(S, filter) : KindOf(S, q) \in {"defined", "undefined"}} |->
     LET a == CHOOSE r \in p : TRUE IN Agreement(S, a, CHOOSE r \in p : r # a)]
OverlappingCases(S, filter(_, _)) ==
  {c \in Cases : \E p \in DOMAIN Kappas(S, filter) : \A a \in p : RatedBy(S, a, c) # {}}

KappaSummary == Kappas(Read({"human"}), AnyPair)
Calibration == Kappas(Read({"human", "llm_judge"}), JudgeAndHuman)

-----------------------------------------------------------------------------
(* The recorded ruling of each case. *)
AdjudicatedIn(S, c) ==
  LET of == {i \in Discrete(S) : log[i].source = "adjudicated" /\ log[i].case = c}
  IN IF of = {} THEN Scalar ELSE log[LatestById(of)].label

(* computeDisagreementSummary: the first discrete verdict of each reviewer. *)
Reviewers(S, c) == {log[i].actor : i \in {j \in Discrete(S) : log[j].source = "human" /\ log[j].case = c}}
SaidByAnother(S, c, r) ==    \* Faulty variant: the first verdict of the case
  log[First({i \in Discrete(S) : log[i].source = "human" /\ log[i].case = c})].label
LastSaid(S, c, r) ==    \* Faulty variant: a later verdict replaces the first
  log[Max({i \in Discrete(S) : log[i].source = "human" /\ log[i].case = c /\ log[i].actor = r})].label
Said(S, c, r) == log[First({i \in Discrete(S) : log[i].source = "human" /\ log[i].case = c /\ log[i].actor = r})].label
Compared == LET S == Read({"human", "adjudicated"}) IN {c \in Cases : Cardinality(Reviewers(S, c)) >= 2}
Bloc(S, c, l) == Cardinality({r \in Reviewers(S, c) : Said(S, c, r) = l})
Disagreements ==
  LET S == Read({"human", "adjudicated"}) IN
  [c \in {d \in Compared : \E r, s \in Reviewers(S, d) : Said(S, d, r) # Said(S, d, s)} |->
     [reviewers |-> Cardinality(Reviewers(S, c)),
      largest |-> Max({Bloc(S, c, Said(S, c, r)) : r \in Reviewers(S, c)}),
      ruling |-> AdjudicatedIn(S, c)]]

(* computeJudgeHumanDisagreement: the latest label of the judge, ties to   *)
(* the later row.                                                          *)
JudgeRows(S, c) == {i \in Discrete(S) : log[i].source = "llm_judge" /\ log[i].case = c}
FirstJudgeLabel(S, c) ==    \* Faulty variant: the first label of the judge is kept
  log[First(JudgeRows(S, c))].label
JudgeLabel(S, c) == log[LatestByPlace(JudgeRows(S, c))].label
JudgeHumanDisagreements ==
  LET S == Read({"human", "llm_judge", "adjudicated"})
      compared == {c \in Cases : JudgeRows(S, c) # {} /\ Reviewers(S, c) # {}}
  IN [c \in {d \in compared : \E r \in Reviewers(S, d) : Said(S, d, r) # JudgeLabel(S, d)} |->
        [judge |-> JudgeLabel(S, c),
         against |-> {r \in Reviewers(S, c) : Said(S, c, r) # JudgeLabel(S, c)}]]

(* buildFindings: the rows whose label differs from the judge's latest,    *)
(* ties to the greater id.                                                 *)
FindingsFirstLabel(c) == log[First(JudgeRows(DOMAIN log, c))].label    \* Faulty variant
FindingsLabel(c) == log[LatestById(JudgeRows(DOMAIN log, c))].label
Overrides ==
  {i \in Discrete(DOMAIN log) :
     /\ log[i].source \in {"human", "adjudicated"}
     /\ JudgeRows(DOMAIN log, log[i].case) # {} /\ FindingsLabel(log[i].case) # log[i].label}

-----------------------------------------------------------------------------
(* judgeLabelByCaseForVersion and computeConvergenceAudit *)
LabelOfVersion(c, v) ==
  LET of == {i \in Discrete(DOMAIN log) : log[i].source = "llm_judge" /\ log[i].case = c /\ log[i].version = v}
  IN IF of = {} THEN Scalar ELSE log[LatestById(of)].label

ChangeOfUnknown(truth, before, after) ==    \* Faulty variant: an unknown label before counts as wrong
  CASE after = truth /\ before # truth -> "improved"
    [] after # truth /\ before = truth -> "regressed"
    [] after = truth /\ before = truth -> "still_agree"
    [] OTHER -> "still_disagree"
Change(truth, before, after) ==
  CASE after = truth /\ before # Scalar /\ before # truth -> "improved"
    [] after # truth /\ before = truth -> "regressed"
    [] after = truth /\ before \in {Scalar, truth} -> "still_agree"
    [] OTHER -> "still_disagree"

Audit(before, after) ==
  LET truth(c) == AdjudicatedIn(DOMAIN log, c)
      cases == {c \in Cases : truth(c) # Scalar /\ LabelOfVersion(c, after) # Scalar}
      known == {c \in cases : LabelOfVersion(c, before) # Scalar}
      is(k) == {c \in cases : Change(truth(c), LabelOfVersion(c, before), LabelOfVersion(c, after)) = k}
  IN [cases |-> cases, known |-> known,
      afterAgreed |-> {c \in cases : LabelOfVersion(c, after) = truth(c)},
      beforeAgreed |-> {c \in known : LabelOfVersion(c, before) = truth(c)},
      improved |-> is("improved"), regressed |-> is("regressed")]

(* computeSelfConsistency *)
Runs(S, v, c) == {i \in Discrete(S) : log[i].source = "llm_judge" /\ log[i].version = v /\ log[i].case = c}
SelfConsistency(v) ==
  LET S == Read({"llm_judge"}) IN
  [c \in {d \in Cases : Cardinality(Runs(S, v, d)) >= 2} |->
     [runs |-> Cardinality(Runs(S, v, c)), labels |-> Labels(Runs(S, v, c)),
      largest |-> Max({Cardinality({i \in Runs(S, v, c) : log[i].label = l}) : l \in Labels(Runs(S, v, c))})]]

Versions == {log[i].version : i \in DOMAIN log}
-----------------------------------------------------------------------------
(* A log holds verdicts in the order of their time. *)
TypeOK ==
  \A i \in DOMAIN log : i > 1 => log[i - 1].ms <= log[i].ms

(* computeKappaSummary: kappa is between -1 and 1, it is 1 only for        *)
(* raters that never differ, and a pair without a second category has no   *)
(* kappa at all: full agreement by chance is not reported as a perfect     *)
(* one.                                                                    *)
KappaIsBounded ==
  LET S == Read({"human"}) IN
  \A p \in DOMAIN KappaSummary :
    LET k == KappaSummary[p]
        agree == \A c \in SharedCases(S, CHOOSE a \in p : TRUE, CHOOSE b \in p : b # CHOOSE a \in p : TRUE) :
                   Cardinality({Rating(S, r, c) : r \in p}) = 1
    IN IF KindOf(S, p) = "undefined" THEN k.den = 0
       ELSE k.den > 0 /\ k.num <= k.den /\ k.num >= -k.den /\ ((k.num = k.den) <=> agree)

(* Two algorithms, one over pairs and one over cases, find the same        *)
(* disagreements when no verdict is scalar.                                *)
SplitsAreDisagreements ==
  (\A i \in DOMAIN log : log[i].label # Scalar) =>
    /\ Compared = OverlappingCases(Read({"human"}), AnyPair)
    /\ DOMAIN Disagreements =
         {c \in Cases : \E p \in DOMAIN KappaSummary :
            /\ \A a \in p : RatedBy(Read({"human"}), a, c) # {}
            /\ Cardinality({Rating(Read({"human"}), a, c) : a \in p}) = 2}

(* The calibration of a version is its own: a verdict of another version,  *)
(* or a ruling, moves neither its kappa with a reviewer, nor its           *)
(* consistency, nor the kappa of the reviewers among themselves.           *)
VersionStep ==
  LET new == log'[Len(log')] IN
  /\ new.source # "human" => KappaSummary' = KappaSummary
  /\ \A p \in DOMAIN Calibration :
       (\A a \in p : a # <<"judge", new.version>>) /\ new.source # "human" =>
         p \in DOMAIN Calibration' /\ Calibration'[p] = Calibration[p]
  /\ \A v \in Versions : (new.source = "human" \/ new.version # v) => SelfConsistency(v)' = SelfConsistency(v)
VersionsDoNotMix == [][VersionStep]_vars

(* Verdicts are append-only, and so is what they were counted as: a        *)
(* reviewer's rating of a case does not change once it is recorded.        *)
RatingStep ==
  \A i \in Read({"human"}) :
    Rating(Read({"human"}), Rater(i), log[i].case)' = Rating(Read({"human"}), Rater(i), log[i].case)
RatingsStand == [][RatingStep]_vars

(* The audit adds up: on the cases that both versions judged, the new one  *)
(* agrees as often as the old one, plus improvements, minus regressions.   *)
AuditAddsUp ==
  \A v, w \in Versions : v # w =>
    LET a == Audit(v, w)
        card(S) == Cardinality(S)
    IN /\ card(a.afterAgreed \cap a.known) = card(a.beforeAgreed) + card(a.improved) - card(a.regressed)
       /\ a.improved \cup a.regressed \subseteq a.known
       /\ a.regressed \cap a.afterAgreed = {} /\ a.improved \subseteq a.afterAgreed

(* The audit reads both ways: what a version improved on another, the      *)
(* other would regress on it.                                              *)
AuditIsSymmetric ==
  \A v, w \in Versions : Audit(v, w).improved = Audit(w, v).regressed

(* "the judge's verdict = the LATEST llm_judge verdict": the feed of       *)
(* disagreements holds the judge to its last label.                        *)
JudgeIsHeldToItsLatest ==
  \A c \in DOMAIN JudgeHumanDisagreements :
    JudgeHumanDisagreements[c].judge = log[Max(JudgeRows(DOMAIN log, c))].label

(* One answer of the findings endpoint holds both feeds: a reviewer listed *)
(* against the judge on a case has an override there.                      *)
FeedsAgree ==
  \A c \in DOMAIN JudgeHumanDisagreements : \A r \in JudgeHumanDisagreements[c].against :
    \E i \in Overrides : log[i].case = c /\ log[i].actor = r
=============================================================================

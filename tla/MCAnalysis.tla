---------------------------- MODULE MCAnalysis ----------------------------
(* From traces to criteria: analysis populations, blinded studies and      *)
(* their deadlines, the failure taxonomy and the promotion of its codes.   *)
(* They share no variable, so they are checked side by side: a behaviour   *)
(* follows the scenario that focus names and leaves the other components   *)
(* as they started.                                                        *)
EXTENDS Naturals, FiniteSets, TLC

CONSTANTS
    x1, x2,  \* requests and processes under way
    c1, c2, l1, l2,  \* failure codes and their texts
    i0, e0, k0,  \* an item, an execution, a key
    s1, s2  \* studies

VARIABLES
    focus,  \* the scenario this behaviour follows
    \* AnalysisPopulations
    populationNow, cases, populations, requests, populationLock, owner,
    populationAnswers, used,
    \* AnalysisStudy
    studyNow, studyStudy, log, views, studyClosure, studyReq, stored, studyLock,
    studyX, studyFaults,
    \* StudyDeadlines
    until, closed, poisoned, failures, wait, closer, unrecorded, passedOver,
    deadlinesFaults,
    \* FailureTaxonomy
    taxonomyRevs, taxonomyAssign, taxonomyActive, taxonomyStudy, taxonomyClosure,
    taxonomyReq, taxonomyStudyLock, taxonomyTaxonomyLock, taxonomyX, taxonomyFaults,
    \* AnalysisPromotion
    promotionRevs, promotionAssign, promotionActive, promotionClosure, promotions,
    promotionReq, promotionAnswers, promotionStudyLock, promotionTaxonomyLock,
    promotionX, promotionFaults

populationVars == <<populationNow, cases, populations, requests, populationLock, owner, populationAnswers, used>>
studyVars == <<studyNow, studyStudy, log, views, studyClosure, studyReq, stored, studyLock, studyX, studyFaults>>
deadlinesVars == <<until, closed, poisoned, failures, wait, closer, unrecorded, passedOver, deadlinesFaults>>
taxonomyVars == <<taxonomyRevs, taxonomyAssign, taxonomyActive, taxonomyStudy, taxonomyClosure, taxonomyReq, taxonomyStudyLock, taxonomyTaxonomyLock, taxonomyX, taxonomyFaults>>
promotionVars == <<promotionRevs, promotionAssign, promotionActive, promotionClosure, promotions, promotionReq, promotionAnswers, promotionStudyLock, promotionTaxonomyLock, promotionX, promotionFaults>>

First == [start |-> 0, end |-> 1]
Both  == [start |-> 0, end |-> 2]

TwoInOne   == (1 :> s1) @@ (2 :> s1)
TwoStudies == (1 :> s1) @@ (2 :> s2)

\* Idempotency keys, or the requests they belong to.  Most are asked in their
\* order, since which key is which makes no difference.
Key == <<"first", "second", "third", "fourth", "fifth", "sixth">>
FirstKeys(n) == {Key[i] : i \in 1 .. n}
AskedInOrder(req, n) == \A i \in 2 .. n : req[Key[i]].kind # "none" => req[Key[i - 1]].kind # "none"

-----------------------------------------------------------------------------
\* Owners create draws of overlapping windows while cases arrive late.
Draws == INSTANCE AnalysisPopulations WITH
    Owners <- {x1, x2}, Keys <- FirstKeys(2), Windows <- {First, Both}, Budgets <- {1},
    MaxTime <- 2, MaxCases <- 2, MaxDuration <- 2, MaxRequests <- 2, MaxPrunes <- 0,
    MaxFaults <- 0, now <- populationNow, lock <- populationLock,
    answers <- populationAnswers

\* Retention prunes a case before it is drawn.
PrunedDraws == INSTANCE AnalysisPopulations WITH
    Owners <- {x1, x2}, Keys <- FirstKeys(2), Windows <- {First, Both}, Budgets <- {1},
    MaxTime <- 2, MaxCases <- 1, MaxDuration <- 2, MaxRequests <- 2, MaxPrunes <- 1,
    MaxFaults <- 0, now <- populationNow, lock <- populationLock,
    answers <- populationAnswers

\* No import outlasts the lag, and nothing is pruned.
Frames == INSTANCE AnalysisPopulations WITH
    Owners <- {x1}, Keys <- FirstKeys(2), Windows <- {First, Both}, Budgets <- {1},
    MaxTime <- 3, MaxCases <- 2, MaxDuration <- 1, MaxRequests <- 2, MaxPrunes <- 0,
    MaxFaults <- 0, now <- populationNow, lock <- populationLock,
    answers <- populationAnswers

\* One item is coded, reopened and coded again, by clients that wait for
\* their answers, until the owner or the deadline closes the study.
Coding == INSTANCE AnalysisStudy WITH
    Items <- {i0}, Requests <- FirstKeys(6), Executions <- {e0}, MaxTime <- 2,
    MaxEvents <- 4, MaxFaults <- 0, now <- studyNow, study <- studyStudy,
    closure <- studyClosure, req <- studyReq, lock <- studyLock, x <- studyX,
    faults <- studyFaults

\* A command is asked once none is under way and all but one were stored.
OneAtATime ==
    /\ AskedInOrder(studyReq', 6)
    /\ \/ studyReq' = studyReq
       \/ /\ studyX = [e \in {e0} |-> Coding!Idle]
          /\ Cardinality({k \in FirstKeys(6) : studyReq'[k].kind # "none" /\ ~Coding!IsStored(k)}) <= 1

\* Commands go by what their clients saw any time ago.
Stale == INSTANCE AnalysisStudy WITH
    Items <- {i0}, Requests <- FirstKeys(3), Executions <- {e0}, MaxTime <- 2,
    MaxEvents <- 2, MaxFaults <- 0, now <- studyNow, study <- studyStudy,
    closure <- studyClosure, req <- studyReq, lock <- studyLock, x <- studyX,
    faults <- studyFaults

\* Commands of a study overlap and are repeated.
Repeats == INSTANCE AnalysisStudy WITH
    Items <- {i0}, Requests <- FirstKeys(2), Executions <- {x1, x2}, MaxTime <- 1,
    MaxEvents <- 0, MaxFaults <- 1, now <- studyNow, study <- studyStudy,
    closure <- studyClosure, req <- studyReq, lock <- studyLock, x <- studyX,
    faults <- studyFaults

\* Two closers and the requests of members, over two studies that may be
\* malformed, with one closure or record of a failure that fails besides.
\* A malformed study is taken by each closer at delays of none, one and two
\* ticks and once more after the fault, then it outlasts a pass.
Deadlines == INSTANCE StudyDeadlines WITH
    Studies <- {1, 2}, Closers <- {x1, x2}, Limit <- 1, MaxDoubling <- 2,
    MaxUntil <- 0, MaxFaults <- 1, MaxPassedOver <- 8, faults <- deadlinesFaults

\* A taxonomy is created, and then revised while a failure is assigned to one
\* of its codes, or revised by two owners at once.
Taxonomy == INSTANCE FailureTaxonomy WITH
    Codes <- {c1, c2}, Labels <- {l1, l2}, Observations <- {i0},
    Requests <- FirstKeys(3), Executions <- {x1, x2}, MaxRevisions <- 3, MaxFaults <- 0,
    revs <- taxonomyRevs, assign <- taxonomyAssign, active <- taxonomyActive,
    study <- taxonomyStudy, closure <- taxonomyClosure, req <- taxonomyReq,
    studyLock <- taxonomyStudyLock, taxonomyLock <- taxonomyTaxonomyLock,
    x <- taxonomyX, faults <- taxonomyFaults

\* One command more: assignments before, during and after a revision.
Revised == INSTANCE FailureTaxonomy WITH
    Codes <- {c1}, Labels <- {l1}, Observations <- {i0},
    Requests <- FirstKeys(4), Executions <- {x1, x2}, MaxRevisions <- 3, MaxFaults <- 0,
    revs <- taxonomyRevs, assign <- taxonomyAssign, active <- taxonomyActive,
    study <- taxonomyStudy, closure <- taxonomyClosure, req <- taxonomyReq,
    studyLock <- taxonomyStudyLock, taxonomyLock <- taxonomyTaxonomyLock,
    x <- taxonomyX, faults <- taxonomyFaults

\* Two requests, with one key or with two, promote a code that two studies
\* observed.
Promotions == INSTANCE AnalysisPromotion WITH
    Codes <- {c1}, Studies <- {s1, s2}, Observations <- {1, 2},
    StudyOf <- TwoStudies, Keys <- FirstKeys(2), Requests <- FirstKeys(2),
    Executions <- {x1, x2}, PageSize <- 1, MaxRevisions <- 2, MaxFaults <- 0,
    revs <- promotionRevs, assign <- promotionAssign, active <- promotionActive,
    closure <- promotionClosure, req <- promotionReq, answers <- promotionAnswers,
    studyLock <- promotionStudyLock, taxonomyLock <- promotionTaxonomyLock,
    x <- promotionX, faults <- promotionFaults

\* A promotion that overlaps the coding and a revision.
WhileCoding == INSTANCE AnalysisPromotion WITH
    Codes <- {c1, c2}, Studies <- {s1}, Observations <- {1, 2}, StudyOf <- TwoInOne,
    Keys <- {k0}, Requests <- FirstKeys(1), Executions <- {x1, x2}, PageSize <- 1,
    MaxRevisions <- 2, MaxFaults <- 0, revs <- promotionRevs,
    assign <- promotionAssign, active <- promotionActive,
    closure <- promotionClosure, req <- promotionReq, answers <- promotionAnswers,
    studyLock <- promotionStudyLock, taxonomyLock <- promotionTaxonomyLock,
    x <- promotionX, faults <- promotionFaults

ASSUME ConstantsAssumption ==
    /\ Draws!WindowsAssumption
    /\ Draws!BudgetsAssumption
    /\ PrunedDraws!WindowsAssumption
    /\ PrunedDraws!BudgetsAssumption
    /\ Frames!WindowsAssumption
    /\ Frames!BudgetsAssumption
    /\ Coding!BoundsAssumption
    /\ Coding!NoneAssumption
    /\ Stale!BoundsAssumption
    /\ Stale!NoneAssumption
    /\ Repeats!BoundsAssumption
    /\ Repeats!NoneAssumption
    /\ Deadlines!BoundsAssumption
    /\ Taxonomy!BoundsAssumption
    /\ Taxonomy!NoneAssumption
    /\ Revised!BoundsAssumption
    /\ Revised!NoneAssumption
    /\ Promotions!BoundsAssumption
    /\ Promotions!NoneAssumption
    /\ WhileCoding!BoundsAssumption
    /\ WhileCoding!NoneAssumption

-----------------------------------------------------------------------------
\* (A component that is not followed starts with the instance that has no key
\* or process of its own, so that the symmetry holds for it, too.)
Init ==
    /\ focus \in {"draws", "pruned_draws", "frames", "coding", "stale", "repeats",
                 "deadlines", "taxonomy", "revised", "promotions", "while_coding"}
    /\ IF focus = "frames" THEN Frames!Init
       ELSE IF focus = "pruned_draws" THEN PrunedDraws!Init
       ELSE Draws!Init
    /\ IF focus = "repeats" THEN Repeats!Init
       ELSE IF focus = "stale" THEN Stale!Init
       ELSE Coding!Init
    /\ Deadlines!Init
    /\ focus # "deadlines" =>
          poisoned = {}
    /\ IF focus = "taxonomy" THEN Taxonomy!Init
       ELSE Revised!Init
    /\ IF focus = "promotions" THEN Promotions!Init
       ELSE WhileCoding!Init
    /\ focus \notin {"promotions", "while_coding"} =>
          promotionAssign = [o \in {1, 2} |-> <<>>]

Step ==
    \/ focus = "draws" /\ Draws!Next
    \/ focus = "pruned_draws" /\ PrunedDraws!Next
    \/ focus = "frames" /\ Frames!Next
    \/ focus = "coding" /\ Coding!Next /\ OneAtATime
    \/ focus = "stale" /\ Stale!Next /\ AskedInOrder(studyReq', 3)
    \/ focus = "repeats" /\ Repeats!Next
    \/ focus = "deadlines" /\ Deadlines!Next
    \/ focus = "taxonomy" /\ Taxonomy!Next /\ AskedInOrder(taxonomyReq', 3)
    \/ focus = "revised" /\ Revised!Next /\ AskedInOrder(taxonomyReq', 4)
    \/ focus = "promotions" /\ Promotions!Next
    \/ focus = "while_coding" /\ WhileCoding!Next

\* The components that the scenario does not follow stay as they are.
Others ==
    /\ UNCHANGED focus
    /\ focus \notin {"draws", "pruned_draws", "frames"} => UNCHANGED populationVars
    /\ focus \notin {"coding", "stale", "repeats"} => UNCHANGED studyVars
    /\ focus # "deadlines" => UNCHANGED deadlinesVars
    /\ focus \notin {"taxonomy", "revised"} => UNCHANGED taxonomyVars
    /\ focus \notin {"promotions", "while_coding"} => UNCHANGED promotionVars

Next == Step /\ Others

vars == <<focus, populationVars, studyVars, deadlinesVars, taxonomyVars,
          promotionVars>>

Spec == Init /\ [][Next]_vars

Symmetry ==
    Permutations({x1, x2}) \cup Permutations({c1, c2})

-----------------------------------------------------------------------------
\* Analysis populations: asking again is answered with the one draw of the
\* frame, a key keeps its population for ever, and with a lag longer than
\* any import the frame is what a recomputation gives.
DrawsAreFair ==
    /\ focus = "draws" => Draws!TypeOK /\ Draws!AskingAgainIsAnswered /\ Draws!KeysAreStable
    /\ focus = "pruned_draws" => PrunedDraws!AskingAgainIsAnswered /\ PrunedDraws!KeysAreStable
    /\ focus = "frames" => Frames!FrameIsReproducible

\* Analysis studies: the closure is the coding, a completed item has its
\* evidence, the reducer and the database agree, a study is abandoned
\* before its deadline only, and a stored command that is repeated is not
\* refused.  Only overdue open studies back off, whichever pass or request
\* records a failure last, and malformed ones do not starve the others.
ClosureIsTheCoding ==
    /\ []( /\ focus = "coding" => Coding!TypeOK /\ Coding!ClosureIsTheCoding /\ Coding!CompletionHasEvidence /\ Coding!ReducerAgrees /\ Coding!AbandonedInTime
           /\ focus = "stale" => Stale!ClosureIsTheCoding /\ Stale!CompletionHasEvidence /\ Stale!AbandonedInTime
           /\ focus = "repeats" => Repeats!AbandonedInTime
           /\ focus = "deadlines" => Deadlines!TypeOK /\ Deadlines!RetryIsOfTheOverdue /\ Deadlines!NobodyIsStarved )
    /\ [][focus = "repeats" => Repeats!RefusalStep]_vars

\* The failure taxonomy: both computations of the coverage agree, a retired
\* code keeps its text, past coverage stands, and the closure of a study
\* holds its assignments.
TaxonomyKeepsItsPast ==
    /\ []( /\ focus = "taxonomy" => /\ Taxonomy!TypeOK /\ Taxonomy!CoverageAgrees
                                   /\ Taxonomy!ClosureHoldsTheAssignments /\ Taxonomy!RetiredStaysRetired
           /\ focus = "revised" => /\ Revised!CoverageAgrees /\ Revised!ClosureHoldsTheAssignments
                                  /\ Revised!RetiredStaysRetired )
    /\ [][ /\ focus = "taxonomy" => Taxonomy!PastCoverageStep
           /\ focus = "revised" => Revised!PastCoverageStep ]_vars

\* Promotion of a failure code: its supports are the closure of a closed
\* study and nothing the client saw is missing, it is made at the head of
\* the taxonomy, and every answer, also to a repeat, is true.
PromotionsRestOnTheClosure ==
    /\ []( /\ focus = "promotions" => Promotions!TypeOK /\ Promotions!AnswersAreTrue
           /\ focus = "while_coding" => WhileCoding!SupportsAreTheClosure /\ WhileCoding!NothingSeenIsMissing )
    /\ [][ /\ focus = "promotions" => Promotions!ReplayStep
           /\ focus = "while_coding" => WhileCoding!HeadStep ]_vars

=============================================================================

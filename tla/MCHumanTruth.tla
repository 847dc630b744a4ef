--------------------------- MODULE MCHumanTruth ---------------------------
(* Where the labels come from that evaluators are held to: governed        *)
(* review, the golden set with its review queue, dataset revisions and     *)
(* trace tests. They share no variable, so they are checked side by side:  *)
(* a behaviour follows the scenario that focus names and leaves the other  *)
(* components as they started.                                             *)
EXTENDS TLC

CONSTANTS
    x1, x2,  \* requests, commands and clients under way
    y1, y2,  \* cases, or contents of a draft
    i0,  \* an item of a review batch
    r1, r2,  \* reviewers
    o1, o2, Nobody,  \* owners and custodians; nothing
    d1, d2, k0, Null  \* collections, an idempotency key, no key

VARIABLES
    focus,  \* the scenario this behaviour follows
    \* GovernedReview
    db, stopped, tx, readers,
    \* GoldenSet
    goldenVerdicts, entries, revs, pointer, versions, queue, goldenLock, goldenH,
    clock, goldenRequests, goldenFaults,
    \* DatasetRevisions
    minted, items, archived, datasetsVerdicts, datasetsRevisions, project, dsLock,
    idLock, datasetsC, batches, removed, edits, datasetsFaults,
    \* TraceTests
    current, enabled, testsRevisions, validations, testsLock, testsH, notFound,
    testsRequests, testsFaults

reviewVars == <<db, stopped, tx, readers>>
goldenVars == <<goldenVerdicts, entries, revs, pointer, versions, queue, goldenLock, goldenH, clock, goldenRequests, goldenFaults>>
datasetsVars == <<minted, items, archived, datasetsVerdicts, datasetsRevisions, project, dsLock, idLock, datasetsC, batches, removed, edits, datasetsFaults>>
testsVars == <<current, enabled, testsRevisions, validations, testsLock, testsH, notFound, testsRequests, testsFaults>>

\* Requests of the clients of datasets.
Mark(label, step) == [label |-> label, step |-> step]
Row(trace, label, step) == [trace |-> trace, mark |-> Mark(label, step)]
ImportInto(ds, batch) == [kind |-> "import", ds |-> ds, batch |-> batch]
AddTo(ds, batch) == [kind |-> "add", ds |-> ds, batch |-> batch]
TraceOf(batch) == [kind |-> "trace", ds |-> "none", batch |-> batch]
FreezeOf(ds, key, role, follow, reuse) ==
    [kind |-> "freeze", ds |-> ds, key |-> key, role |-> role, follow |-> follow, reuse |-> reuse]

Forth == <<Row(1, "pass", 0), Row(2, "fail", 1)>>
Back == <<Row(2, "none", 0), Row(1, "fail", 1)>>

\* Imports of the same examples against appends, archives and one freeze.
ImportMenu ==
    {ImportInto(d1, Forth), ImportInto(d1, Back), ImportInto(d2, Back), TraceOf(<<Row(2, "none", 0)>>),
     AddTo(d1, <<Row(1, "none", 0), Row(3, "pass", 0)>>), FreezeOf(d1, "none", "authoring", FALSE, FALSE)}

\* Freezes of one key and of none, while items come and go.
FreezeMenu ==
    {FreezeOf(d1, k0, "authoring", FALSE, FALSE), FreezeOf(d2, k0, "authoring", FALSE, FALSE),
     FreezeOf(d1, k0, "development", FALSE, FALSE), FreezeOf(d1, "none", "authoring", TRUE, TRUE),
     FreezeOf(d1, "none", "development", FALSE, TRUE), AddTo(d1, <<Row(1, "fail", 1)>>)}

-----------------------------------------------------------------------------
\* Two raters of one item, and two commands of serializable transactions.
Review == INSTANCE GovernedReview WITH
    Items <- {i0}, Reviewers <- {r1, r2}, Outsiders <- {o1}, Custodian <- o1,
    Sealed <- FALSE, Labels <- {"pass", "fail"}, Developers <- {},
    Decisions <- {"pass", "unresolvable"}, Commands <- {x1, x2}, Nothing <- Nobody,
    MaxTaskEvents <- 3, MaxAlignment <- 1, MaxChain <- 2

\* A sealed batch, whose readers may develop an evaluator.
SealedReview == INSTANCE GovernedReview WITH
    Items <- {i0}, Reviewers <- {r1}, Outsiders <- {o1, o2}, Custodian <- o1,
    Sealed <- TRUE, Labels <- {"pass"}, Developers <- {o2}, Decisions <- {"pass"},
    Commands <- {x1, x2}, Nothing <- Nobody, MaxTaskEvents <- 2, MaxAlignment <- 0,
    MaxChain <- 0

\* Promotions, retirements and new versions of one criterion overlap.
Golden == INSTANCE GoldenSet WITH
    Cases <- {y1, y2}, Reviewers <- {r1}, Handlers <- {x1, x2}, MaxRequests <- 2,
    MaxVerdicts <- 1, MaxQueued <- 0, MaxFaults <- 1, verdicts <- goldenVerdicts,
    lock <- goldenLock, h <- goldenH, requests <- goldenRequests,
    faults <- goldenFaults

\* The review queue of a case with two reviewers.
Queue == INSTANCE GoldenSet WITH
    Cases <- {y1}, Reviewers <- {r1, r2}, Handlers <- {x1, x2}, MaxRequests <- 1,
    MaxVerdicts <- 2, MaxQueued <- 2, MaxFaults <- 0, verdicts <- goldenVerdicts,
    lock <- goldenLock, h <- goldenH, requests <- goldenRequests,
    faults <- goldenFaults

\* Imports of the same examples, appends, archives and a freeze.
Imports == INSTANCE DatasetRevisions WITH
    Datasets <- {d1, d2}, Keys <- {k0}, Clients <- {x1, x2}, Sealed <- {},
    Traces <- {1, 2, 3}, Menu <- ImportMenu, Imported <- {3}, MaxVerdicts <- 0,
    MaxEdits <- 1, MaxFaults <- 1, verdicts <- datasetsVerdicts,
    revisions <- datasetsRevisions, c <- datasetsC, faults <- datasetsFaults

\* Freezes of one key while items come and go.
Freezes == INSTANCE DatasetRevisions WITH
    Datasets <- {d1, d2}, Keys <- {k0}, Clients <- {x1, x2}, Sealed <- {},
    Traces <- {1, 2}, Menu <- FreezeMenu, Imported <- {1, 2}, MaxVerdicts <- 1,
    MaxEdits <- 1, MaxFaults <- 0, verdicts <- datasetsVerdicts,
    revisions <- datasetsRevisions, c <- datasetsC, faults <- datasetsFaults

\* Revisions, validations and enablings of one test overlap.
Tests == INSTANCE TraceTests WITH
    Contents <- {y1, y2}, Labels <- {"pass", "fail"}, Handlers <- {x1, x2},
    MaxAttempts <- 1, MaxRequests <- 3, MaxFaults <- 0, revisions <- testsRevisions,
    lock <- testsLock, h <- testsH, requests <- testsRequests, faults <- testsFaults

ASSUME ConstantsAssumption ==
    /\ Review!GovernedReviewAssumption
    /\ SealedReview!GovernedReviewAssumption
    /\ Golden!BoundsAssumption
    /\ Golden!NoneAssumption
    /\ Queue!BoundsAssumption
    /\ Queue!NoneAssumption
    /\ Imports!TracesAssumption
    /\ Imports!BoundsAssumption
    /\ Imports!NoneAssumption
    /\ Freezes!TracesAssumption
    /\ Freezes!BoundsAssumption
    /\ Freezes!NoneAssumption
    /\ Tests!BoundsAssumption
    /\ Tests!NoneAssumption
    /\ Tests!LabelsAssumption

-----------------------------------------------------------------------------
Init ==
    /\ focus \in {"review", "sealed_review", "golden", "queue", "imports",
                 "freezes", "tests"}
    /\ IF focus = "review" THEN Review!Init
       ELSE SealedReview!Init
    /\ IF focus = "golden" THEN Golden!Init
       ELSE Queue!Init
    /\ IF focus = "imports" THEN Imports!Init
       ELSE Freezes!Init
    /\ Tests!Init
    /\ focus # "tests" =>
          testsRevisions[1].content = y1

Step ==
    \/ focus = "review" /\ Review!Next
    \/ focus = "sealed_review" /\ SealedReview!Next
    \/ focus = "golden" /\ Golden!Next
    \/ focus = "queue" /\ Queue!Next
    \/ focus = "imports" /\ Imports!Next
    \/ focus = "freezes" /\ Freezes!Next
    \/ focus = "tests" /\ Tests!Next

\* The components that the scenario does not follow stay as they are.
Others ==
    /\ UNCHANGED focus
    /\ focus \notin {"review", "sealed_review"} => UNCHANGED reviewVars
    /\ focus \notin {"golden", "queue"} => UNCHANGED goldenVars
    /\ focus \notin {"imports", "freezes"} => UNCHANGED datasetsVars
    /\ focus # "tests" => UNCHANGED testsVars

Next == Step /\ Others

vars == <<focus, reviewVars, goldenVars, datasetsVars, testsVars>>

Spec == Init /\ [][Next]_vars

Symmetry ==
    Permutations({x1, x2}) \cup Permutations({y1, y2}) \cup Permutations({r1, r2})

-----------------------------------------------------------------------------
\* Governed review: what was shown or judged stays what counts, a decision
\* is never overtaken by evidence, the frozen truth is the evidence, and no
\* reader of a sealed batch had developed an evaluator when it froze.
ReviewKeepsItsEvidence ==
    /\ [](focus = "review" => /\ Review!TypeOK /\ Review!EvidenceStands
                             /\ Review!DecisionStands /\ Review!TruthIsTheEvidence)
    /\ [][focus = "sealed_review" => SealedReview!SealedStep]_vars

\* What a new version is tested on.  The golden set (repository.pg/golden-
\* evidence-repository.ts): the pointer of a criterion names the active
\* entries, each supported by a human verdict, and every version is bound
\* to what was recorded before it; a queue item waits for the verdict of
\* its own reviewer.  Trace tests: what is enabled says what a validation
\* examined and told apart, and nobody overwrites a revision they have not
\* seen.
TestsAndGoldenAreValidated ==
    /\ []( /\ focus = "golden" => Golden!TypeOK /\ Golden!PointerIsTheGoldenSet /\ Golden!EveryItemIsSupported
           /\ focus = "queue" => Queue!CompletedByItsReviewer
           /\ focus = "tests" => Tests!TypeOK /\ Tests!EnabledIsWhatWasValidated /\ Tests!NobodyIsOverwritten )
    /\ [][focus = "golden" => Golden!BindingStep]_vars

\* Dataset revisions (repository.pg/dataset-repository.ts): an import is
\* frozen whole or not at all, overlapping imports neither deadlock nor
\* mint a trace twice nor enter an archived collection, and a freeze is
\* answered with what it read under its key.
FreezesAreWhole ==
    /\ []( /\ focus = "imports" => /\ Imports!TypeOK /\ Imports!ImportIsFrozenWhole
                                  /\ Imports!ImportsDoNotDeadlock /\ Imports!OneCasePerTrace
           /\ focus = "freezes" => Freezes!KeysNeverCollide /\ Freezes!AnswerIsWhatWasRead )
    /\ [][focus = "imports" => Imports!ArchiveStep]_vars

=============================================================================

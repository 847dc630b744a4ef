--------------------------- MODULE MCEvaluators ---------------------------
(* The evaluators of a project, from the candidate version to the receipt  *)
(* of its runs: the dispatch outbox, the governed lifecycle, the           *)
(* regression gate, one provider call, assessment receipts and calibration *)
(* artifacts. They share no variable, so they are checked side by side: a  *)
(* behaviour follows the scenario that focus names and leaves the other    *)
(* components as they started.                                             *)
EXTENDS TLC

CONSTANTS
    Actors,    \* who acts: dispatchers, handlers, jobs, executions
    Subjects,  \* what they act on: keys, requests, items
    v1, v2, a1, b1,  \* versions and their artifacts
    r0, r1, r2, i0, e0, n0, n1,  \* runs, an item, an execution, a new receipt id
    Nobody, Lost, Null,
    \* bounds
    DispatchFaults, ConvergenceFaults, JobDeaths,
    ActivationCommands, ActivationFaults, RevocationCommands, RevocationFaults,
    GateRetries, GateFaults, GateCrashes, GateExpiries, GateLockLosses,
    CallFaults

VARIABLES
    focus,  \* the scenario this behaviour follows
    \* EvalDispatch
    run, job, dispatchD, dispatchFaults, deaths,
    \* EvaluatorLifecycle
    lifecycleChain, revoked, lifecycleExposed, grants, lifecycleLock, lifecycleH,
    asked, lifecycleFaults,
    \* RegressionGate
    status, rows, backfill, gateQ, gateW, gateLock, gateFaults, crashes, expiries,
    losses,
    \* EvaluatorCall
    protocol, pc, started, left, aborted, response, outcome, callFaults,
    \* AssessmentReceipts
    source, receiptsChain, copies, req, rowLock, receiptsX, receiptsFaults,
    \* CalibrationArtifact
    plan, truth, att, artifactExposed, state

dispatchVars == <<run, job, dispatchD, dispatchFaults, deaths>>
lifecycleVars == <<lifecycleChain, revoked, lifecycleExposed, grants, lifecycleLock, lifecycleH, asked, lifecycleFaults>>
gateVars == <<status, rows, backfill, gateQ, gateW, gateLock, gateFaults, crashes, expiries, losses>>
callVars == <<protocol, pc, started, left, aborted, response, outcome, callFaults>>
receiptsVars == <<source, receiptsChain, copies, req, rowLock, receiptsX, receiptsFaults>>
artifactVars == <<plan, truth, att, artifactExposed, state>>

OneOfEach == (a1 :> v1) @@ (b1 :> v2)

AllProtocols ==
    {"anthropic.structured-output/v1", "openai.structured-output/v1", "anthropic.forced-tool/v1",
     "openai.forced-function/v1", "prompted-json/v1 (anthropic)", "prompted-json/v1 (openai)",
     "typed-question/v1"}

-----------------------------------------------------------------------------
\* Two dispatchers of one run; a job may die, and so may dispatchers.
Dispatch == INSTANCE EvalDispatchProofs WITH
    Dispatchers <- Actors, Rotates <- TRUE, MaxFaults <- DispatchFaults,
    MaxDeaths <- JobDeaths,
    d <- dispatchD, faults <- dispatchFaults

\* The convergence route, which never rotates a job id.
Convergence == INSTANCE EvalDispatchProofs WITH
    Dispatchers <- Actors, Rotates <- FALSE, MaxFaults <- ConvergenceFaults,
    MaxDeaths <- JobDeaths,
    d <- dispatchD, faults <- dispatchFaults

\* Two owners create, activate and retire versions.
Activations == INSTANCE EvaluatorLifecycleProofs WITH
    Handlers <- Actors, Versions <- {v1, v2}, Artifacts <- {a1, b1},
    CalibrationOf <- OneOfEach, Keys <- Subjects, Candidates <- {v1},
    Kinds <- {"create", "activate", "retire"}, MaxCommands <- ActivationCommands,
    MaxFaults <- ActivationFaults, None <- Null, chain <- lifecycleChain, exposed <- lifecycleExposed,
    lock <- lifecycleLock, h <- lifecycleH, faults <- lifecycleFaults

\* Artifacts are revoked or exposed while versions are activated on them
\* and authorized.
Revocations == INSTANCE EvaluatorLifecycleProofs WITH
    Handlers <- Actors, Versions <- {v1, v2}, Artifacts <- {a1, b1},
    CalibrationOf <- OneOfEach, Keys <- Subjects, Candidates <- {v1, v2},
    Kinds <- {"activate", "revoke", "authorize", "expose"}, MaxCommands <- RevocationCommands,
    MaxFaults <- RevocationFaults, None <- Null, chain <- lifecycleChain,
    exposed <- lifecycleExposed, lock <- lifecycleLock, h <- lifecycleH,
    faults <- lifecycleFaults

\* Two gate jobs of one version, failed, crashed, expired and retried.
Gate == INSTANCE RegressionGate WITH
    Jobs <- Actors, Retries <- GateRetries, MaxFaults <- GateFaults,
    MaxCrashes <- GateCrashes, MaxExpiries <- GateExpiries,
    MaxLockLosses <- GateLockLosses, q <- gateQ, w <- gateW, lock <- gateLock,
    faults <- gateFaults

\* One call under every protocol, and everything that can come back.
Call == INSTANCE EvaluatorCall WITH
    Protocols <- AllProtocols, MaxFaults <- CallFaults, faults <- callFaults

\* One run, its receipt and two corrections at a time.
OneRun == INSTANCE AssessmentReceipts WITH
    Runs <- {r0}, Items <- {i0}, Results <- {"pass", "failure"},
    Evaluators <- {v1, v2}, NewIds <- {n0, n1}, Requests <- Subjects,
    Executions <- Actors, MaxFaults <- 1, chain <- receiptsChain, x <- receiptsX,
    faults <- receiptsFaults

\* Every receipt that the end of a run may build.
Built == INSTANCE AssessmentReceipts WITH
    Runs <- {r0}, Items <- Subjects,
    Results <- {"pass", "fail", "abstain", "failure", "not_attempted"},
    Evaluators <- {v1}, NewIds <- {}, Requests <- Subjects, Executions <- Actors,
    MaxFaults <- 0, chain <- receiptsChain, x <- receiptsX, faults <- receiptsFaults

\* Two runs whose corrections may want the same receipt id.
TwoRuns == INSTANCE AssessmentReceipts WITH
    Runs <- {r1, r2}, Items <- {i0}, Results <- {"pass", "failure"},
    Evaluators <- {v1}, NewIds <- {n0}, Requests <- Subjects, Executions <- {e0},
    MaxFaults <- 0, chain <- receiptsChain, x <- receiptsX, faults <- receiptsFaults

\* Every way the two calls of a calibration can end, under every plan.
Artifact == INSTANCE CalibrationArtifact WITH
    Items <- Subjects, Providers <- {"openrouter", "openai"},
    Kinds <- {"prompted", "typed-question"},
    Failures <- {"internal", "invalid_evaluator_output"}, None <- Null,
    exposed <- artifactExposed

ASSUME ConstantsAssumption ==
    /\ Dispatch!TokensAssumption
    /\ Dispatch!BoundsAssumption
    /\ Convergence!TokensAssumption
    /\ Convergence!BoundsAssumption
    /\ Activations!NamesAssumption
    /\ Activations!EvidenceAssumption
    /\ Activations!BoundsAssumption
    /\ Revocations!NamesAssumption
    /\ Revocations!EvidenceAssumption
    /\ Revocations!BoundsAssumption
    /\ Gate!BoundsAssumption
    /\ Gate!NobodyAssumption
    /\ Call!ProtocolsAssumption
    /\ Call!BoundsAssumption
    /\ OneRun!ResultsAssumption
    /\ OneRun!FaultsAssumption
    /\ OneRun!NoneAssumption
    /\ Built!ResultsAssumption
    /\ Built!FaultsAssumption
    /\ Built!NoneAssumption
    /\ TwoRuns!ResultsAssumption
    /\ TwoRuns!FaultsAssumption
    /\ TwoRuns!NoneAssumption
    /\ Artifact!NoneAssumption

-----------------------------------------------------------------------------
Init ==
    /\ focus \in {"dispatch", "convergence", "activations", "revocations", "gate",
                 "call", "one_run", "built", "two_runs", "artifact"}
    /\ IF focus = "dispatch" THEN Dispatch!Init
       ELSE Convergence!Init
    /\ IF focus = "activations" THEN Activations!Init
       ELSE Revocations!Init
    /\ Gate!Init
    /\ Call!Init
    /\ focus # "call" =>
          protocol = "typed-question/v1"
    /\ IF focus = "one_run" THEN OneRun!Init
       ELSE IF focus = "built" THEN Built!Init
       ELSE TwoRuns!Init
    /\ Artifact!Init
    /\ focus # "artifact" =>
          /\ plan = [provider |-> "openai", kind |-> "prompted", positive |-> "pass"]
          /\ truth = [i \in Subjects |-> "pass"] /\ ~artifactExposed

Step ==
    \/ focus = "dispatch" /\ Dispatch!Next
    \/ focus = "convergence" /\ Convergence!Next
    \/ focus = "activations" /\ Activations!Next
    \/ focus = "revocations" /\ Revocations!Next
    \/ focus = "gate" /\ Gate!Next
    \/ focus = "call" /\ Call!Next
    \/ focus = "one_run" /\ OneRun!Next
    \/ focus = "built" /\ Built!Next
    \/ focus = "two_runs" /\ TwoRuns!Next
    \/ focus = "artifact" /\ Artifact!Next

\* The components that the scenario does not follow stay as they are.
Others ==
    /\ UNCHANGED focus
    /\ focus \notin {"dispatch", "convergence"} => UNCHANGED dispatchVars
    /\ focus \notin {"activations", "revocations"} => UNCHANGED lifecycleVars
    /\ focus # "gate" => UNCHANGED gateVars
    /\ focus # "call" => UNCHANGED callVars
    /\ focus \notin {"one_run", "built", "two_runs"} => UNCHANGED receiptsVars
    /\ focus # "artifact" => UNCHANGED artifactVars

Next == Step /\ Others

vars == <<focus, dispatchVars, lifecycleVars, gateVars, callVars, receiptsVars,
          artifactVars>>

Spec == Init /\ [][Next]_vars

Symmetry ==
    Permutations(Actors) \cup Permutations(Subjects) \cup Permutations({r1, r2})

-----------------------------------------------------------------------------
\* The outbox of an evaluation run (workers/gate.ts): a job that can still
\* run is the one the row names, "ready" speaks of a job the queue
\* accepted, and nothing is queued after the run was marked dispatched.
DispatchIsExact ==
    /\ [](/\ focus = "dispatch" => Dispatch!TypeOK /\ Dispatch!LiveJobIsTheRecordedOne /\ Dispatch!ReadyMeansAccepted
          /\ focus = "convergence" => Convergence!TypeOK /\ Convergence!LiveJobIsTheRecordedOne /\ Convergence!ReadyMeansAccepted)
    /\ [][/\ focus = "dispatch" => Dispatch!QueuesNothingOnceDispatched
          /\ focus = "convergence" => Convergence!QueuesNothingOnceDispatched]_vars

\* What stands between a version and its use.  ADR-0010 (evaluator-
\* lifecycle/repository.pg.ts): one active version at most and none on a
\* revoked artifact, owners only follow what they were shown, repeats are
\* replayed and executions bind the head.  The regression gate
\* (runRegressionGateForVersion): while the connection of its advisory lock
\* lives one delivery judges a version, and the failure finalizer replaces
\* no outcome.
VersionsAreGoverned ==
    /\ [](/\ focus = "activations" => Activations!TypeOK /\ Activations!AtMostOneActive /\ Activations!RevokedIsNotActive
          /\ focus = "revocations" => Revocations!TypeOK /\ Revocations!AtMostOneActive /\ Revocations!RevokedIsNotActive
          /\ Gate!TypeOK /\ (losses = 0 => Gate!JudgingIsExclusive))
    /\ [][/\ focus = "activations" => Activations!FollowsWhatWasShown /\ Activations!ToldOfTheFirst
          /\ focus = "revocations" => Revocations!FollowsWhatWasShown /\ Revocations!ToldOfTheFirst
                                      /\ Revocations!GrantBindsTheHead]_vars
    /\ Gate!FinalizerNeverReplaces

\* A provider call (lib/evaluator): no request leaves before its durable
\* call-start, a failure is blamed on what caused it, a verdict is one
\* whole valid object, and reported usage is kept.
CallIsReportedAsItWas ==
    /\ Call!TypeOK /\ Call!EvidenceErrsTowardTheCall /\ Call!BlameIsDeserved
    /\ Call!VerdictIsTheWholeAnswer /\ Call!BilledIsRecorded

\* Assessment receipts: what a run builds passes the verifier, the root
\* says what the run ended as, an id names one receipt, and a stored
\* correction that is repeated is not refused.
ReceiptsVerify ==
    /\ []( /\ focus = "built" => Built!BuiltVerifies
           /\ focus = "one_run" => OneRun!TypeOK /\ OneRun!RootSpeaksForTheRun
           /\ focus = "two_runs" => TwoRuns!OneReceiptPerId )
    /\ [][focus = "one_run" => ~OneRun!StoredIsRefused]_vars

\* Calibration artifacts (lib/binary-calibration-v2.ts): whatever a run
\* accounted can be published, its rates are those of the items, and other
\* counts than the ledger's are refused.
ArtifactIsTheLedger ==
    /\ Artifact!TypeOK /\ Artifact!SpentRunsCanPublish /\ Artifact!CallsCanBeAccounted
    /\ Artifact!OtherCountsAreRefused /\ Artifact!RatesAreOfTheItems

=============================================================================

----------------------------- MODULE MCIntake -----------------------------
(* What comes in from outside: production outcome records, the poller and  *)
(* the imports of a connection, feedback that goes back, the imports that  *)
(* fill a project and the retention that prunes it, and the connection     *)
(* that lets an agent configure it. They share no variable, so they are    *)
(* checked side by side: a behaviour follows the scenario that focus names *)
(* and leaves the other components as they started.                        *)
EXTENDS TLC

CONSTANTS
    x1, x2,  \* requests, executions and processes under way
    y1, y2,  \* API keys, owners and connection tests
    home, away,  \* remote projects
    i0, o0,  \* a job, an owner
    Human,  \* whoever writes a version by hand
    Null,  \* no one
    \* of ProductionRecords
    IngestKeys, AppendRequests, RecordOwners, RecordSweepers, Batches, Periods,
    MaxTime, MaxResends, RecordFaults,
    \* of TraceRetention
    Identities, Evidence, Scaffolding, Importers, Pruners, Freezers,
    MaxCases, MaxPrunes, MaxFreezes,
    \* of AgentSetup
    Agents, Clicks, MaxPairings, MaxRequests, MaxImports, MaxEdits, SetupFaults

VARIABLES
    focus,  \* the scenario this behaviour follows
    \* ProductionRecords
    rows, tombs, revoked, purged, days, clock, req, taken, cmd, sweep, resends,
    recordsFaults,
    \* IronsideSync
    conn, due, poller, feed, skipped, remote, syncCases, syncW, syncO,
    syncChanges, syncFaults,
    \* FeedbackSync
    quarantined, own, status, prepared, written, feedbackD, feedbackT, parked,
    feedbackItems, feedbackChanges, feedbackFaults,
    \* TraceRetention
    project, retentionLock, identity, retentionCases, frozen, retentionItems,
    evalRun, importer, pruner, freezer, prunes,
    \* AgentSetup
    pairings, starter, imported, setupLock, versions, keys, agent, click, used,
    everClaimed

recordsVars == <<rows, tombs, revoked, purged, days, clock, req, taken, cmd, sweep, resends, recordsFaults>>
syncVars == <<conn, due, poller, feed, skipped, remote, syncCases, syncW, syncO, syncChanges, syncFaults>>
feedbackVars == <<quarantined, own, status, prepared, written, feedbackD, feedbackT, parked, feedbackItems, feedbackChanges, feedbackFaults>>
retentionVars == <<project, retentionLock, identity, retentionCases, frozen, retentionItems, evalRun, importer, pruner, freezer, prunes>>
setupVars == <<pairings, starter, imported, setupLock, versions, keys, agent, click, used, everClaimed>>

Decision(d, c) == [kind |-> "decision", decision |-> d, content |-> c]

\* Batches that insert the same records in different orders.
Crossed == {<<Decision(1, 1), Decision(2, 1)>>, <<Decision(2, 1), Decision(1, 2)>>,
            <<[kind |-> "outcome", decision |-> 1, content |-> 0]>>}

-----------------------------------------------------------------------------
\* Requests that append, owners who erase and purge, and retention.
Records == INSTANCE ProductionRecords WITH
    Keys <- IngestKeys, Requests <- AppendRequests, Owners <- RecordOwners,
    Sweepers <- RecordSweepers, MaxFaults <- RecordFaults, faults <- recordsFaults

\* Two imports of one connection overlap over two versions, each of which
\* may be one the import skips, and the remote takes one back.
Imports == INSTANCE IronsideSync WITH
    Workers <- {x1, x2}, Owners <- {}, Projects <- {home}, Home <- home,
    Positions <- 2, PollLimit <- 2, MaxConnections <- 1, MaxRevision <- 2,
    MaxRemote <- 1, MaxFaults <- 1, cases <- syncCases, w <- syncW, o <- syncO,
    changes <- syncChanges, faults <- syncFaults

\* An import and two requests of owners, while the credential changes its
\* project.
Quarantine == INSTANCE IronsideSync WITH
    Workers <- {x1}, Owners <- {y1, y2}, Projects <- {home, away}, Home <- home,
    Positions <- 0, PollLimit <- 1, MaxConnections <- 2, MaxRevision <- 2,
    MaxRemote <- 1, MaxFaults <- 0, cases <- syncCases, w <- syncW, o <- syncO,
    changes <- syncChanges, faults <- syncFaults

\* Two deliveries of one job and a connection test.
Feedback == INSTANCE FeedbackSync WITH
    Jobs <- {i0}, Deliveries <- {x1, x2}, Tests <- {y1}, Retries <- 1,
    MaxItems <- 2, MaxChanges <- 2, MaxFaults <- 1, d <- feedbackD, t <- feedbackT,
    items <- feedbackItems, changes <- feedbackChanges, faults <- feedbackFaults

\* Imports, prunings and freezings of one project.
Retention == INSTANCE TraceRetentionProofs WITH
    None <- Null, lock <- retentionLock, cases <- retentionCases,
    items <- retentionItems

\* Agents, and clicks of the owner.
Setup == INSTANCE AgentSetupProofs WITH
    MaxFaults <- SetupFaults, None <- Null, lock <- setupLock

ASSUME ConstantsAssumption ==
    /\ Records!BatchesAssumption
    /\ Records!BoundsAssumption
    /\ Imports!ConstantsAssumption
    /\ Quarantine!ConstantsAssumption
    /\ Feedback!BoundsAssumption
    /\ Feedback!NoJobAssumption
    /\ Retention!KindsAssumption
    /\ Retention!NamesAssumption
    /\ Retention!BoundsAssumption
    /\ Setup!NamesAssumption
    /\ Setup!BoundsAssumption

-----------------------------------------------------------------------------
Init ==
    /\ focus \in {"records", "imports", "quarantine", "feedback", "retention",
                 "setup"}
    /\ Records!Init
    /\ IF focus = "imports" THEN Imports!Init
       ELSE Quarantine!Init
    /\ Feedback!Init
    /\ Retention!Init
    /\ Setup!Init

Step ==
    \/ focus = "records" /\ Records!Next
    \/ focus = "imports" /\ Imports!Next
    \/ focus = "quarantine" /\ Quarantine!Next
    \/ focus = "feedback" /\ Feedback!Next
    \/ focus = "retention" /\ Retention!Next
    \/ focus = "setup" /\ Setup!Next

\* The components that the scenario does not follow stay as they are.
Others ==
    /\ UNCHANGED focus
    /\ focus # "records" => UNCHANGED recordsVars
    /\ focus \notin {"imports", "quarantine"} => UNCHANGED syncVars
    /\ focus # "feedback" => UNCHANGED feedbackVars
    /\ focus # "retention" => UNCHANGED retentionVars
    /\ focus # "setup" => UNCHANGED setupVars

Next == Step /\ Others

vars == <<focus, recordsVars, syncVars, feedbackVars, retentionVars, setupVars>>

Spec == Init /\ [][Next]_vars

Symmetry ==
    Permutations({x1, x2}) \cup Permutations({y1, y2})

-----------------------------------------------------------------------------
\* Production records: what is erased stays erased, a purged key sends
\* nothing, two batches never wait for each other, and a batch is answered
\* only when its records are stored.
RecordsStayAnswerable ==
    /\ [](/\ Records!TypeOK /\ Records!ErasedStaysErased
          /\ Records!PurgedSendsNothing /\ Records!AppendsDoNotDeadlock)
    /\ Records!AnsweredIsStored

\* A connection: its cursor passes a trace only when it is a case with
\* judging work, or one the import skips, which is no case at all; it never
\* moves back, a quarantine never undoes a later revalidation, and feedback
\* marked synced is stored upstream.
FeedReachesTheCases ==
    /\ [](/\ focus = "imports" => Imports!NothingIsSkipped
          /\ focus = "quarantine" => Quarantine!TypeOK
          /\ Feedback!TypeOK /\ Feedback!SyncedIsWritten)
    /\ [][/\ focus = "imports" => Imports!CursorStep
          /\ focus = "quarantine" => Quarantine!RevalidationStep]_vars

\* A project: its counter is the number of its live cases, evidence
\* outlives retention, it has one live connection, an agent configures the
\* untouched project only, and a completed connection has configured it.
ProjectHoldsWhatItCounts ==
    /\ Retention!TypeOK /\ Retention!ImportsAreCountedOnce /\ Retention!EvidenceIsKept
    /\ Setup!TypeOK /\ Setup!OneLiveConnection
    /\ Setup!AgentConfiguresTheStarter /\ Setup!CompletedIsConfigured

=============================================================================

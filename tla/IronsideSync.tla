---------------------------- MODULE IronsideSync ----------------------------
(***************************************************************************)
(* The Ironside connection of one project: the poller and owners who send  *)
(* import jobs, the import worker that walks the remote feed under an      *)
(* opaque cursor, and the checks that keep a connection on the remote      *)
(* project it was made for.                                                *)
(*                                                                         *)
(* Source: workers/ironside-import.ts, workers/ironside-poller.ts,         *)
(* repository.pg/integration-repository.ts, trace-import-commands.ts and   *)
(* the Ironside routes of routes/integration-administration.ts.            *)
(*                                                                         *)
(* A feed is a row of positions, one trace version each; a cursor is the   *)
(* last position it has passed, 0 for null.  The remote is external: it    *)
(* publishes versions, some of which the import skips (traces of an        *)
(* evaluator, traces beyond the size of a case), takes them back for a     *)
(* while or for good, and the credential may come to belong to another of  *)
(* its projects.  EvalDispatch goes on where an imported case gets its     *)
(* run; the import_jobs rows, a progress record nothing decides on, are    *)
(* left out.                                                               *)
(***************************************************************************)
EXTENDS Integers, Sequences, SequencesExt, FiniteSetsExt

CONSTANTS
  Workers,        \* executions of ironside.import
  Owners,         \* connection tests and settings changes of owners
  Projects,       \* remote projects the credential may belong to
  Home,           \* the one it belongs to at first, with the traces
  Positions,      \* bound: length of the feed
  PollLimit,      \* traces per import job
  MaxConnections, \* bound: times the connection is made
  MaxRevision,    \* bound: no test is started at this revision or later
  MaxRemote,      \* bound: versions taken back and projects changed
  MaxFaults       \* bound: failed statements and requests, crashes

ConstantsAssumption ==
  /\ Home \in Projects /\ Positions \in Nat /\ PollLimit \in Nat \ {0}
  /\ MaxConnections \in Nat \ {0} /\ MaxRevision \in Nat /\ MaxRemote \in Nat /\ MaxFaults \in Nat

VARIABLES
  conn,     \* the integrations row
  due,      \* last_polled_at is an interval ago
  poller,   \* the poller between its claim and its send
  feed,     \* the remote feed of Home
  skipped,  \* versions in it that are recursive or too large for a case
  remote,   \* the project the credential belongs to
  cases,    \* cases of Home's positions, and whether judging them is queued
  w,        \* import executions
  o,        \* owners' requests
  changes, faults

vars == <<conn, due, poller, feed, skipped, remote, cases, w, o, changes, faults>>
external == <<feed, skipped, remote, changes>>

None == [pc |-> "idle", id |-> 0, project |-> Home, rev |-> 0, stale |-> FALSE]
Idle == None @@ [start |-> 0, cursor |-> 0, page |-> 0, scanned |-> 0, ids |-> <<>>, drained |-> FALSE]

Published == {p \in 1 .. Positions : feed[p] # "unpublished"}

Init ==
  /\ conn = [id |-> 1, present |-> TRUE, project |-> Home, rev |-> 1,
             quarantined |-> FALSE, polling |-> TRUE, cursor |-> 0]
  /\ due = TRUE /\ poller = "idle"
  /\ feed = [p \in 1 .. Positions |-> "unpublished"] /\ skipped = {} /\ remote = Home
  /\ cases = [p \in 1 .. Positions |-> "none"]
  /\ w = [x \in Workers |-> Idle] /\ o = [x \in Owners |-> None]
  /\ changes = 0 /\ faults = 0

Is(id) == conn.present /\ conn.id = id
(* The compare-and-set of quarantine and update: the row as the context had it. *)
Unchanged(c) == Is(c.id) /\ conn.project = c.project /\ conn.rev = c.rev
Goto(x, pc) == w' = [w EXCEPT ![x].pc = pc]

-----------------------------------------------------------------------------
(* The remote.                                                             *)

Publish ==
  /\ \E p \in (1 .. Positions) \ Published :
       /\ \A q \in 1 .. (p - 1) : q \in Published
       /\ feed' = [feed EXCEPT ![p] = "settled"]
       /\ skipped' \in {skipped, skipped \cup {p}}
  /\ UNCHANGED <<conn, due, poller, remote, cases, w, o, changes, faults>>

TakeBack(p) ==
  /\ feed[p] = "settled" /\ changes < MaxRemote /\ changes' = changes + 1
  /\ \E s \in {"unsettled", "gone"} : feed' = [feed EXCEPT ![p] = s]
  /\ UNCHANGED <<conn, due, poller, skipped, remote, cases, w, o, faults>>

Settle(p) ==
  /\ feed[p] = "unsettled"
  /\ feed' = [feed EXCEPT ![p] = "settled"]
  /\ UNCHANGED <<conn, due, poller, skipped, remote, cases, w, o, changes, faults>>

ChangeProject(project) ==
  /\ remote # project /\ changes < MaxRemote /\ changes' = changes + 1
  /\ remote' = project
  /\ UNCHANGED <<conn, due, poller, feed, skipped, cases, w, o, faults>>

-----------------------------------------------------------------------------
(* Sending import jobs.                                                    *)

Interval ==
  /\ ~due /\ due' = TRUE
  /\ UNCHANGED <<conn, poller, external, cases, w, o, faults>>

ClaimDueTargets ==
  /\ poller = "idle" /\ due /\ conn.present /\ conn.polling /\ ~conn.quarantined
  /\ due' = FALSE /\ poller' = "claimed"
  /\ UNCHANGED <<conn, external, cases, w, o, faults>>

Sent(x) == w' = [w EXCEPT ![x] = [Idle EXCEPT !.pc = "sent", !.id = conn.id]]

EnqueueDueImports(x) ==
  /\ poller = "claimed" /\ w[x].pc = "idle"
  /\ Sent(x) /\ poller' = "idle"
  /\ UNCHANGED <<conn, due, external, cases, o, faults>>

RequestImport(x) ==
  /\ w[x].pc = "idle" /\ conn.present /\ ~conn.quarantined
  /\ Sent(x)
  /\ UNCHANGED <<conn, due, poller, external, cases, o, faults>>

-----------------------------------------------------------------------------
(* The import worker.                                                      *)

Drop(x) == w' = [w EXCEPT ![x] = Idle]
Retry(x) == w' = [w EXCEPT ![x] = [Idle EXCEPT !.pc = "sent", !.id = w[x].id]]

LoadContext(x) ==
  /\ w[x].pc = "sent"
  /\ IF Is(w[x].id) /\ ~conn.quarantined
     THEN w' = [w EXCEPT ![x] = [Idle EXCEPT !.pc = "identity", !.id = conn.id,
                  !.project = conn.project, !.rev = conn.rev, !.start = conn.cursor, !.cursor = conn.cursor]]
     ELSE Drop(x)
  /\ UNCHANGED <<conn, due, poller, external, cases, o, faults>>

CheckIdentity(x) ==
  /\ w[x].pc = "identity"
  /\ Goto(x, IF remote = w[x].project THEN "list" ELSE "quarantine")
  /\ UNCHANGED <<conn, due, poller, external, cases, o, faults>>

Quarantined == [conn EXCEPT !.quarantined = TRUE, !.polling = FALSE, !.rev = @ + 1]

QuarantineById(x) ==    \* Faulty variant: the row is not compared with the context
  /\ w[x].pc = "quarantine"
  /\ IF Is(w[x].id) THEN conn' = Quarantined ELSE UNCHANGED conn
  /\ Drop(x)
  /\ UNCHANGED <<due, poller, external, cases, o, faults>>
Quarantine(x) ==
  /\ w[x].pc = "quarantine"
  /\ IF Unchanged(w[x]) THEN conn' = Quarantined /\ Drop(x)
     ELSE /\ UNCHANGED conn
          /\ IF Is(w[x].id) THEN Retry(x) ELSE Drop(x)
  /\ UNCHANGED <<due, poller, external, cases, o, faults>>

(* The project changed under the walk: the remote refuses its cursor. *)
Refused(x) ==
  /\ w[x].pc \in {"list", "detail"} /\ remote # w[x].project
  /\ Retry(x)
  /\ UNCHANGED <<conn, due, poller, external, cases, o, faults>>

(* Skipped traces count towards the limit of a job too. *)
Full(x) == w[x].drained \/ w[x].scanned >= PollLimit

(* A page of one trace.  A list that finds no settled trace returns the    *)
(* cursor moved past the versions that are gone, and nothing more to come. *)
Ahead(c) == {p \in Published : p > c /\ feed[p] # "gone"}
ListTraces(x) ==
  /\ w[x].pc = "list" /\ ~Full(x) /\ remote = w[x].project
  /\ LET rest == IF w[x].project = Home THEN Ahead(w[x].cursor) ELSE {}
         p == Min(rest)
         end == IF rest # {} THEN p - 1
                ELSE IF w[x].project = Home THEN Max({w[x].cursor} \cup Published) ELSE w[x].cursor
     IN IF rest # {} /\ feed[p] = "settled"
        THEN w' = [w EXCEPT ![x].pc = "detail", ![x].page = p]
        ELSE w' = [w EXCEPT ![x].pc = "schedule", ![x].cursor = end, ![x].drained = TRUE]
  /\ UNCHANGED <<conn, due, poller, external, cases, o, faults>>

(* The wall-clock budget outlasts the first trace of a job. *)
Deadline(x) ==
  /\ w[x].pc \in {"list", "detail"} /\ w[x].scanned > 0
  /\ Goto(x, "schedule")
  /\ UNCHANGED <<conn, due, poller, external, cases, o, faults>>

(* getTrace; a 404 or 409 ends the walk at the start of the page. *)
GetTrace(x) ==
  /\ w[x].pc = "detail" /\ remote = w[x].project
  /\ w' = [w EXCEPT ![x].scanned = @ + 1,
                    ![x].pc = IF feed[w[x].page] = "settled" THEN "import" ELSE "schedule"]
  /\ UNCHANGED <<conn, due, poller, external, cases, o, faults>>

(* importTrace: a trace that is skipped is neither a case nor work, and    *)
(* the page goes on; any other is one case per source identity, new or     *)
(* not; it names the connection, so it fails when that is gone.            *)
Imported(x, ids) ==
  w' = [w EXCEPT ![x].pc = "list", ![x].ids = ids, ![x].cursor = w[x].page,
                 ![x].drained = Ahead(w[x].page) = {}]
Skip(x) == w[x].page \in skipped /\ Imported(x, w[x].ids) /\ UNCHANGED cases
MakeCase(x) == cases' = [cases EXCEPT ![w[x].page] = IF @ = "none" THEN "imported" ELSE @]

ImportOnlyNew(x) ==    \* Faulty variant: only cases it created are judged
  /\ w[x].pc = "import"
  /\ \/ Skip(x)
     \/ /\ w[x].page \notin skipped /\ Is(w[x].id) /\ MakeCase(x)
        /\ Imported(x, IF cases[w[x].page] = "none" THEN Append(w[x].ids, w[x].page) ELSE w[x].ids)
  /\ UNCHANGED <<conn, due, poller, external, o, faults>>
ImportFlattened(x) ==    \* Faulty variant: what fits of a larger trace is a case
  /\ w[x].pc = "import" /\ Is(w[x].id) /\ MakeCase(x)
  /\ Imported(x, Append(w[x].ids, w[x].page))
  /\ UNCHANGED <<conn, due, poller, external, o, faults>>
ImportTrace(x) ==
  /\ w[x].pc = "import"
  /\ \/ Skip(x)
     \/ /\ w[x].page \notin skipped /\ Is(w[x].id) /\ MakeCase(x)
        /\ Imported(x, Append(w[x].ids, w[x].page))
     \/ w[x].page \notin skipped /\ ~Is(w[x].id) /\ Retry(x) /\ UNCHANGED cases
  /\ UNCHANGED <<conn, due, poller, external, o, faults>>

EndWalk(x) ==
  /\ w[x].pc = "list" /\ Full(x)
  /\ Goto(x, "schedule")
  /\ UNCHANGED <<conn, due, poller, external, cases, o, faults>>

(* scheduleImportedCaseJudging, case by case. *)
ScheduleJudging(x) ==
  /\ w[x].pc = "schedule"
  /\ IF w[x].ids = <<>> THEN Goto(x, "save") /\ UNCHANGED cases
     ELSE /\ cases' = [cases EXCEPT ![Head(w[x].ids)] = "scheduled"]
          /\ w' = [w EXCEPT ![x].ids = Tail(@)]
  /\ UNCHANGED <<conn, due, poller, external, o, faults>>

(* saveIronsideSyncState compares the cursor with the one the walk began   *)
(* at; a lost comparison is no error.                                      *)
SaveAnyway(x) ==    \* Faulty variant: the last to save wins
  /\ w[x].pc = "save"
  /\ conn' = IF Is(w[x].id) THEN [conn EXCEPT !.cursor = w[x].cursor] ELSE conn
  /\ Drop(x)
  /\ UNCHANGED <<due, poller, external, cases, o, faults>>
SaveSyncState(x) ==
  /\ w[x].pc = "save"
  /\ conn' = IF Is(w[x].id) /\ conn.cursor = w[x].start THEN [conn EXCEPT !.cursor = w[x].cursor] ELSE conn
  /\ Drop(x)
  /\ UNCHANGED <<due, poller, external, cases, o, faults>>

-----------------------------------------------------------------------------
(* Owners.                                                                 *)

Answered(x) == o' = [o EXCEPT ![x] = None]
Reads(x, pc) ==
  /\ o[x].pc = "idle" /\ conn.present
  /\ o' = [o EXCEPT ![x] = [None EXCEPT !.pc = pc, !.id = conn.id, !.project = conn.project, !.rev = conn.rev]]
  /\ UNCHANGED <<conn, due, poller, external, cases, w, faults>>

(* A connection test: the context, the live identity, and the outcome. *)
ReadForTest(x) == conn.rev < MaxRevision /\ Reads(x, "test")
TestConnection(x) ==
  /\ o[x].pc = "test"
  /\ o' = [o EXCEPT ![x].pc = IF remote = o[x].project THEN "revalidate" ELSE "quarantine"]
  /\ UNCHANGED <<conn, due, poller, external, cases, w, faults>>

Outdate(xs) == [x \in DOMAIN xs |-> IF xs[x].pc \in {"identity", "test", "quarantine"}
                                    THEN [xs[x] EXCEPT !.stale = TRUE] ELSE xs[x]]
RecordTest(x) ==
  /\ o[x].pc = "revalidate"
  /\ IF Unchanged(o[x])
     THEN /\ conn' = [conn EXCEPT !.quarantined = FALSE, !.rev = @ + 1]
          /\ w' = Outdate(w) /\ o' = [Outdate(o) EXCEPT ![x] = None]
     ELSE Answered(x) /\ UNCHANGED <<conn, w>>
  /\ UNCHANGED <<due, poller, external, cases, faults>>
RecordMismatch(x) ==
  /\ o[x].pc = "quarantine"
  /\ conn' = IF Unchanged(o[x]) THEN Quarantined ELSE conn
  /\ Answered(x)
  /\ UNCHANGED <<due, poller, external, cases, w, faults>>

(* Enabling or disabling polling compares the same fields. *)
ReadForPolling(x) == ~conn.quarantined /\ Reads(x, "polling")
SetPolling(x) ==
  /\ o[x].pc = "polling"
  /\ conn' = IF Unchanged(o[x]) /\ ~conn.quarantined THEN [conn EXCEPT !.polling = ~@] ELSE conn
  /\ Answered(x)
  /\ UNCHANGED <<due, poller, external, cases, w, faults>>

Disconnect ==
  /\ conn.present /\ conn.id < MaxConnections
  /\ conn' = [conn EXCEPT !.present = FALSE]
  /\ UNCHANGED <<due, poller, external, cases, w, o, faults>>
Connect ==
  /\ ~conn.present
  /\ conn' = [id |-> conn.id + 1, present |-> TRUE, project |-> remote, rev |-> 1,
              quarantined |-> FALSE, polling |-> TRUE, cursor |-> 0]
  /\ UNCHANGED <<due, poller, external, cases, w, o, faults>>

-----------------------------------------------------------------------------
(* A failed statement or request, an expired or crashed execution: the     *)
(* queue delivers the job again until its retries are spent.  A poller     *)
(* that dies after its claim has lost that interval.                       *)
Fault ==
  /\ faults < MaxFaults /\ faults' = faults + 1
  /\ \/ \E x \in Workers : w[x].pc # "idle" /\ (Retry(x) \/ Drop(x)) /\ UNCHANGED poller
     \/ poller = "claimed" /\ poller' = "idle" /\ UNCHANGED w
  /\ UNCHANGED <<conn, due, external, cases, o>>

ImportStep(x) ==
  \/ LoadContext(x) \/ CheckIdentity(x) \/ Quarantine(x) \/ Refused(x) \/ ListTraces(x)
  \/ Deadline(x) \/ GetTrace(x) \/ ImportTrace(x) \/ EndWalk(x) \/ ScheduleJudging(x) \/ SaveSyncState(x)
OwnerStep(x) == TestConnection(x) \/ RecordTest(x) \/ RecordMismatch(x) \/ SetPolling(x)

Next ==
  \/ Publish \/ \E p \in 1 .. Positions : TakeBack(p) \/ Settle(p)
  \/ \E j \in Projects : ChangeProject(j)
  \/ Interval \/ ClaimDueTargets
  \/ \E x \in Workers : EnqueueDueImports(x) \/ RequestImport(x) \/ ImportStep(x)
  \/ \E x \in Owners : ReadForTest(x) \/ ReadForPolling(x) \/ OwnerStep(x)
  \/ Disconnect \/ Connect \/ Fault

Spec == Init /\ [][Next]_vars

-----------------------------------------------------------------------------
(* Every variable keeps its type, and a quarantined connection is not polled. *)
TypeOK ==
  /\ conn.id \in 1 .. MaxConnections /\ conn.cursor \in 0 .. Positions
  /\ conn.project \in Projects /\ remote \in Projects
  /\ \A x \in Workers : w[x].page \in 0 .. Positions /\ w[x].start <= w[x].cursor
  /\ conn.quarantined => ~conn.polling

(* The cursor is committed only after every trace it passes is a case with *)
(* durable judging work, unless the remote has retained it away; a trace   *)
(* that is recursive or beyond the size of a case is passed explicitly and *)
(* never becomes a case, so nothing is assessed over a part of a trace.    *)
NothingIsSkipped ==
  conn.project = Home =>
    \A p \in 1 .. conn.cursor : feed[p] # "gone" =>
      cases[p] = IF p \in skipped THEN "none" ELSE "scheduled"

(* A slower, stale import never moves the connection back behind a cursor  *)
(* a newer one has saved.                                                  *)
CursorStep == conn'.id = conn.id => conn'.cursor >= conn.cursor
CursorNeverGoesBack == [][CursorStep]_vars

(* A connection is quarantined only by an identity check whose context was *)
(* read after the last successful revalidation.                            *)
RevalidationStep ==
  conn'.id = conn.id /\ ~conn.quarantined /\ conn'.quarantined =>
    \/ \E x \in Workers : w[x].pc = "quarantine" /\ w'[x].pc # "quarantine" /\ ~w[x].stale
    \/ \E x \in Owners : o[x].pc = "quarantine" /\ o'[x].pc = "idle" /\ ~o[x].stale
RevalidationStands == [][RevalidationStep]_vars
=============================================================================

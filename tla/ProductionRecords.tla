------------------------- MODULE ProductionRecords -------------------------
(***************************************************************************)
(* The production outcome records of one project: batches appended by      *)
(* producers with an API key, and the three ways a record leaves again:    *)
(* erasure of a decision, purge of a revoked key, and the retention sweep. *)
(*                                                                         *)
(* Source: production-calibration/repository.pg.ts, ingest-routes.ts and   *)
(* retention.ts, repository.pg/api-key-repository.ts, and the insert guard *)
(* of production_decision_records in the baseline migration.               *)
(*                                                                         *)
(* Every action is one statement of a READ COMMITTED transaction, so each  *)
(* sees what is committed when it runs.  Appends share the record lock,    *)
(* erasures and purges take it alone, and the sweep does not take it.      *)
(* A record is its kind, its decision and its content; the checks on its   *)
(* form, size and future date, the audit rows and the record budgets are   *)
(* left out.                                                               *)
(***************************************************************************)
EXTENDS Integers, FiniteSets, SequencesExt

CONSTANTS
  Keys,          \* ingest API keys of the project
  Requests,      \* append requests
  Owners,        \* erasure and purge commands of owners
  Sweepers,      \* API processes, each with a retention timer
  Batches,       \* the sequences of records a request may carry
  Periods,       \* the retention periods an owner may set
  MaxTime,       \* bound: the clock stops here
  MaxResends,    \* bound: how often requests are sent again
  MaxFaults      \* bound: transactions that fail or die with their process

None == "none"
Kinds == {"decision", "outcome"}
BatchRecords == UNION {ToSet(b) : b \in Batches}
DecisionsOf(recs) == {r.decision : r \in recs}

Record == [kind : Kinds, decision : Nat, content : Nat]

BatchesAssumption == Batches \subseteq Seq(Record)
BoundsAssumption ==
  /\ Periods \subseteq Nat /\ Periods # {}
  /\ MaxTime \in Nat /\ MaxResends \in Nat /\ MaxFaults \in Nat

VARIABLES
  rows,      \* committed rows: the record, the key that sent it, its receive time
  tombs,     \* decisions with a tombstone
  revoked,   \* keys with revoked_at set
  purged,    \* keys whose purge has committed (history)
  days,      \* production_record_retention_days
  clock,
  req,       \* append requests: pc, key, batch, begin time, rows inserted, rest
  taken,     \* records retention deleted while a request was in its transaction (history)
  cmd,       \* owner commands: pc, operation, argument, rows deleted
  sweep,     \* sweepers: pc and rows deleted
  resends,
  faults

vars == <<rows, tombs, revoked, purged, days, clock, req, taken, cmd, sweep, resends, faults>>
table == <<rows, tombs, revoked, purged>>
time == <<days, clock>>

Row == [rec : BatchRecords, by : Keys, at : 0 .. MaxTime]
Idle == [pc |-> "idle", key |-> None, batch |-> <<>>, at |-> 0, in |-> {}, rest |-> <<>>]

Init ==
  /\ rows = {} /\ tombs = {} /\ revoked = {} /\ purged = {}
  /\ days \in Periods /\ clock = 0
  /\ req = [q \in Requests |-> Idle]
  /\ taken = [q \in Requests |-> {}]
  /\ cmd = [o \in Owners |-> [pc |-> "idle", op |-> None, arg |-> None, del |-> {}]]
  /\ sweep = [w \in Sweepers |-> [pc |-> "idle", del |-> {}]]
  /\ resends = 0 /\ faults = 0

-----------------------------------------------------------------------------
(* The order in which every batch inserts: decisions first, by their id,   *)
(* then the rest by content; exact repeats are dropped.                    *)
Before(r, s) ==
  \/ r.kind = "decision" /\ s.kind # "decision"
  \/ /\ r.kind = s.kind
     /\ r.decision < s.decision \/ (r.decision = s.decision /\ r.content < s.content)
Submitted(batch) == batch    \* Faulty variant: the order of the request
InsertOrder(batch) ==
  CHOOSE s \in SetToSeqs(ToSet(batch)) : \A i, j \in DOMAIN s : i < j => Before(s[i], s[j])

(* The unique keys of the table: a decision id, and a content digest. *)
Collide(r, s) == r = s \/ (r.kind = "decision" /\ s.kind = "decision" /\ r.decision = s.decision)

InTransaction == {q \in Requests : req[q].pc \in {"locked", "keyed", "insert", "checked"}}
Exclusive == {o \in Owners : cmd[o].pc \in {"locked", "deleted"}}
Deleting == (UNION {cmd[o].del : o \in Owners}) \cup (UNION {sweep[w].del : w \in Sweepers})

Holds(b, r) == \E x \in req[b].in : Collide(x.rec, r)
WaitsFor(q, b) == q # b /\ req[q].pc = "insert" /\ req[q].rest # <<>> /\ Holds(b, Head(req[q].rest))

-----------------------------------------------------------------------------
(* An append.                                                              *)

(* resolveApiKey answers before the transaction begins. *)
Authenticate(q, k, batch) ==
  /\ req[q].pc = "idle" /\ k \notin revoked
  /\ req' = [req EXCEPT ![q] = [Idle EXCEPT !.pc = "authenticated", !.key = k, !.batch = batch]]
  /\ UNCHANGED <<table, time, taken, cmd, sweep, resends, faults>>

(* begin: now() of the whole transaction, and with it received_at, is this moment. *)
Begin(q) ==
  /\ req[q].pc = "authenticated"
  /\ req' = [req EXCEPT ![q].pc = "begun", ![q].at = clock]
  /\ taken' = [taken EXCEPT ![q] = {}]
  /\ UNCHANGED <<table, time, cmd, sweep, resends, faults>>

LockUnasked(q) ==    \* Faulty variant: the record lock is not taken
  /\ req[q].pc = "begun"
  /\ req' = [req EXCEPT ![q].pc = "locked"]
  /\ UNCHANGED <<table, time, taken, cmd, sweep, resends, faults>>
Lock(q) ==
  /\ req[q].pc = "begun" /\ Exclusive = {}
  /\ req' = [req EXCEPT ![q].pc = "locked"]
  /\ UNCHANGED <<table, time, taken, cmd, sweep, resends, faults>>

Refuse(q) ==
  /\ req' = [req EXCEPT ![q] = [@ EXCEPT !.pc = "refused", !.in = {}, !.rest = <<>>]]
  /\ UNCHANGED <<table, time, taken, cmd, sweep, resends, faults>>

(* rejectRevokedKey *)
CheckKeyUnread(q) ==    \* Faulty variant: the key is trusted as authenticated
  /\ req[q].pc = "locked"
  /\ req' = [req EXCEPT ![q].pc = "keyed"]
  /\ UNCHANGED <<table, time, taken, cmd, sweep, resends, faults>>
CheckKey(q) ==
  /\ req[q].pc = "locked"
  /\ IF req[q].key \in revoked THEN Refuse(q)
     ELSE /\ req' = [req EXCEPT ![q].pc = "keyed"]
          /\ UNCHANGED <<table, time, taken, cmd, sweep, resends, faults>>

(* rejectErasedDecisions *)
CheckErased(q) ==
  /\ req[q].pc = "keyed"
  /\ IF DecisionsOf(ToSet(req[q].batch)) \cap tombs # {} THEN Refuse(q)
     ELSE /\ req' = [req EXCEPT ![q].pc = "insert", ![q].rest = InsertOrder(req[q].batch)]
          /\ UNCHANGED <<table, time, taken, cmd, sweep, resends, faults>>

(* One row of the insert.  It waits for a row under the same unique key    *)
(* that another transaction has inserted or is deleting; a committed one   *)
(* makes it a no-op.  The insert guard looks for the tombstone once more.  *)
InsertRow(q) ==
  /\ req[q].pc = "insert" /\ req[q].rest # <<>>
  /\ LET r == Head(req[q].rest)
         stored == {x \in rows : Collide(x.rec, r)}
     IN
     /\ \A b \in Requests : ~WaitsFor(q, b)
     /\ stored \cap Deleting = {}
     /\ IF r.decision \in tombs THEN Refuse(q)
        ELSE /\ req' = [req EXCEPT
                  ![q].rest = Tail(@),
                  ![q].in = IF stored = {} THEN @ \cup {[rec |-> r, by |-> req[q].key, at |-> req[q].at]}
                            ELSE @]
             /\ UNCHANGED <<table, time, taken, cmd, sweep, resends, faults>>

(* rejectConflictingDecisions, after the insert, on what is stored by then. *)
CheckConflictsUnseen(q) ==    \* Faulty variant: only its own rows are compared
  /\ req[q].pc = "insert" /\ req[q].rest = <<>>
  /\ req' = [req EXCEPT ![q].pc = "checked"]
  /\ UNCHANGED <<table, time, taken, cmd, sweep, resends, faults>>
CheckConflicts(q) ==
  /\ req[q].pc = "insert" /\ req[q].rest = <<>>
  /\ IF \E r \in ToSet(req[q].batch), x \in rows : Collide(x.rec, r) /\ x.rec # r THEN Refuse(q)
     ELSE /\ req' = [req EXCEPT ![q].pc = "checked"]
          /\ UNCHANGED <<table, time, taken, cmd, sweep, resends, faults>>

CommitAppend(q) ==
  /\ req[q].pc = "checked"
  /\ rows' = rows \cup req[q].in
  /\ req' = [req EXCEPT ![q] = [@ EXCEPT !.pc = "stored", !.in = {}]]
  /\ UNCHANGED <<tombs, revoked, purged, time, taken, cmd, sweep, resends, faults>>

(* A producer that was refused, or whose answer was lost, sends the batch again. *)
Resend(q) ==
  /\ req[q].pc \in {"stored", "refused"} /\ resends < MaxResends
  /\ req[q].key \notin revoked
  /\ req' = [req EXCEPT ![q] = [@ EXCEPT !.pc = "authenticated", !.at = 0]]
  /\ resends' = resends + 1
  /\ UNCHANGED <<table, time, taken, cmd, sweep, faults>>

-----------------------------------------------------------------------------
(* Owners.                                                                 *)

RevokeApiKey(k) ==
  /\ k \notin revoked
  /\ revoked' = revoked \cup {k}
  /\ UNCHANGED <<rows, tombs, purged, time, req, taken, cmd, sweep, resends, faults>>

SetRetentionDays(n) ==
  /\ n \in Periods \ {days} /\ clock < MaxTime
  /\ days' = n
  /\ UNCHANGED <<table, clock, req, taken, cmd, sweep, resends, faults>>

(* The record lock alone, once no append is in its transaction; a purge     *)
(* then wants its key revoked.                                             *)
LockAlone(o) ==
  /\ cmd[o].pc = "idle" /\ InTransaction = {} /\ Exclusive = {}

LockToErase(o, d) ==
  /\ LockAlone(o)
  /\ cmd' = [cmd EXCEPT ![o] = [pc |-> "locked", op |-> "erase", arg |-> d, del |-> {}]]
  /\ UNCHANGED <<table, time, req, taken, sweep, resends, faults>>
LockToPurge(o, k) ==
  /\ LockAlone(o) /\ k \in revoked
  /\ cmd' = [cmd EXCEPT ![o] = [pc |-> "locked", op |-> "purge", arg |-> k, del |-> {}]]
  /\ UNCHANGED <<table, time, req, taken, sweep, resends, faults>>

(* Its delete waits for rows the sweep is deleting. *)
Matches(o, x) == IF cmd[o].op = "erase" THEN x.rec.decision = cmd[o].arg ELSE x.by = cmd[o].arg
Delete(o) ==
  /\ cmd[o].pc = "locked"
  /\ LET del == {x \in rows : Matches(o, x)} IN
     /\ del \cap Deleting = {}
     /\ cmd' = [cmd EXCEPT ![o].pc = "deleted", ![o].del = del]
  /\ UNCHANGED <<table, time, req, taken, sweep, resends, faults>>

CommitDelete(o) ==
  /\ cmd[o].pc = "deleted"
  /\ rows' = rows \ cmd[o].del
  /\ tombs' = IF cmd[o].op = "erase" THEN tombs \cup {cmd[o].arg} ELSE tombs
  /\ purged' = IF cmd[o].op = "purge" THEN purged \cup {cmd[o].arg} ELSE purged
  /\ cmd' = [cmd EXCEPT ![o].pc = "done", ![o].del = {}]
  /\ UNCHANGED <<revoked, time, req, taken, sweep, resends, faults>>

-----------------------------------------------------------------------------
(* Retention.                                                              *)

Tick ==
  /\ clock < MaxTime
  /\ clock' = clock + 1
  /\ UNCHANGED <<table, days, req, taken, cmd, sweep, resends, faults>>

Decided(x) == {y \in rows : y.rec.kind = "decision" /\ y.rec.decision = x.rec.decision}
Old(x) == x.at + days < clock
Expired == {x \in rows : \E y \in Decided(x) : Old(y)} \cup {x \in rows : Decided(x) = {} /\ Old(x)}

(* applyRetention: skipped while another sweep is at it; one statement on  *)
(* its own snapshot, which waits for rows an owner is deleting.            *)
SweepDelete(w) ==
  /\ sweep[w].pc = "idle" /\ \A v \in Sweepers : sweep[v].pc = "idle"
  /\ Expired # {} /\ Expired \cap Deleting = {}
  /\ sweep' = [sweep EXCEPT ![w] = [pc |-> "deleted", del |-> Expired]]
  /\ UNCHANGED <<table, time, req, taken, cmd, resends, faults>>

SweepCommit(w) ==
  /\ sweep[w].pc = "deleted"
  /\ rows' = rows \ sweep[w].del
  /\ taken' = [q \in Requests |->
       IF q \in InTransaction THEN taken[q] \cup {x.rec : x \in sweep[w].del} ELSE taken[q]]
  /\ sweep' = [sweep EXCEPT ![w] = [pc |-> "idle", del |-> {}]]
  /\ UNCHANGED <<tombs, revoked, purged, time, req, cmd, resends, faults>>

(* A transaction is rolled back: a deadlock found, a lost connection, a    *)
(* process that dies.                                                      *)
Fault ==
  /\ faults < MaxFaults /\ faults' = faults + 1
  /\ \/ \E q \in InTransaction :
          /\ req' = [req EXCEPT ![q] = [@ EXCEPT !.pc = "refused", !.in = {}, !.rest = <<>>]]
          /\ UNCHANGED <<cmd, sweep>>
     \/ \E o \in Exclusive :
          /\ cmd' = [cmd EXCEPT ![o].pc = "done", ![o].del = {}]
          /\ UNCHANGED <<req, sweep>>
     \/ \E w \in Sweepers :
          /\ sweep[w].pc = "deleted"
          /\ sweep' = [sweep EXCEPT ![w] = [pc |-> "idle", del |-> {}]]
          /\ UNCHANGED <<req, cmd>>
  /\ UNCHANGED <<table, time, taken, resends>>

AppendRecords(q) ==
  \/ Begin(q) \/ Lock(q) \/ CheckKey(q) \/ CheckErased(q)
  \/ InsertRow(q) \/ CheckConflicts(q) \/ CommitAppend(q)
Retain(w) == SweepDelete(w) \/ SweepCommit(w)

Next ==
  \/ \E q \in Requests : \/ \E k \in Keys, b \in Batches : Authenticate(q, k, b)
                         \/ AppendRecords(q) \/ Resend(q)
  \/ \E k \in Keys : RevokeApiKey(k)
  \/ \E n \in Periods : SetRetentionDays(n)
  \/ \E o \in Owners : \/ \E d \in DecisionsOf(BatchRecords) : LockToErase(o, d)
                       \/ \E k \in Keys : LockToPurge(o, k)
                       \/ Delete(o) \/ CommitDelete(o)
  \/ \E w \in Sweepers : Retain(w)
  \/ Tick \/ Fault

Spec == Init /\ [][Next]_vars

(* The database runs every statement it can, each process's timer fires    *)
(* again after a failed sweep, and time passes.                            *)
FairSpec ==
  /\ Spec /\ WF_vars(Tick)
  /\ \A q \in Requests : WF_vars(AppendRecords(q))
  /\ \A o \in Owners : WF_vars(Delete(o) \/ CommitDelete(o))
  /\ \A w \in Sweepers : WF_vars(SweepCommit(w))
  /\ WF_vars(\E w \in Sweepers : SweepDelete(w))

-----------------------------------------------------------------------------
(* Every variable keeps its type; a row in a transaction carries its key.  *)
TypeOK ==
  /\ rows \subseteq Row /\ tombs \subseteq DecisionsOf(BatchRecords)
  /\ revoked \subseteq Keys /\ purged \subseteq revoked
  /\ days \in Periods /\ clock \in 0 .. MaxTime
  /\ \A q \in Requests : req[q].in \subseteq Row /\ taken[q] \subseteq BatchRecords
  /\ \A q \in Requests : \A x \in req[q].in : x.by = req[q].key /\ q \in InTransaction
  /\ Deleting \subseteq rows
  /\ resends \in 0 .. MaxResends /\ faults \in 0 .. MaxFaults

(* eraseDecision: an erased decision has no record, whatever appends were  *)
(* in flight around the erasure and however often a producer resends.      *)
ErasedStaysErased == \A x \in rows : x.rec.decision \notin tombs

(* purgeApiKeyRecords: nothing a revoked key sends lands after its purge,  *)
(* not even a request authenticated before the key was revoked.            *)
PurgedSendsNothing == \A x \in rows : x.by \notin purged

Answered(q) == req[q].pc = "checked" /\ req'[q].pc = "stored"

(* appendRecords: a batch is answered only when each of its records is     *)
(* stored with that very content, by it or by an earlier batch, or when    *)
(* retention took a record of that key during the transaction.             *)
AnsweredIsStored ==
  [][\A q \in Requests : Answered(q) =>
       \A r \in ToSet(req[q].batch) : \/ \E x \in rows' : x.rec = r
                                     \/ \E t \in taken[q] : Collide(t, r)]_vars

(* ADR-0013: a decision under an existing id is a no-op only when it is    *)
(* identical; with another content its batch is rejected.  Retention takes *)
(* no record lock: it may remove the stored decision between the insert    *)
(* that yields to it and the check that compares with it.                  *)
OnlyIdenticalIsNoOp ==
  [][\A q \in Requests : Answered(q) =>
       \A r \in ToSet(req[q].batch) : (\E x \in rows' : x.rec = r) \/ r \in taken[q]]_vars

(* prepareRecords: two batches that insert the same records in different   *)
(* orders never wait for each other.                                       *)
AppendsDoNotDeadlock ==
  \A q, b \in Requests : ~(WaitsFor(q, b) /\ WaitsFor(b, q))

(* Retention cannot be switched off: once the period of a decision, or of  *)
(* an orphan, is over, it is gone for good; an old outcome may stay only   *)
(* with a decision received after it.                                      *)
EverythingExpires ==
  <>[](\A x \in rows : Old(x) => x.rec.kind = "outcome" /\ Decided(x) # {})
=============================================================================

-------------------------- MODULE DatasetRevisions --------------------------
(***************************************************************************)
(* Working collections of a project: examples imported and cases added to  *)
(* them, items removed, collections archived and frozen into revisions.    *)
(*                                                                         *)
(* Source: repository.pg/dataset-repository.ts, dataset-revision-commands  *)
(* and trace-import-commands.ts, lib/dataset-revision.ts.                  *)
(*                                                                         *)
(* Statements are steps and row locks are explicit.  A writer of a row that*)
(* refers to the project shares the key of the project row, a freeze holds *)
(* it for update; a cycle of waiting transactions is broken by the database*)
(* aborting one of them.  The sealed revisions of a project come from      *)
(* outside (none can be created through the API) and are a constant.       *)
(***************************************************************************)
EXTENDS Naturals, Sequences, FiniteSets, SequencesExt

CONSTANTS
  Datasets, Keys,   \* working collections; idempotency keys of freezes
  Traces,           \* identities of examples, numbers: their sort order
  Menu,             \* what clients ask for, as MC modules give it
  Clients,          \* each asks once
  Imported,         \* traces imported before, into every collection
  Sealed,           \* traces whose input a sealed revision holds
  MaxVerdicts,      \* bound: human verdicts recorded meanwhile
  MaxEdits,         \* bound: items removed and collections archived
  MaxFaults         \* bound: connections that die

TracesAssumption == Traces \subseteq Nat /\ Imported \subseteq Traces /\ Sealed \subseteq Traces
BoundsAssumption == {MaxVerdicts, MaxEdits, MaxFaults} \subseteq Nat

None == "none"
NoneAssumption == None \notin Datasets \cup Keys \cup Clients

VARIABLES
  minted,    \* how many cases each trace became
  items,     \* dataset_items of each collection: a label and a step by trace
  archived,  \* collections with archived_at
  verdicts,  \* human verdicts: a trace and its label
  revisions, \* dataset_revisions with their items
  project,   \* the lock each transaction has on the project row
  dsLock, idLock,  \* who holds a collection for update; an import identity
  c,         \* clients
  batches,   \* history: what each committed import created, and where
  removed,   \* history: what was removed from a collection
  edits, faults

vars == <<minted, items, archived, verdicts, revisions, project, dsLock, idLock, c, batches, removed, edits, faults>>
locks == <<project, dsLock, idLock>>
history == <<batches, removed>>
bounds == <<edits, faults>>

Empty == [t \in {} |-> <<>>]
Idle == [pc |-> "idle", req |-> [kind |-> None], next |-> 1, known |-> {}, buf |-> Empty, created |-> {}, rows |-> Empty, seen |-> 0, answer |-> 0]

Init ==
  /\ minted = [t \in Traces |-> IF t \in Imported THEN 1 ELSE 0]
  /\ items = [d \in Datasets |-> [t \in Imported |-> [label |-> None, step |-> 0]]] /\ archived = {} /\ verdicts = {} /\ revisions = <<>>
  /\ project = [k \in Clients |-> "none"]
  /\ dsLock = [d \in Datasets |-> None] /\ idLock = [t \in Traces |-> None]
  /\ c = [k \in Clients |-> Idle]
  /\ batches = {} /\ removed = {}
  /\ edits = 0 /\ faults = 0

-----------------------------------------------------------------------------
(* The transaction ends: its locks go, its connection is released. *)
Release(k) ==
  /\ project' = [project EXCEPT ![k] = "none"]
  /\ dsLock' = [d \in Datasets |-> IF dsLock[d] = k THEN None ELSE dsLock[d]]
  /\ idLock' = [t \in Traces |-> IF idLock[t] = k THEN None ELSE idLock[t]]

At(k, kind, pc) == c[k].pc = pc /\ c[k].req.kind = kind
Importing(k, pc) == At(k, "import", pc) \/ At(k, "trace", pc)
Goto(k, pc) == c' = [c EXCEPT ![k].pc = pc]
End(k, pc) == c' = [c EXCEPT ![k] = [Idle EXCEPT !.pc = pc, !.req = c[k].req]]
Refuse(k, pc) == /\ End(k, pc) /\ Release(k) /\ UNCHANGED <<minted, items, archived, verdicts, revisions, history, bounds>>

Batch(k) == c[k].req.batch
BatchTraces(k) == {Batch(k)[i].trace : i \in DOMAIN Batch(k)}

(* Who a transaction waits for, where it stands. *)
ProjectHolders(k, modes) == {j \in Clients \ {k} : project[j] \in modes}
Holder(l, k) == {l} \ {None, k}
IdentitiesInBatchOrder(k) == [i \in DOMAIN Batch(k) |-> Batch(k)[i].trace]   \* Faulty variant: locked in the order of the batch
Identities(k) == SetToSortSeq(BatchTraces(k), <)

RowWriters(k, d, t) == {j \in Clients \ {k} : c[j].req.kind = "import" /\ c[j].req.ds = d /\ t \in DOMAIN c[j].buf}

(* A known case becomes a new member: the row it gets refers to the project. *)
Joins(k) ==
  /\ c[k].next <= Len(Batch(k))
  /\ LET t == Batch(k)[c[k].next].trace IN minted[t] > 0 /\ t \notin DOMAIN items[c[k].req.ds]

WaitsFor(k) ==
  CASE Importing(k, "dataset") \/ At(k, "freeze", "dataset") -> Holder(dsLock[c[k].req.ds], k)
    [] Importing(k, "identities") /\ c[k].next <= Len(Batch(k)) -> Holder(idLock[Identities(k)[c[k].next]], k)
    [] At(k, "import", "check") /\ Joins(k) -> ProjectHolders(k, {"exclusive"})
    [] Importing(k, "mint") -> ProjectHolders(k, {"update", "exclusive"})
    [] At(k, "add", "items") /\ c[k].next <= Len(Batch(k)) ->
         LET t == Batch(k)[c[k].next].trace IN
         RowWriters(k, c[k].req.ds, t) \cup
           (IF t \in DOMAIN items[c[k].req.ds] THEN {}
            ELSE Holder(dsLock[c[k].req.ds], k) \cup ProjectHolders(k, {"exclusive"}))
    [] At(k, "freeze", "project") -> ProjectHolders(k, {"share", "update", "exclusive"})
    [] OTHER -> {}

Waits == {<<k, j>> \in Clients \X Clients : j \in WaitsFor(k)}
CyclesAmong(S) == {T \in SUBSET S \ {{}} : \A k \in T : \E j \in T : <<k, j>> \in Waits}

-----------------------------------------------------------------------------
(* The last revision of a collection's series, 0 when there is none. *)
Latest(d) == SelectLastInSeq(revisions, LAMBDA r : r.ds = d)

Ask(k) ==
  /\ c[k].pc = "idle"
  /\ \E r \in Menu :
       c' = [c EXCEPT ![k].req = r, ![k].seen = IF r.kind = "freeze" THEN Latest(r.ds) ELSE 0, ![k].pc = CASE r.kind = "import" -> "dataset" [] r.kind = "trace" -> "identities"
                                                [] r.kind = "add" -> "check" [] r.kind = "freeze" -> "project"]
  /\ UNCHANGED <<minted, items, archived, verdicts, revisions, locks, history, bounds>>

(* The coalescing upsert of an item. *)
Upsert(old, new) ==
  [label |-> IF new.label = None THEN old.label ELSE new.label,
   step |-> IF new.label = "pass" THEN 0 ELSE IF new.step # 0 THEN new.step ELSE old.step]
Put(collection, t, mark) ==
  IF t \in DOMAIN collection THEN [collection EXCEPT ![t] = Upsert(@, mark)]
  ELSE [u \in DOMAIN collection \cup {t} |-> IF u = t THEN mark ELSE collection[u]]

(* addDatasetItems: an unlocked check, then one statement per item. *)
AddCheck(k) ==
  /\ At(k, "add", "check")
  /\ IF c[k].req.ds \in archived \/ \E t \in BatchTraces(k) : minted[t] = 0
     THEN Refuse(k, "refused")
     ELSE /\ Goto(k, "items")
          /\ UNCHANGED <<minted, items, archived, verdicts, revisions, locks, history, bounds>>

AddItem(k) ==
  /\ At(k, "add", "items") /\ WaitsFor(k) = {}
  /\ IF c[k].next > Len(Batch(k)) THEN End(k, "done") /\ items' = items
     ELSE LET i == Batch(k)[c[k].next] IN
          /\ items' = [items EXCEPT ![c[k].req.ds] = Put(@, i.trace, i.mark)]
          /\ c' = [c EXCEPT ![k].next = @ + 1]
  /\ UNCHANGED <<minted, archived, verdicts, revisions, locks, history, bounds>>

RemoveDatasetItem(d, t) ==
  /\ t \in DOMAIN items[d] /\ RowWriters(None, d, t) = {}
  /\ edits < MaxEdits /\ edits' = edits + 1
  /\ items' = [items EXCEPT ![d] = [u \in DOMAIN items[d] \ {t} |-> items[d][u]]]
  /\ removed' = removed \cup {<<d, t>>}
  /\ UNCHANGED <<minted, archived, verdicts, revisions, locks, c, batches, faults>>

ArchiveDataset(d) ==
  /\ d \notin archived /\ dsLock[d] = None
  /\ edits < MaxEdits /\ edits' = edits + 1
  /\ archived' = archived \cup {d}
  /\ UNCHANGED <<minted, items, verdicts, revisions, locks, c, history, faults>>

RecordVerdict(t, label) ==
  /\ minted[t] > 0 /\ [trace |-> t, label |-> label] \notin verdicts /\ Cardinality(verdicts) < MaxVerdicts
  /\ verdicts' = verdicts \cup {[trace |-> t, label |-> label]}
  /\ UNCHANGED <<minted, items, archived, revisions, locks, c, history, bounds>>

-----------------------------------------------------------------------------
(* importDatasetExamples, and importTrace for one trace of no collection. *)
SeeDataset(k) ==                         \* Faulty variant: the collection is read but not held
  IF c[k].req.ds \in archived THEN Refuse(k, "refused")
  ELSE /\ Goto(k, "identities") /\ UNCHANGED <<minted, items, archived, verdicts, revisions, locks, history, bounds>>
HoldDataset(k) ==
  IF c[k].req.ds \in archived THEN Refuse(k, "refused")
  ELSE /\ Goto(k, "identities") /\ dsLock' = [dsLock EXCEPT ![c[k].req.ds] = k]
       /\ UNCHANGED <<minted, items, archived, verdicts, revisions, project, idLock, history, bounds>>
ImportDataset(k) == At(k, "import", "dataset") /\ WaitsFor(k) = {} /\ HoldDataset(k)

PassIdentity(k, t) == idLock' = idLock   \* Faulty variant: the identity is not serialised
HoldIdentity(k, t) == idLock' = [idLock EXCEPT ![t] = k]

LockTraceImportIdentity(k) ==
  /\ Importing(k, "identities") /\ WaitsFor(k) = {}
  /\ IF c[k].next > Len(Batch(k)) THEN c' = [c EXCEPT ![k].pc = "check", ![k].next = 1] /\ idLock' = idLock
     ELSE HoldIdentity(k, Identities(k)[c[k].next]) /\ c' = [c EXCEPT ![k].next = @ + 1]
  /\ UNCHANGED <<minted, items, archived, verdicts, revisions, project, dsLock, history, bounds>>

(* The membership, written with the case; nobody sees it before the commit. *)
WithItem(k, r) ==
  IF r.req.kind = "trace" THEN r
  ELSE LET i == Batch(k)[r.next] IN
       [r EXCEPT !.buf = [u \in DOMAIN @ \cup {i.trace} |-> IF u = i.trace THEN i.mark ELSE @[u]]]
NextItem(k, r) == [WithItem(k, r) EXCEPT !.next = @ + 1, !.pc = "check"]

ImportCheck(k) ==
  /\ Importing(k, "check") /\ c[k].next <= Len(Batch(k)) /\ WaitsFor(k) = {}
  /\ c' = [c EXCEPT ![k] = IF minted[Batch(k)[@.next].trace] > 0 THEN NextItem(k, @) ELSE [@ EXCEPT !.pc = "mint"]]
  /\ project' = [project EXCEPT ![k] = IF @ = "none" /\ c[k].req.kind = "import" /\ Joins(k) THEN "share" ELSE @]
  /\ UNCHANGED <<minted, items, archived, verdicts, revisions, dsLock, idLock, history, bounds>>

ImportMintAlone(k) ==                    \* Faulty variant: each example is a transaction of its own
  /\ Importing(k, "mint") /\ WaitsFor(k) = {}
  /\ LET i == Batch(k)[c[k].next] IN
     /\ minted' = [minted EXCEPT ![i.trace] = @ + 1]
     /\ items' = IF c[k].req.kind = "trace" THEN items ELSE [items EXCEPT ![c[k].req.ds] = Put(@, i.trace, i.mark)]
     /\ batches' = batches \cup {[ds |-> c[k].req.ds, traces |-> BatchTraces(k)]}
  /\ c' = [c EXCEPT ![k].next = @ + 1, ![k].pc = "check"]
  /\ UNCHANGED <<archived, verdicts, revisions, locks, removed, bounds>>
ImportMint(k) ==
  /\ Importing(k, "mint") /\ WaitsFor(k) = {}
  /\ c' = [c EXCEPT ![k] = [NextItem(k, @) EXCEPT !.created = @ \cup {Batch(k)[c[k].next].trace}]]
  /\ project' = [project EXCEPT ![k] = "update"]
  /\ UNCHANGED <<minted, items, archived, verdicts, revisions, dsLock, idLock, history, bounds>>

Merge(collection, buf) ==
  [u \in DOMAIN collection \cup DOMAIN buf |->
     IF u \notin DOMAIN buf THEN collection[u] ELSE IF u \in DOMAIN collection THEN Upsert(collection[u], buf[u]) ELSE buf[u]]

ImportCommit(k) ==
  /\ Importing(k, "check") /\ c[k].next > Len(Batch(k))
  /\ minted' = [t \in Traces |-> minted[t] + IF t \in c[k].created THEN 1 ELSE 0]
  /\ IF c[k].req.kind = "trace" THEN items' = items /\ batches' = batches
     ELSE /\ items' = [items EXCEPT ![c[k].req.ds] = Merge(@, c[k].buf)]
          /\ batches' = batches \cup {[ds |-> c[k].req.ds, traces |-> c[k].created]}
  /\ End(k, "done") /\ Release(k)
  /\ UNCHANGED <<archived, verdicts, revisions, removed, bounds>>

-----------------------------------------------------------------------------
(* createDatasetRevision. *)
PassProject(k) == project' = project     \* Faulty variant: the project row is not locked
HoldProject(k) == project' = [project EXCEPT ![k] = "exclusive"]
LockProject(k) ==
  /\ At(k, "freeze", "project") /\ WaitsFor(k) = {}
  /\ HoldProject(k) /\ Goto(k, "dataset")
  /\ UNCHANGED <<minted, items, archived, verdicts, revisions, dsLock, idLock, history, bounds>>

FreezeDataset(k) ==
  /\ At(k, "freeze", "dataset") /\ WaitsFor(k) = {}
  /\ IF c[k].req.ds \in archived THEN Refuse(k, "refused")
     ELSE /\ Goto(k, "key") /\ dsLock' = [dsLock EXCEPT ![c[k].req.ds] = k]
          /\ UNCHANGED <<minted, items, archived, verdicts, revisions, project, idLock, history, bounds>>

(* The answer is sent once the transaction ended. *)
Answer(k, r) == c' = [c EXCEPT ![k] = [@ EXCEPT !.pc = "done", !.answer = r]]

FreezeKey(k) ==
  /\ At(k, "freeze", "key")
  /\ LET used == {r \in DOMAIN revisions : c[k].req.key # None /\ revisions[r].key = c[k].req.key} IN
     IF used = {} THEN /\ Goto(k, "rows")
                       /\ UNCHANGED <<minted, items, archived, verdicts, revisions, locks, history, bounds>>
     ELSE \E r \in used :
       IF revisions[r].ds # c[k].req.ds \/ revisions[r].role # c[k].req.role THEN Refuse(k, "refused")
       ELSE /\ c' = [c EXCEPT ![k] = [Idle EXCEPT !.pc = "replayed", !.req = c[k].req, !.answer = r]] /\ Release(k)
            /\ UNCHANGED <<minted, items, archived, verdicts, revisions, history, bounds>>

FreezeRows(k) ==
  /\ At(k, "freeze", "rows")
  /\ IF DOMAIN items[c[k].req.ds] = {} THEN Refuse(k, "refused")
     ELSE /\ c' = [c EXCEPT ![k].pc = "verdicts", ![k].rows = items[c[k].req.ds]]
          /\ UNCHANGED <<minted, items, archived, verdicts, revisions, locks, history, bounds>>

(* Each row with the provenance of its label. *)
Frozen(k) ==
  [t \in DOMAIN c[k].rows |->
     LET row == c[k].rows[t] IN
     [label |-> row.label, step |-> row.step,
      provenance |-> IF row.label = None THEN "unlabeled"
                     ELSE IF [trace |-> t, label |-> row.label] \in verdicts THEN "human_verdict" ELSE "dataset_claim"]]

FreezeVerdicts(k) ==
  /\ At(k, "freeze", "verdicts")
  /\ IF DOMAIN c[k].rows \cap Sealed # {} THEN Refuse(k, "refused")
     ELSE /\ c' = [c EXCEPT ![k].pc = "insert", ![k].rows = Frozen(k)]
          /\ UNCHANGED <<minted, items, archived, verdicts, revisions, locks, history, bounds>>

(* insertDatasetRevisionWithClient and the commit; the index on the key of *)
(* a project turns a second revision of one key away.                      *)
SameByRole(r, req, content) == revisions[r].role = req.role     \* Faulty variant: the content is not compared
Same(r, req, content) == revisions[r].role = req.role /\ revisions[r].content = content

FreezeInsert(k) ==
  /\ At(k, "freeze", "insert")
  /\ LET req == c[k].req
         parent == Latest(req.ds) IN
     IF req.follow /\ c[k].seen # 0 /\ c[k].seen # parent THEN Refuse(k, "refused")
     ELSE IF req.reuse /\ parent # 0 /\ Same(parent, req, c[k].rows)
     THEN Answer(k, parent) /\ Release(k) /\ UNCHANGED <<minted, items, archived, verdicts, revisions, history, bounds>>
     ELSE IF req.key # None /\ \E r \in DOMAIN revisions : revisions[r].key = req.key THEN Refuse(k, "violated")
     ELSE /\ revisions' = Append(revisions, [ds |-> req.ds, role |-> req.role, key |-> req.key, content |-> c[k].rows,
                            number |-> 1 + IF parent = 0 THEN 0 ELSE revisions[parent].number])
          /\ Answer(k, Len(revisions) + 1) /\ Release(k)
          /\ UNCHANGED <<minted, items, archived, verdicts, history, bounds>>

-----------------------------------------------------------------------------
Open == {"dataset", "identities", "check", "mint", "items", "project", "key", "rows", "verdicts", "insert"}

(* The database breaks a cycle by aborting one of its transactions. *)
Abort(k) ==
  /\ \E T \in CyclesAmong(Clients) : k \in T
  /\ Refuse(k, "aborted")

Fault(k) ==
  /\ c[k].pc \in Open /\ faults < MaxFaults /\ faults' = faults + 1
  /\ End(k, "failed") /\ Release(k)
  /\ UNCHANGED <<minted, items, archived, verdicts, revisions, history, edits>>

Import(k) == ImportDataset(k) \/ LockTraceImportIdentity(k) \/ ImportCheck(k) \/ ImportMint(k) \/ ImportCommit(k)
Add(k) == AddCheck(k) \/ AddItem(k)
Freeze(k) ==
  \/ LockProject(k) \/ FreezeDataset(k) \/ FreezeKey(k) \/ FreezeRows(k) \/ FreezeVerdicts(k) \/ FreezeInsert(k)
Step(k) == Import(k) \/ Add(k) \/ Freeze(k) \/ Abort(k)

Next ==
  \/ \E k \in Clients : Ask(k) \/ Step(k) \/ Fault(k)
  \/ \E d \in Datasets : ArchiveDataset(d) \/ \E t \in Traces : RemoveDatasetItem(d, t)
  \/ \E t \in Traces, l \in {"pass", "fail"} : RecordVerdict(t, l)

Spec == Init /\ [][Next]_vars

(* A request in progress goes on; nobody has to ask. *)
FairSpec == Spec /\ \A k \in Clients : SF_vars(Step(k))

-----------------------------------------------------------------------------
Marks == {m \in [label : {"pass", "fail", None}, step : {0, 1}] : m.step # 0 => m.label = "fail"}
Rows == UNION {[T -> Marks] : T \in SUBSET Traces}

(* Every expected step stands beside the label "fail" (the contract of     *)
(* packages/shared/src/datasets.ts:30), however the labels of overlapping  *)
(* imports and appends are coalesced; and locks are those of open          *)
(* transactions.                                                           *)
TypeOK ==
  /\ minted \in [Traces -> Nat] /\ archived \subseteq Datasets
  /\ items \in [Datasets -> Rows]
  /\ \A r \in DOMAIN revisions : /\ revisions[r].ds \in Datasets /\ revisions[r].key \in Keys \cup {None}
                                 /\ \A t \in DOMAIN revisions[r].content : revisions[r].content[t].step # 0 => revisions[r].content[t].label = "fail"
  /\ \A k \in Clients : project[k] # "none" => c[k].pc \in Open
  /\ \A d \in Datasets : dsLock[d] # None => c[dsLock[d]].pc \in Open
  /\ \A t \in Traces : idLock[t] # None => c[idLock[t]].pc \in Open

(* importDatasetExamples is all or nothing also for a freeze that overlaps *)
(* it: no revision holds some of the cases an import minted and lacks      *)
(* others that nobody removed.                                             *)
ImportIsFrozenWhole ==
  \A r \in DOMAIN revisions, b \in batches :
    revisions[r].ds = b.ds =>
      \/ b.traces \cap DOMAIN revisions[r].content = {}
      \/ \A t \in b.traces : t \in DOMAIN revisions[r].content \/ <<b.ds, t>> \in removed

(* "Concurrent batches with reversed item order cannot deadlock"           *)
(* (dataset-repository.ts): no cycle of waiting transactions is made of    *)
(* imports alone.                                                          *)
ImportsDoNotDeadlock == CyclesAmong({k \in Clients : c[k].req.kind \in {"import", "trace"}}) = {}

(* Overlapping imports of one trace, into whatever collection, mint one    *)
(* case: the identity is locked before it is looked up.                    *)
OneCasePerTrace == \A t \in Traces : minted[t] <= 1

(* An import that overlaps the archiving of its collection lands before it *)
(* or not at all; only addDatasetItems may still write afterwards.         *)
ArchiveStep ==
  \A d \in Datasets : d \in archived /\ items'[d] # items[d] =>
    (\E k \in Clients : AddItem(k)) \/ (\E t \in Traces : RemoveDatasetItem(d, t))
ArchivedTakesNoImport == [][ArchiveStep]_vars

(* A repeated freeze is answered with the revision of its key, or told     *)
(* that the key was used for something else: two of one key, sent at once  *)
(* and also for different collections, never meet on the index.            *)
KeysNeverCollide == \A k \in Clients : c[k].pc # "violated"

(* What a freeze is answered with is what it read: a reused revision has   *)
(* its role and its rows with their provenance.                            *)
AnswerIsWhatWasRead ==
  \A k \in Clients : At(k, "freeze", "done") =>
    /\ revisions[c[k].answer].ds = c[k].req.ds /\ revisions[c[k].answer].role = c[k].req.role
    /\ revisions[c[k].answer].content = c[k].rows

(* Every request is answered, although a freeze and an import of its       *)
(* collection can wait for each other: the database aborts one, and no     *)
(* path leaves a lock behind.                                              *)
RequestsAreAnswered == \A k \in Clients : c[k].pc \in Open ~> c[k].pc \notin Open
=============================================================================

------------------------- MODULE AssessmentReceipts ------------------------
(***************************************************************************)
(* The receipts of release-evidence runs: frozen once from the terminal    *)
(* run, corrected by appending to the chain of the run, and compared with  *)
(* the copies consumers hold.                                              *)
(*                                                                         *)
(* Source: repository.pg/assessment-receipt-repository.ts and              *)
(* assessment-receipt-commands.ts, lib/assessment-receipt-v2.ts and the    *)
(* keys and guards of the receipt tables.                                  *)
(*                                                                         *)
(* Every command is one transaction that first locks the row of its run;   *)
(* what it reads after that may still change for another run.  A receipt   *)
(* stands for its canonical bytes, so digests are left out.                *)
(***************************************************************************)
EXTENDS Naturals, Sequences, FiniteSets

CONSTANTS
  Runs,        \* terminal or ending eval_runs, triggered as release evidence
  Items,       \* client item ids of a run
  Results,     \* what may become of an item
  Evaluators,  \* skill versions with their digests
  NewIds,      \* receipt ids that clients choose for corrections
  Requests,    \* commands of clients, each repeated at will
  Executions,
  MaxFaults    \* bound: connections that die inside a command

ResultsAssumption == Results \subseteq {"pass", "fail", "abstain", "failure", "not_attempted"}
FaultsAssumption == MaxFaults \in Nat

None == "none"
NoneAssumption == None \notin Runs \cup Requests \cup Executions

VARIABLES
  source,   \* the run and its items: "running", or what they ended as
  chain,    \* assessment_receipt_artifacts of each run, by revision
  copies,   \* assessment_receipt_comparisons of each root
  req, rowLock, x, faults

vars == <<source, chain, copies, req, rowLock, x, faults>>

Attempted == {"pass", "fail", "abstain"}
Idle == [pc |-> "idle", key |-> None, root |-> <<>>]

Init ==
  /\ \E ev \in [Runs -> Evaluators] :
       source = [r \in Runs |-> [status |-> "running", evaluator |-> ev[r], items |-> <<>>]]
  /\ chain = [r \in Runs |-> <<>>] /\ copies = [r \in Runs |-> {}]
  /\ req = [k \in Requests |-> [kind |-> None]]
  /\ rowLock = [r \in Runs |-> None]
  /\ x = [e \in Executions |-> Idle]
  /\ faults = 0

-----------------------------------------------------------------------------
(* buildAssessmentReceiptV2 and verifyAssessmentReceiptV2                  *)

Counts(items) == [result \in Results |-> Cardinality({i \in Items : items[i] = result})]

Complete(status, items) == status = "completed" /\ \A i \in Items : items[i] \in Attempted

Build(r) ==
  LET s == source[r] IN
  [id |-> <<"receipt", r>>, run |-> r, evaluator |-> s.evaluator, ended |-> s.status,
   status |-> IF Complete(s.status, s.items) THEN "complete" ELSE "incomplete",
   counts |-> Counts(s.items), items |-> s.items]

Verify(c) ==
  /\ c.counts = Counts(c.items)
  /\ c.status = IF c.ended = "completed" /\ {c.items[i] : i \in Items} \subseteq Attempted
                THEN "complete" ELSE "incomplete"

(* The run ends: its last transaction mints the receipt, unless the run is *)
(* from before there were receipts.                                        *)
Finish(r) ==
  /\ source[r].status = "running" /\ rowLock[r] = None
  /\ \E items \in [Items -> Results], status \in {"completed", "failed", "canceled"} :
       /\ status = "completed" => \E i \in Items : items[i] \in Attempted
       /\ source' = [source EXCEPT ![r].status = status, ![r].items = items]
  /\ \/ chain' = [chain EXCEPT ![r] = <<[kind |-> "terminal_mint", receipt |-> Build(r)']>>]
     \/ UNCHANGED chain
  /\ UNCHANGED <<copies, req, rowLock, x, faults>>

-----------------------------------------------------------------------------
(* What clients hold and send: copies of receipts, and receipts they made. *)
Corrections(r) ==
  {[id |-> i, run |-> r, evaluator |-> v, ended |-> source[r].status,
    status |-> IF Complete(source[r].status, items) THEN "complete" ELSE "incomplete",
    counts |-> Counts(items), items |-> items] :
      i \in NewIds, v \in Evaluators, items \in {f \in [Items -> Results] : f # source[r].items}}

Ask(k) ==
  /\ req[k].kind = None
  /\ \E r \in Runs :
       \/ req' = [req EXCEPT ![k] = [kind |-> "freeze", run |-> r]]
       \/ /\ source[r].status # "running"
          /\ \E c \in Corrections(r) : req' = [req EXCEPT ![k] = [kind |-> "correct", run |-> r, receipt |-> c]]
       \/ \E q \in Runs : \E n \in DOMAIN chain[q] :
            req' = [req EXCEPT ![k] = [kind |-> "compare", run |-> r, receipt |-> chain[q][n].receipt]]
       \/ /\ source[r].status # "running"    \* a copy that is well formed and not what was served
          /\ \E c \in Corrections(r) :
               req' = [req EXCEPT ![k] = [kind |-> "compare", run |-> r, receipt |-> [c EXCEPT !.id = <<"receipt", r>>]]]
  /\ UNCHANGED <<source, chain, copies, rowLock, x, faults>>

End(e) == x' = [x EXCEPT ![e] = Idle]
Unlock(e) == rowLock' = [r \in Runs |-> IF rowLock[r] = e THEN None ELSE rowLock[r]]

Execute(e, k) ==
  /\ x[e].pc = "idle" /\ req[k].kind # None
  /\ x' = [x EXCEPT ![e] = [Idle EXCEPT !.pc = "lock", !.key = k]]
  /\ UNCHANGED <<source, chain, copies, req, rowLock, faults>>

(* mintAssessmentReceiptWithClient: select for update, then the root that  *)
(* is there or the one built from the rows.                                *)
FreezeAgain(r) ==    \* Faulty variant: the receipt is always the one the rows say now
  IF chain[r] = <<>> THEN Build(r) ELSE chain[r][Len(chain[r])].receipt
Root(r) == IF chain[r] = <<>> THEN Build(r) ELSE chain[r][1].receipt

Lock(e) ==
  LET r == req[x[e].key].run IN
  /\ x[e].pc = "lock" /\ rowLock[r] = None
  /\ IF chain[r] = <<>> /\ source[r].status = "running"    \* not_terminal
     THEN End(e) /\ UNCHANGED rowLock
     ELSE /\ rowLock' = [rowLock EXCEPT ![r] = e]
          /\ x' = [x EXCEPT ![e].pc = "write", ![e].root = Root(r)]
  /\ UNCHANGED <<source, chain, copies, req, faults>>

(* The chain of the run with its root minted by this transaction. *)
Minted(r, root) == IF chain[r] = <<>> THEN <<[kind |-> "historical_freeze", receipt |-> root]>> ELSE chain[r]

Artifacts == UNION {{chain[r][n] : n \in DOMAIN chain[r]} : r \in Runs}
Taken(id) == \E a \in Artifacts : a.receipt.id = id

Commit(e) == End(e) /\ Unlock(e)

Freeze(e) ==
  LET q == req[x[e].key] IN
  /\ x[e].pc = "write" /\ q.kind = "freeze"
  /\ chain' = [chain EXCEPT ![q.run] = Minted(q.run, x[e].root)]
  /\ Commit(e)
  /\ UNCHANGED <<source, copies, req, faults>>

(* compareAssessmentReceiptCopy: a receipt of another identity is refused, *)
(* which rolls the root back that was minted for it.                       *)
CompareAssessmentReceiptCopy(e) ==
  LET q == req[x[e].key]
      root == x[e].root IN
  /\ x[e].pc = "write" /\ q.kind = "compare"
  /\ IF q.receipt.run = q.run /\ q.receipt.id = root.id
     THEN /\ chain' = [chain EXCEPT ![q.run] = Minted(q.run, root)]
          /\ copies' = [copies EXCEPT ![q.run] = @ \cup
               {[receipt |-> q.receipt, status |-> IF q.receipt = root THEN "match" ELSE "diverged"]}]
     ELSE UNCHANGED <<chain, copies>>
  /\ Commit(e)
  /\ UNCHANGED <<source, req, faults>>

(* createAssessmentReceiptCorrection *)
IsRepeatedHead(q) ==    \* Faulty variant: only the latest revision is looked at
  chain[q.run] # <<>> /\ chain[q.run][Len(chain[q.run])] = [kind |-> "correction", receipt |-> q.receipt]
IsRepeated(q) == [kind |-> "correction", receipt |-> q.receipt] \in {chain[q.run][n] : n \in DOMAIN chain[q.run]}

CorrectionInRun(q, root) ==    \* Faulty variant: a receipt id is unique in its run
  q.receipt.evaluator = root.evaluator /\ \A n \in DOMAIN chain[q.run] : chain[q.run][n].receipt.id # q.receipt.id
CorrectionOf(q, root) == q.receipt.evaluator = root.evaluator /\ ~Taken(q.receipt.id)

RefusedCorrection(e) ==
  LET q == req[x[e].key] IN
  /\ x[e].pc = "write" /\ q.kind = "correct"
  /\ ~IsRepeated(q) /\ ~CorrectionOf(q, x[e].root)
  /\ Commit(e)
  /\ UNCHANGED <<source, chain, copies, req, faults>>

CreateAssessmentReceiptCorrection(e) ==
  LET q == req[x[e].key] IN
  /\ x[e].pc = "write" /\ q.kind = "correct"
  /\ IsRepeated(q) \/ CorrectionOf(q, x[e].root)
  /\ chain' = [chain EXCEPT ![q.run] =
       IF IsRepeated(q) THEN @ ELSE Append(Minted(q.run, x[e].root), [kind |-> "correction", receipt |-> q.receipt])]
  /\ Commit(e)
  /\ UNCHANGED <<source, copies, req, faults>>

Fault(e) ==
  /\ faults < MaxFaults /\ faults' = faults + 1
  /\ x[e].pc # "idle"
  /\ Commit(e)
  /\ UNCHANGED <<source, chain, copies, req>>

Next ==
  \/ \E r \in Runs : Finish(r)
  \/ \E k \in Requests : Ask(k) \/ \E e \in Executions : Execute(e, k)
  \/ \E e \in Executions :
       \/ Lock(e) \/ Freeze(e) \/ CompareAssessmentReceiptCopy(e)
       \/ RefusedCorrection(e) \/ CreateAssessmentReceiptCorrection(e) \/ Fault(e)

Spec == Init /\ [][Next]_vars

-----------------------------------------------------------------------------
(* Every variable keeps its type: a chain starts with a minted receipt and *)
(* goes on with corrections by the same evaluator.                         *)
TypeOK ==
  /\ \A r \in Runs : \A n \in DOMAIN chain[r] :
       /\ (n = 1) <=> (chain[r][n].kind # "correction")
       /\ chain[r][n].receipt.evaluator = source[r].evaluator
  /\ \A r \in Runs : rowLock[r] # None => x[rowLock[r]].pc = "write"

(* "A receipt Rubrist can build is one a consumer accepts": the receipt of *)
(* any terminal run passes the verifier, so that it can be frozen.         *)
BuiltVerifies == \A r \in Runs : source[r].status # "running" => Verify(Build(r))

(* The root says what the run ended as, whatever is appended to it, and    *)
(* copies were compared with it and with no correction.                    *)
RootSpeaksForTheRun ==
  \A r \in Runs :
    /\ chain[r] # <<>> => chain[r][1].receipt = Build(r)
    /\ \A c \in copies[r] : (c.status = "match") <=> (c.receipt = Build(r))

(* A receipt id names one receipt, of whichever run.                       *)
OneReceiptPerId ==
  \A r, q \in Runs : \A n \in DOMAIN chain[r], m \in DOMAIN chain[q] :
    chain[r][n].receipt.id = chain[q][m].receipt.id => r = q /\ n = m

(* The refusal of a correction that is stored already.                     *)
StoredIsRefused ==
  \E e \in Executions :
    RefusedCorrection(e) /\ \E a \in Artifacts : a.kind = "correction" /\ a.receipt = req[x[e].key].receipt

(* A client that repeats its correction, because the answer was lost, gets *)
(* the artifact back, however many corrections came after it.              *)
RepeatedCorrectionSucceeds == [][~StoredIsRefused]_vars
=============================================================================

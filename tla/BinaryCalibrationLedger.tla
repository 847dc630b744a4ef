---------------------- MODULE BinaryCalibrationLedger ----------------------
(***************************************************************************)
(* The refinement mapping from the worker and its transactions to the      *)
(* promise of SealedLedger.                                                *)
(***************************************************************************)
EXTENDS BinaryCalibration

\* An attempt row read as an entry of the book.
Entry(a) ==
    IF a.accounting = "absent" THEN "unplanned"
    ELSE IF a.accounting = "accounted"
         THEN IF a.outcome = "outcome_unknown" THEN "unknown" ELSE a.outcome
    ELSE IF a.phase = "not_started" THEN "planned" ELSE "called"

Book == [r \in Runs |-> [i \in Items |-> Entry(att[r][i])]]

Verdict == [r \in Runs |-> IF row[r].state \in Terminal THEN row[r].state ELSE "open"]

Ledger == INSTANCE SealedLedger
    WITH book <- Book, verdict <- Verdict, custodian <- lease, exposed <- exposed

\* Every behaviour of workers, crashes and stale claims is a behaviour of the
\* promised ledger.
LedgerSpec == Ledger!Spec
=============================================================================

--------------------------- MODULE EvalRunLedger ---------------------------
(***************************************************************************)
(* What the eval.item handlers and the recovery sweep promise together,    *)
(* whatever job is redelivered, claim taken over or answer lost: the       *)
(* provider is called at most once for an item; an item gets one outcome,  *)
(* which does not contradict whether a call left; and the outcomes are     *)
(* frozen in the receipt once the last one is recorded.                    *)
(***************************************************************************)
CONSTANTS Items, NoReceipt

VARIABLES calls, outcome, receipt

Init ==
    /\ calls = [i \in Items |-> 0]
    /\ outcome = [i \in Items |-> "none"]
    /\ receipt = NoReceipt

\* A call may still leave when a sweep has given its outcome up as unknown,
\* never when the item is recorded as not attempted.
Call(i) ==
    /\ calls[i] = 0
    /\ outcome[i] \in {"none", "outcome_unknown"}
    /\ calls' = [calls EXCEPT ![i] = 1]
    /\ UNCHANGED <<outcome, receipt>>

Truthful(i, o) ==
    /\ o = "not_attempted" => calls[i] = 0
    /\ o \in {"verdict", "failure"} => calls[i] = 1

Record(i, o) ==
    /\ outcome[i] = "none"
    /\ Truthful(i, o)
    /\ outcome' = [outcome EXCEPT ![i] = o]
    /\ receipt' = IF \A j \in Items \ {i} : outcome[j] # "none" THEN outcome' ELSE receipt
    /\ UNCHANGED calls

Next == \E i \in Items :
    \/ Call(i)
    \/ \E o \in {"verdict", "failure", "outcome_unknown", "not_attempted"} : Record(i, o)

Spec == Init /\ [][Next]_<<calls, outcome, receipt>>
=============================================================================

---------------------------- MODULE SealedLedger ----------------------------
(***************************************************************************)
(* What sealed calibration promises, without workers, claims or queues     *)
(* (ADR-0009 and docs/architecture.md, read against finalizeRun).          *)
(*                                                                         *)
(* At most one run at a time has custody of the sealed revision.  In       *)
(* custody each item is called at most once and settled exactly once; an   *)
(* interrupted call is settled "unknown", never called again.  The verdict *)
(* is pronounced only over a fully settled book, "complete" only over a    *)
(* fully usable one, and no development exposure happens in between.       *)
(***************************************************************************)
CONSTANTS Runs, Items, NoRun

VARIABLES book, verdict, custodian, exposed

vars == <<book, verdict, custodian, exposed>>

Settled == {"usable", "errored", "unknown"}

Init ==
    /\ book = [r \in Runs |-> [i \in Items |-> "unplanned"]]
    /\ verdict = [r \in Runs |-> "open"]
    /\ custodian = NoRun
    /\ exposed \in BOOLEAN

TakeCustody(r) ==
    /\ custodian = NoRun
    /\ verdict[r] = "open"
    /\ ~exposed
    /\ custodian' = r
    /\ book' = [book EXCEPT ![r] = [i \in Items |-> "planned"]]
    /\ UNCHANGED <<verdict, exposed>>

Reject(r) ==
    /\ custodian # r
    /\ verdict[r] = "open"
    /\ verdict' = [verdict EXCEPT ![r] = "rejected"]
    /\ UNCHANGED <<book, custodian, exposed>>

Call(r, i) ==
    /\ custodian = r
    /\ book[r][i] = "planned"
    /\ book' = [book EXCEPT ![r][i] = "called"]
    /\ UNCHANGED <<verdict, custodian, exposed>>

\* A verdict needs a call; a refusal before the call settles as an error.
Settle(r, i, outcome) ==
    /\ custodian = r
    /\ \/ book[r][i] = "called" /\ outcome \in {"usable", "errored"}
       \/ book[r][i] = "planned" /\ outcome = "errored"
    /\ book' = [book EXCEPT ![r][i] = outcome]
    /\ UNCHANGED <<verdict, custodian, exposed>>

Abandon(r) ==
    /\ custodian = r
    /\ book' = [book EXCEPT ![r] = [i \in Items |->
                   IF book[r][i] = "called" THEN "unknown" ELSE book[r][i]]]
    /\ UNCHANGED <<verdict, custodian, exposed>>

Mint(r, status) ==
    /\ custodian = r
    /\ verdict[r] = "open"
    /\ \A i \in Items : book[r][i] \in Settled
    /\ status = "complete" => \A i \in Items : book[r][i] = "usable"
    /\ verdict' = [verdict EXCEPT ![r] = status]
    /\ custodian' = NoRun
    /\ UNCHANGED <<book, exposed>>

Expose ==
    /\ custodian = NoRun
    /\ exposed' = TRUE
    /\ UNCHANGED <<book, verdict, custodian>>

Next ==
    \/ \E r \in Runs : TakeCustody(r) \/ Reject(r) \/ Abandon(r)
    \/ \E r \in Runs, i \in Items : Call(r, i)
    \/ \E r \in Runs, i \in Items, o \in {"usable", "errored"} : Settle(r, i, o)
    \/ \E r \in Runs, s \in {"complete", "incomplete"} : Mint(r, s)
    \/ Expose

Spec == Init /\ [][Next]_vars
=============================================================================

----------------------------- MODULE MCEvalRun -----------------------------
(***************************************************************************)
(* TLC instances of EvalRun.                                               *)
(***************************************************************************)
EXTENDS EvalRun, TLC

Symmetry == Permutations(Handlers) \cup Permutations(Sweepers) \cup Permutations(Items)
=============================================================================

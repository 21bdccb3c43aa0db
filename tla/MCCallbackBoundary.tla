-------------------------- MODULE MCCallbackBoundary --------------------------
(* Instances of CallbackBoundary for TLC.                                   *)
EXTENDS CallbackBoundary, TLC

Interchangeable ==
    Permutations(Handles) \cup Permutations(Refs) \cup Permutations(Callers)
=============================================================================

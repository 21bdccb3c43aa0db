------------------------ MODULE MCDeliveryAttemptStore ------------------------
(***************************************************************************)
(* Instances of DeliveryAttemptStore for TLC.  MCSpec bounds a behaviour in *)
(* one of two ways: only the caller chosen in scope acts, on every ref and  *)
(* key, and every failed acknowledgement is eligible for retry; or all      *)
(* callers act, on the ref, delivery and key chosen in scope.               *)
(***************************************************************************)
EXTENDS DeliveryAttemptStore, TLC

VARIABLE scope      \* bound: the one caller, or the one ref, delivery and key

mcvars == <<vars, scope>>

MCInit == Init /\ scope \in Callers \cup (AttemptRefs \X DeliveryRefs \X Keys)

InScope(c) ==
    \/ /\ scope = c
       /\ call'[c].report # [accepted |-> FALSE, retry |-> "not-eligible"]
    \/ /\ scope \notin Callers
       /\ call'[c].ref \in {scope[1], None}
       /\ call'[c].delivery \in {scope[2], None}
       /\ call'[c].key \in {scope[3], None}

MCNext ==
    /\ Next
    /\ \A c \in Callers : call'[c] # call[c] => InScope(c)
    /\ UNCHANGED scope

MCSpec == MCInit /\ [][MCNext]_mcvars

Interchangeable ==
    Permutations(AttemptRefs) \cup Permutations(DeliveryRefs)
        \cup Permutations(Keys) \cup Permutations(Callers)
=============================================================================

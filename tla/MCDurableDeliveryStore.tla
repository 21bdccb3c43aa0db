------------------------ MODULE MCDurableDeliveryStore ------------------------
(***************************************************************************)
(* Instances of DurableDeliveryStore for TLC.  MCSpec bounds a behaviour in *)
(* one of two ways: only the caller chosen in scope acts, on every key and  *)
(* target; or all callers act, on the key and the target chosen in scope.   *)
(***************************************************************************)
EXTENDS DurableDeliveryStore, TLC

VARIABLE scope      \* bound: the one caller, or the one key and target

mcvars == <<vars, scope>>

MCInit ==
    /\ Init
    /\ scope \in Callers \cup (Keys \X Targets)
    /\ scope \notin Callers => \A k \in Keys : k # scope[1] => index[k] = None

InScope(c) ==
    \/ scope = c
    \/ /\ scope \notin Callers
       /\ call'[c].key \in {scope[1], None}
       /\ call'[c].target \in {scope[2], None}

MCNext ==
    /\ Next
    /\ \A c \in Callers : call'[c] # call[c] => InScope(c)
    /\ UNCHANGED scope

MCSpec == MCInit /\ [][MCNext]_mcvars

Interchangeable ==
    Permutations(DeliveryRefs) \cup Permutations(Keys)
        \cup Permutations(Targets) \cup Permutations(Callers)
=============================================================================

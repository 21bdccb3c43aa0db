--------------------- MODULE MCDurableCallbackTokenStore ---------------------
(* Instances of DurableCallbackTokenStore and AdapterState for TLC.          *)
EXTENDS DurableCallbackTokenStore, AdapterState, SequencesExt

VARIABLE part       \* what a behaviour is about: the tokens, or adapter state of some kinds

AllParts == {{"tokens"}} \cup {{"inbound", kind} : kind \in {"attempt", "cursor", "decision"}}

\* Records of the kinds that have calls of their own.
MCHostRecords ==
    {StateRecord("inbound", r, "reserved", {}) : r \in SafeRefs}
        \cup {StateRecord("attempt", r, "business-succeeded", {"acknowledged", "succeeded"}) : r \in SafeRefs}
        \cup {StateRecord("cursor", r, "processing", {"audit-only"}) : r \in SafeRefs}

\* Reloaded is what putting the records one by one comes to.
ASSUME ReloadedIsPutInOrder ==
    \A refs \in SUBSET SafeRefs : \A records \in [refs -> HostRecords] :
        Reloaded(records) = {FoldLeft(LAMBDA state, s : Put(state, s, records[s]), NoRecords, order) :
                                 order \in SetToSeqs(refs)}

\* A cursor is given in many ways: one call less of them.
CallsAllowed == IF "cursor" \in part THEN MaxStateCalls - 1 ELSE MaxStateCalls

MCInit == Init /\ AdapterInit /\ part \in AllParts
MCNext ==
    /\ \/ part = {"tokens"} /\ Next /\ UNCHANGED adapterVars
       \/ part # {"tokens"} /\ stateCalls < CallsAllowed /\ AdapterNext(part) /\ UNCHANGED vars
       \/ part # {"tokens"} /\ stateCalls = CallsAllowed /\ UNCHANGED <<vars, adapterVars>>
    /\ UNCHANGED part
MCSpec == MCInit /\ [][MCNext]_<<vars, adapterVars, part>>

Interchangeable ==
    Permutations(Tokens) \cup Permutations(Keys) \cup Permutations(Callers) \cup Permutations(SafeRefs)
=============================================================================

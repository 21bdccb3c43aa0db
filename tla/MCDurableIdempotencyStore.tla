---------------------- MODULE MCDurableIdempotencyStore ----------------------
(* Instances of DurableIdempotencyStore and DurableCoreStores for TLC.       *)
EXTENDS DurableIdempotencyStore, DurableCoreStores
VARIABLE part       \* which of the two modules a behaviour is about

Interchangeable ==
    Permutations(Keys) \cup Permutations(Operations) \cup Permutations(Callers)
    \cup Permutations(CoreCallers)

\* A record of each kind in the statuses that matter, two of the outbox, one without its kind,
\* one with a flaw.
MCCoreRecords ==
    LET given(key, kind, status) == [key |-> key, kind |-> kind, status |-> status, owner |-> {}, flaws |-> {}]
    IN {given("r1", "core.session-binding", "superseded"), given("r1", "unstated", "active"),
        given("r1", "core.presentation-outbox", "pending"), given("r2", "core.presentation-outbox", "claimed"),
        given("r1", "core.action-token", "issued"), given("r1", "core.action-token", "revoked"),
        [given("r1", "unstated", "active") EXCEPT !.flaws = {"ref"}]}

\* One store at a time: they share nothing.
MCInit ==
    /\ part \in {"idempotency", "core"}
    /\ Init /\ CoreInit
    /\ IF part = "core" THEN Cardinality(coreBoundary.stores) = 1
       ELSE coreBoundary = [stores |-> {}, exposes |-> {}]
MCNext ==
    /\ \/ part = "idempotency" /\ Next /\ UNCHANGED coreVars
       \/ part = "core" /\ CoreNext /\ UNCHANGED vars
    /\ UNCHANGED part
MCSpec == MCInit /\ [][MCNext]_<<vars, coreVars, part>>
=============================================================================

-------------------------- MODULE DurableCoreStores --------------------------
(***************************************************************************)
(* The adapters of durable-core-store-adapters.ts: session bindings, the    *)
(* presentation outbox and the action tokens, each over a boundary of get,  *)
(* put and, if it has them, delete and list.                                *)
(*                                                                          *)
(* Every call of a boundary is awaited: it acts at one step and is answered *)
(* at a later one, and other calls run between the two.  Consume is a get   *)
(* and a put.  The boundary keeps what it is given, so a record that        *)
(* another program wrote may be one that does not normalize.  An operator   *)
(* marked "Faulty" is a variant with a bug, used by no specification.       *)
(***************************************************************************)
EXTENDS Naturals, Sequences, FiniteSets, TLC

CONSTANTS
    CoreCallers,
    CoreKeys,
    CoreOwners,         \* claim refs and operation refs
    CoreRecords,        \* bound: the records that are put
    CoreLimits,         \* bound: how many records a list is asked for
    MaxCoreFaults       \* bound: boundary calls that reject

-----------------------------------------------------------------------------
(* The records                                                              *)

CoreStores == {"sessionBindingStore", "presentationOutboxStore", "presentationActionTokenStore"}

RecordKind(store) ==
    CASE store = "sessionBindingStore"      -> "core.session-binding"
      [] store = "presentationOutboxStore"  -> "core.presentation-outbox"
      [] OTHER                              -> "core.action-token"

SessionBindingStatuses == {"active", "superseded", "expired", "revoked"}
OutboxStatuses         == {"pending", "claimed", "delivered", "failed", "cancelled"}
ActionTokenStatuses    == {"issued", "verified", "consumed", "expired", "revoked"}

CoreStatuses(store) ==
    CASE store = "sessionBindingStore"     -> SessionBindingStatuses
      [] store = "presentationOutboxStore" -> OutboxStatuses
      [] OTHER                             -> ActionTokenStatuses

\* flaws: the parts of a record that do not normalize: a ref, the descriptor of its payload, a
\* field that the kind does not have, or a protected term in its key.
CoreFlaws == {"key", "ref", "descriptor", "field"}
BaseFieldsAccepted(r) == "descriptor" \notin r.flaws /\ "ref" \notin r.flaws

NormalizesAs(store, r) ==
    /\ r.kind \in {"unstated", RecordKind(store)}
    /\ "field" \notin r.flaws
    /\ BaseFieldsAccepted(r)
    /\ "key" \notin r.flaws
    /\ r.status \in CoreStatuses(store)

\* What it becomes: the kind is filled in.
Normalized(store, r) == [r EXCEPT !.kind = RecordKind(store)]

ASSUME CoreStoresAssumption ==
    /\ MaxCoreFaults \in Nat /\ CoreLimits \subseteq Nat \ {0}
    /\ \A r \in CoreRecords : r.key \in CoreKeys /\ r.flaws \subseteq CoreFlaws /\ r.owner \subseteq CoreOwners

-----------------------------------------------------------------------------
VARIABLES
    stored,         \* what the boundary of each store holds: records by key
    coreBoundary,   \* the stores that are configured, and whether their boundaries have delete and list
    coreCall,       \* the call of each caller: what it read, whether it wrote, its answer
    coreFaults      \* boundary calls that have rejected

coreVars == <<stored, coreBoundary, coreCall, coreFaults>>

\* What a call has not got yet is "none" or empty; a record it writes is a set of one.
NoCoreCall ==
    [pc |-> "idle", operation |-> "none", store |-> "none", key |-> "none", owner |-> {}, filter |-> {},
     limit |-> {}, fresh |-> {}, value |-> {}, asOf |-> {}, answer |-> "none", wrote |-> FALSE, stale |-> FALSE]

\* createDurableCoreStoreAdapterBundle: an adapter for each boundary given, none at all if one
\* of them is malformed.
BundleStores(boundaries) ==
    IF \E s \in DOMAIN boundaries : boundaries[s] = "malformed" THEN {} ELSE DOMAIN boundaries

CoreInit ==
    /\ stored = [s \in CoreStores |-> <<>>]
    /\ \E given \in SUBSET CoreStores : \E boundaries \in [given -> {"sound", "malformed"}] :
          coreBoundary \in [stores : {BundleStores(boundaries)}, exposes : SUBSET {"delete", "list"}]
    /\ coreCall = [c \in CoreCallers |-> NoCoreCall]
    /\ coreFaults = 0

CoreAt(c, pc) == coreCall[c].pc = pc
CoreSet(c, call) == coreCall' = [coreCall EXCEPT ![c] = call]

\* isDurableCoreRecordStore: get and put are functions, delete and list may be missing.
Exposes(operation) == operation \in {"get", "put"} \cup coreBoundary.exposes

CoreBegun(operation, pc, store, key) ==
    [NoCoreCall EXCEPT !.operation = operation, !.pc = pc, !.store = store, !.key = key]

CoreStarted(c, call) ==
    /\ CoreAt(c, "idle")
    /\ CoreSet(c, call)
    /\ UNCHANGED <<stored, coreBoundary, coreFaults>>

\* Before the boundary is asked: what it does not expose comes before what is not accepted.
CoreRefused(c, operation, answer) ==
    /\ CoreAt(c, "idle")
    /\ CoreSet(c, [NoCoreCall EXCEPT !.operation = operation, !.answer = answer])
    /\ UNCHANGED <<stored, coreBoundary, coreFaults>>

\* What a call leaves behind is its operation, its answer and whether it wrote.
CoreAnswer(c, answer) ==
    CoreSet(c, [NoCoreCall EXCEPT !.operation = coreCall[c].operation, !.answer = answer,
                                  !.wrote = coreCall[c].wrote])

\* The boundary rejects the call.
CoreRejects(c) ==
    /\ coreFaults < MaxCoreFaults
    /\ coreFaults' = coreFaults + 1
    /\ CoreAnswer(c, "dependency-failed")

-----------------------------------------------------------------------------
(* createSafeGetOperation                                                   *)

BeginGet(c, store, key) == CoreStarted(c, CoreBegun("get", "reading", store, key))
RejectKey(c) == CoreRefused(c, "get", "invalid-input")

StoredUnder(store, key) == {stored[store][k] : k \in {key} \cap DOMAIN stored[store]}

\* The boundary is read; whoever overwrites the record from now on, the reader does not see.
CoreRead(c) ==
    /\ CoreAt(c, "reading")
    /\ coreCall[c].operation \in {"get", "consume"}
    /\ CoreSet(c, [coreCall[c] EXCEPT !.pc = "read", !.value = StoredUnder(coreCall[c].store, coreCall[c].key)])
    /\ UNCHANGED <<stored, coreBoundary, coreFaults>>

Readable(c) == \A r \in coreCall[c].value : NormalizesAs(coreCall[c].store, r)

GetAnswered(c) ==
    /\ CoreAt(c, "read")
    /\ coreCall[c].operation = "get"
    /\ \/ ~Readable(c) /\ CoreAnswer(c, "invalid-input") /\ UNCHANGED coreFaults
       \/ Readable(c) /\ CoreAnswer(c, "ok") /\ UNCHANGED coreFaults
       \/ CoreRejects(c)
    /\ UNCHANGED <<stored, coreBoundary>>

-----------------------------------------------------------------------------
(* createSafePutOperation and createSafeDeleteOperation                     *)

BeginPut(c, store, r) ==
    /\ NormalizesAs(store, r)
    /\ CoreStarted(c, [CoreBegun("put", "writing", store, r.key) EXCEPT !.fresh = {Normalized(store, r)}])

RejectRecord(c, store, r) == ~NormalizesAs(store, r) /\ CoreRefused(c, "put", "invalid-input")

BeginDelete(c, store, key) == Exposes("delete") /\ CoreStarted(c, CoreBegun("delete", "writing", store, key))
DeleteMissing(c) == ~Exposes("delete") /\ CoreRefused(c, "delete", "dependency-missing")

\* Every consumption that has read this record has read one that is no longer there.
Outdate(store, key) ==
    [d \in CoreCallers |->
        IF /\ coreCall[d].operation = "consume" /\ coreCall[d].pc \in {"read", "writing"}
           /\ coreCall[d].store = store /\ coreCall[d].key = key
        THEN [coreCall[d] EXCEPT !.stale = TRUE] ELSE coreCall[d]]

WithRecord(records, key, r) ==
    [k \in DOMAIN records \cup {key} |-> IF k = key THEN r ELSE records[k]]
WithoutRecord(records, key) == [k \in DOMAIN records \ {key} |-> records[k]]

\* The boundary writes: the last write stands, whatever the record was.
CoreWrite(c) ==
    LET call == coreCall[c]
    IN /\ CoreAt(c, "writing")
       /\ stored' = [stored EXCEPT ![call.store] =
             IF call.operation = "delete" THEN WithoutRecord(@, call.key)
             ELSE WithRecord(@, call.key, CHOOSE r \in call.fresh : TRUE)]
       /\ coreCall' = [Outdate(call.store, call.key) EXCEPT ![c] = [call EXCEPT !.pc = "written", !.wrote = TRUE]]
       /\ UNCHANGED <<coreBoundary, coreFaults>>

\* It rejects before it wrote or after it.
WriteAnswered(c) ==
    /\ \/ CoreAt(c, "written") /\ CoreAnswer(c, "ok") /\ UNCHANGED coreFaults
       \/ coreCall[c].pc \in {"writing", "written"} /\ CoreRejects(c)
    /\ UNCHANGED <<stored, coreBoundary>>

-----------------------------------------------------------------------------
(* createSafeListOperation; listPendingPresentationOutboxRecords is the     *)
(* list of the pending records of the outbox, without a limit.              *)

BeginList(c, store, filter, limit) ==
    /\ Exposes("list")
    /\ CoreStarted(c, [CoreBegun("list", "reading", store, "none") EXCEPT !.filter = filter, !.limit = limit])
ListMissing(c) == ~Exposes("list") /\ CoreRefused(c, "list", "dependency-missing")
RejectFilter(c) == Exposes("list") /\ CoreRefused(c, "list", "invalid-input")

StoredRecords(store) == {stored[store][k] : k \in DOMAIN stored[store]}

\* Faulty: what the boundary gives is taken to be filtered.
FilterByBoundary(given, filter) == given

FilterByStatus(given, filter) == {r \in given : filter = {} \/ r.status \in filter}

\* The first records up to the limit, in an order that is the boundary's.
LimitTo(records, limit) ==
    IF \A n \in limit : Cardinality(records) <= n THEN {records}
    ELSE {first \in SUBSET records : Cardinality(first) \in limit}

\* A boundary that filters by itself, with or without the limit, or that gives all it has: the
\* adapter does both again.
CoreList(c) ==
    /\ CoreAt(c, "reading")
    /\ coreCall[c].operation = "list"
    /\ LET all == StoredRecords(coreCall[c].store)
           match == {r \in all : coreCall[c].filter = {} \/ r.status \in coreCall[c].filter}
       IN \E given \in {all, match} \cup LimitTo(match, coreCall[c].limit) :
             CoreSet(c, [coreCall[c] EXCEPT !.pc = "read", !.value = given, !.asOf = match])
    /\ UNCHANGED <<stored, coreBoundary, coreFaults>>

\* One record that does not normalize fails the whole list.
ListAnswered(c) ==
    /\ CoreAt(c, "read")
    /\ coreCall[c].operation = "list"
    /\ \/ ~Readable(c) /\ CoreAnswer(c, "invalid-input") /\ UNCHANGED coreFaults
       \/ /\ Readable(c)
          /\ \E first \in LimitTo(FilterByStatus(coreCall[c].value, coreCall[c].filter), coreCall[c].limit) :
                CoreSet(c, [coreCall[c] EXCEPT !.pc = "idle", !.answer = "ok", !.value = first])
          /\ UNCHANGED coreFaults
       \/ CoreRejects(c)
    /\ UNCHANGED <<stored, coreBoundary>>

-----------------------------------------------------------------------------
(* consumeActionTokenRecord                                                 *)

BeginConsume(c, key, owner) ==
    CoreStarted(c, [CoreBegun("consume", "reading", "presentationActionTokenStore", key) EXCEPT !.owner = owner])

\* Faulty: only a consumed token is refused.
ConsumableButConsumed(r) == r.status # "consumed"

Consumable(r) == r.status \notin {"consumed", "expired", "revoked"}

\* An operation ref that is not given leaves the one that is there.
ConsumedBy(store, r, owner) ==
    [Normalized(store, r) EXCEPT !.status = "consumed", !.owner = IF owner = {} THEN @ ELSE owner]

\* After the get: what is not there, what is not readable and what may not be consumed.  What
\* the caller says of the consumption is looked at last.
ConsumeDecided(c) ==
    /\ CoreAt(c, "read")
    /\ coreCall[c].operation = "consume"
    /\ \/ CoreRejects(c)
       \/ /\ UNCHANGED coreFaults
          /\ \/ ~Readable(c) /\ CoreAnswer(c, "invalid-input")
             \/ coreCall[c].value = {} /\ CoreAnswer(c, "not-found")
             \/ \E r \in coreCall[c].value :
                   /\ Readable(c)
                   /\ \/ ~Consumable(r) /\ CoreAnswer(c, "conflict")
                      \/ Consumable(r) /\ CoreAnswer(c, "invalid-input")
                      \/ Consumable(r) /\ CoreSet(c, [coreCall[c] EXCEPT !.pc = "writing",
                            !.fresh = {ConsumedBy(coreCall[c].store, r, coreCall[c].owner)}])
    /\ UNCHANGED <<stored, coreBoundary>>

-----------------------------------------------------------------------------
(* The bundle, and the specification                                        *)

\* Another program leaves a record that does not normalize.
Tamper(store, r) ==
    /\ r.flaws # {}
    /\ stored' = [stored EXCEPT ![store] = WithRecord(@, r.key, r)]
    /\ coreCall' = Outdate(store, r.key)
    /\ UNCHANGED <<coreBoundary, coreFaults>>

CoreStart(c, store) ==
    \/ \E key \in CoreKeys : BeginGet(c, store, key) \/ BeginDelete(c, store, key)
    \/ \E r \in CoreRecords : BeginPut(c, store, r) \/ RejectRecord(c, store, r)
    \/ \E filter \in {{}} \cup {{s} : s \in {"pending", "active"}}, limit \in {{}} \cup {{n} : n \in CoreLimits} :
          BeginList(c, store, filter, limit)
    \/ RejectKey(c) \/ DeleteMissing(c) \/ ListMissing(c) \/ RejectFilter(c)

CoreStep(c) ==
    \/ CoreRead(c) \/ GetAnswered(c) \/ CoreWrite(c) \/ WriteAnswered(c)
    \/ CoreList(c) \/ ListAnswered(c) \/ ConsumeDecided(c)

CoreNext ==
    \/ \E c \in CoreCallers : CoreStep(c)
    \/ \E c \in CoreCallers, store \in coreBoundary.stores : CoreStart(c, store)
    \/ \E c \in CoreCallers, key \in CoreKeys, owner \in {{}} \cup {{o} : o \in CoreOwners} :
          "presentationActionTokenStore" \in coreBoundary.stores /\ BeginConsume(c, key, owner)
    \/ \E store \in coreBoundary.stores, r \in CoreRecords : Tamper(store, r)

CoreSpec == CoreInit /\ [][CoreNext]_coreVars

-----------------------------------------------------------------------------
(* Properties                                                               *)

\* An answer tells what the boundary did: ok to a write that it wrote, ok to a list the records
\* it held that match, all of them or as many as were asked for, a failure that may not be
\* retried that nothing was written.  durable-core-store-adapters.ts 685-794.
CoreAnswersAreTrue ==
    \A c \in CoreCallers : LET call == coreCall[c] IN
        call.pc = "idle" =>
            /\ call.answer = "ok" /\ call.operation \in {"put", "delete", "consume"} => call.wrote
            /\ call.wrote => call.answer \in {"ok", "dependency-failed"}
            /\ call.answer = "ok" /\ call.operation = "list" =>
                   /\ call.value \subseteq call.asOf
                   /\ call.value = call.asOf \/ Cardinality(call.value) \in call.limit

\* A token is consumed only if it could be, as it stands at that moment: one that was consumed,
\* has expired, was revoked or deleted is overwritten only by a consumption that had read it
\* before that happened.  durable-core-store-adapters.ts 991-1032.
OnlyOverlapsOverwrite ==
    [][\A c \in CoreCallers :
          CoreAt(c, "writing") /\ coreCall'[c].pc = "written" /\ coreCall[c].operation = "consume"
            /\ ~coreCall[c].stale =>
              \E r \in StoredUnder(coreCall[c].store, coreCall[c].key) : r.status \in {"issued", "verified"}
      ]_coreVars
=============================================================================

----------------------------- MODULE AdapterState -----------------------------
(***************************************************************************)
(* The adapter state store of the OpenClaw adapter,                         *)
(* durable-state/fake-inert-adapter-state-store-port.ts, and the replay and *)
(* idempotency boundary in front of it,                                     *)
(* fake-inert-replay-idempotency-state-boundary.ts.                         *)
(*                                                                          *)
(* The store keeps one record under each safe ref, whatever its kind, and   *)
(* finds three of the kinds by a ref of their own.  It is synchronous: each *)
(* action is a whole call.  A host can also write records itself, and can   *)
(* start the store again from a snapshot it took earlier.                   *)
(*                                                                          *)
(* An operator marked "Faulty" is a variant with a bug, used by no          *)
(* specification; it shows that a property can fail.                        *)
(***************************************************************************)
EXTENDS Naturals, Sequences

CONSTANTS
    SafeRefs,           \* refs a record is kept under; those of each kind are among them
    HostRecords,        \* bound: the records a host writes by itself
    MaxStateCalls       \* bound: calls of a behaviour, of the kinds it is about

\* The kinds that are found by a ref of their own, callback decisions, and the six others.
StateKinds == {"inbound", "attempt", "cursor", "decision", "other"}

ASSUME AdapterStateAssumption ==
    /\ MaxStateCalls \in Nat
    /\ \A record \in HostRecords : record.kind \in StateKinds /\ record.ref \in SafeRefs

\* What a record carries that is not of its kind, its posture, its refs, its summary, or JSON at all.
StateFlaws == {"field", "posture", "ref", "summary", "value"}

\* ref is what a record of the three kinds is found by; facts are the flags the boundary reads back.
StateRecord(kind, ref, status, facts) == [kind |-> kind, ref |-> ref, status |-> status, facts |-> facts]
KeyOf(record) == <<record.kind, record.ref>>

VARIABLES
    adapterState,   \* the records by safe ref, and the safe ref each key is found under
    stateSnapshot,  \* the records of the last public snapshot
    stateAnswer,    \* the outcome the boundary last told, and the key it was about
    signalled,      \* history: how often the effect of each idempotency ref was signalled
    completed,      \* history: how often it was told to be completed
    overruled,      \* history: idempotency refs whose record the host replaced, gave, or let go in a restart
    written,        \* history: attempts and cursors the host wrote past the calls that are for them
    stateCalls      \* calls so far

adapterVars == <<adapterState, stateSnapshot, stateAnswer, signalled, completed, overruled, written, stateCalls>>

NoRecords == [records |-> <<>>, index |-> <<>>]
NoAnswer == <<"none">>

Without(f, S) == [x \in DOMAIN f \ S |-> f[x]]
InboundIn(records) == {records[s].ref : s \in {t \in DOMAIN records : records[t].kind = "inbound"}}

AdapterInit ==
    /\ adapterState = NoRecords /\ stateSnapshot = <<>> /\ stateAnswer = NoAnswer
    /\ signalled = [r \in SafeRefs |-> 0] /\ completed = [r \in SafeRefs |-> 0]
    /\ overruled = {} /\ written = {} /\ stateCalls = 0

-----------------------------------------------------------------------------
(* Writing a record.                                                        *)

\* Faulty: the key of the record that is replaced is kept.
RemovesNothing(index, records, s) == index

\* The key of the record under s goes, wherever it points.
RemoveIndexes(index, records, s) ==
    Without(index, {KeyOf(records[t]) : t \in {s} \cap DOMAIN records})

IndexedKeys == {"inbound", "attempt", "cursor"} \X SafeRefs
AddIndexes(index, s, record) ==
    LET added == {KeyOf(record)} \cap IndexedKeys
    IN [k \in DOMAIN index \cup added |-> IF k \in added THEN s ELSE index[k]]

Put(state, s, record) ==
    [records |-> [t \in DOMAIN state.records \cup {s} |-> IF t = s THEN record ELSE state.records[t]],
     index   |-> AddIndexes(RemoveIndexes(state.index, state.records, s), s, record)]

\* appendOrUpsertDeliveryAttempt, updateReplayCursorState: a record that moves leaves its old place first.
Moved(state, s, key) ==
    LET old == {state.index[k] : k \in {key} \cap DOMAIN state.index} \ {s}
    IN [records |-> Without(state.records, old),
        index   |-> Without(state.index, IF old = {} THEN {} ELSE {key})]

\* A host that puts a record over an idempotency ref's, or gives one of it, answers for it.
Overrules(s, record) ==
    overruled' = overruled \cup InboundIn([t \in {s} \cap DOMAIN adapterState.records |-> adapterState.records[t]])
                           \cup InboundIn([t \in {s} |-> record])

-----------------------------------------------------------------------------
(* Idempotency refs of inbound events.                                      *)

\* Faulty: a reservation is only known until it is completed.
ReservesCompleted(r) ==
    \A k \in {<<"inbound", r>>} \cap DOMAIN adapterState.index :
        adapterState.records[adapterState.index[k]].status = "completed"

IsFirstSeen(r) == <<"inbound", r>> \notin DOMAIN adapterState.index

ReserveInbound(r) ==
    \/ /\ IsFirstSeen(r)
       /\ adapterState' = Put(adapterState, r, StateRecord("inbound", r, "reserved", {}))
       /\ signalled' = [signalled EXCEPT ![r] = @ + 1]
       /\ stateAnswer' = <<"first-seen", <<"inbound", r>>>>
       /\ UNCHANGED <<stateSnapshot, completed, overruled, written>>
    \/ /\ ~IsFirstSeen(r)
       /\ stateAnswer' = <<"duplicate-suppressed", <<"inbound", r>>>>
       /\ UNCHANGED <<adapterState, stateSnapshot, signalled, completed, overruled, written>>

CompleteInbound(r) ==
    LET s == adapterState.index[<<"inbound", r>>]
        standing == adapterState.records[s]
    IN \/ /\ IsFirstSeen(r)             \* missing-inbound-reservation
          /\ stateAnswer' = <<"threw">>
          /\ UNCHANGED <<adapterState, stateSnapshot, signalled, completed, overruled, written>>
       \/ /\ ~IsFirstSeen(r) /\ standing.status # "completed"
          /\ adapterState' = Put(adapterState, s, StateRecord("inbound", r, "completed", standing.facts))
          /\ completed' = [completed EXCEPT ![r] = @ + 1]
          /\ stateAnswer' = <<"completed", <<"inbound", r>>>>
          /\ UNCHANGED <<stateSnapshot, signalled, overruled, written>>
       \/ /\ ~IsFirstSeen(r) /\ standing.status = "completed"
          /\ stateAnswer' = <<"duplicate-suppressed", <<"inbound", r>>>>
          /\ UNCHANGED <<adapterState, stateSnapshot, signalled, completed, overruled, written>>

-----------------------------------------------------------------------------
(* Replay cursors, delivery attempts and callback decisions.                *)

\* The boundary keeps a record under its own ref.  One of its values may be refused, after the move.
Upsert(kind, r, record, outcome) ==
    LET moved == Moved(adapterState, r, <<kind, r>>)
    IN /\ \/ /\ adapterState' = Put(moved, r, record)
             /\ Overrules(r, record)
             /\ stateAnswer' = <<outcome, <<kind, r>>>>
          \/ /\ adapterState' = moved
             /\ stateAnswer' = <<"threw">>
             /\ UNCHANGED overruled
       /\ UNCHANGED <<stateSnapshot, signalled, completed, written>>

ReplayModes == {"audit-only", "duplicate-check", "bounded-replay-plan"}
CursorStatuses == {"processing", "safe-noop", "blocked", "completed", "failed-safe"}
CursorInputs == [mode : ReplayModes, status : {{}} \cup {{s} : s \in CursorStatuses}]
CursorStatus(input) ==
    CHOOSE s \in IF input.status # {} THEN input.status
                 ELSE IF input.mode = "audit-only" THEN {"safe-noop"} ELSE {"processing"} : TRUE
CursorOutcome(record) ==
    IF record.status \in {"blocked", "completed", "failed-safe"} THEN record.status
    ELSE CHOOSE m \in record.facts : TRUE
AdvanceReplayCursor(r, input) ==
    LET record == StateRecord("cursor", r, CursorStatus(input), {input.mode})
    IN Upsert("cursor", r, record, CursorOutcome(record))

AttemptInputs == SUBSET {"gated", "acknowledged", "succeeded"}
AttemptStatus(input) ==
    CASE "gated" \in input        -> "blocked"
      [] "gated" \notin input /\ "succeeded" \in input -> "business-succeeded"
      [] input = {"acknowledged"} -> "acknowledgement-only"
      [] input = {}               -> "failed-safe"

AttemptOutcome(record) ==
    CASE record.status = "blocked"        -> "blocked"
      [] record.status # "blocked" /\ "succeeded" \in record.facts -> "business-succeeded"
      [] record.status # "blocked" /\ record.facts = {"acknowledged"} -> "acknowledgement-only"
      [] record.status # "blocked" /\ record.facts = {} -> "failed-safe"
RecordAttemptOutcome(r, input) ==
    LET record == StateRecord("attempt", r, AttemptStatus(input), input \ {"gated"})
    IN Upsert("attempt", r, record, AttemptOutcome(record))

\* Nothing is looked up: whether the token was consumed is what the caller says.
DecisionInputs == SUBSET {"permitted", "already-consumed"}
ConsumeStatus(input) ==
    CASE "permitted" \notin input -> "blocked"
      [] input = {"permitted", "already-consumed"} -> "duplicate-suppressed"
      [] input = {"permitted"}    -> "consumed"
DecideCallbackConsume(r, input) ==
    LET status == ConsumeStatus(input)
        consumed == status = "consumed" \/ "already-consumed" \in input
        record == StateRecord("decision", r, status, IF consumed THEN {"token-consumed"} ELSE {})
    IN /\ adapterState' = Put(adapterState, r, record)
       /\ Overrules(r, record)
       /\ stateAnswer' = <<IF status = "consumed" THEN "completed" ELSE status, <<"decision", r>>>>
       /\ UNCHANGED <<stateSnapshot, signalled, completed, written>>

-----------------------------------------------------------------------------
(* The store by itself, and the host.                                       *)

\* putRecord, of a record that a host made: all of it is checked before anything is written.
PutRecord(s, record) ==
    /\ adapterState' = Put(adapterState, s, record)
    /\ Overrules(s, record)
    /\ written' = written \cup {KeyOf(record)}
    /\ stateAnswer' = NoAnswer
    /\ UNCHANGED <<stateSnapshot, signalled, completed>>

RefuseRecord(flaws) ==
    /\ flaws # {}
    /\ stateAnswer' = <<"threw">>
    /\ UNCHANGED <<adapterState, stateSnapshot, signalled, completed, overruled, written>>

\* The calls of the store for attempts and cursors leave the place of the record to the host.
MoveRecord(s, record, flaws) ==
    LET moved == Moved(adapterState, s, KeyOf(record))
    IN /\ record.kind \in {"attempt", "cursor"}
       /\ \/ /\ flaws = {} /\ adapterState' = Put(moved, s, record) /\ Overrules(s, record)
             /\ stateAnswer' = NoAnswer
          \/ /\ flaws # {} /\ adapterState' = moved /\ UNCHANGED overruled
             /\ stateAnswer' = <<"threw">>
       /\ UNCHANGED <<stateSnapshot, signalled, completed, written>>

\* publicSnapshot: the records, without the keys.
PublicSnapshot ==
    /\ stateSnapshot' = adapterState.records
    /\ stateAnswer' = NoAnswer
    /\ UNCHANGED <<adapterState, signalled, completed, overruled, written>>

\* Records put into a new store one by one, in any order: a key that two of them share leads to the last one.
Reloaded(records) ==
    LET keys == {KeyOf(records[s]) : s \in DOMAIN records} \cap IndexedKeys
    IN {[records |-> records, index |-> index] :
            index \in {f \in [keys -> DOMAIN records] : \A k \in keys : KeyOf(records[f[k]]) = k}}

\* A new store is given the records of the snapshot.
Restart ==
    /\ adapterState' \in Reloaded(stateSnapshot)
    /\ overruled' = overruled \cup {r \in SafeRefs : \E s \in DOMAIN adapterState.records :
                       /\ adapterState.records[s].kind = "inbound" /\ adapterState.records[s].ref = r
                       /\ \A t \in DOMAIN stateSnapshot : stateSnapshot[t] # adapterState.records[s]}
    /\ stateAnswer' = NoAnswer
    /\ UNCHANGED <<stateSnapshot, signalled, completed, written>>

AdapterNext(kinds) ==
    /\ stateCalls < MaxStateCalls /\ stateCalls' = stateCalls + 1
    /\ \/ \E r \in SafeRefs : ReserveInbound(r) \/ CompleteInbound(r)
       \/ "cursor" \in kinds /\ \E r \in SafeRefs, input \in CursorInputs : AdvanceReplayCursor(r, input)
       \/ "attempt" \in kinds /\ \E r \in SafeRefs, input \in AttemptInputs : RecordAttemptOutcome(r, input)
       \/ "decision" \in kinds /\ \E r \in SafeRefs, input \in DecisionInputs : DecideCallbackConsume(r, input)
       \/ \E s \in SafeRefs, record \in HostRecords :
              /\ record.kind \in kinds
              /\ \/ PutRecord(s, record)
                 \/ \E flaws \in {{}, StateFlaws} : MoveRecord(s, record, flaws)
       \/ RefuseRecord(StateFlaws)
       \/ PublicSnapshot
       \/ Restart
AdapterSpec == AdapterInit /\ [][AdapterNext(StateKinds)]_adapterVars

-----------------------------------------------------------------------------
(* The effect of an inbound event is signalled once, and it is told to be   *)
(* completed once, through every write, move and restart of the store,      *)
(* unless the host itself replaced or gave the record of its ref, or        *)
(* started again from a snapshot that does not have it: a duplicate found   *)
(* by its key never signals (reserveInboundIdempotencyRef).                 *)
EffectsAreSignalledOnce ==
    \A r \in SafeRefs \ overruled : signalled[r] <= 1 /\ completed[r] <= 1

(* The keys of the store and its records agree: a key leads to a record     *)
(* that has it (so that a move never deletes another's record), an attempt  *)
(* or cursor that was only written by its own call has one record, and what *)
(* the boundary just told of a key is what the record of the key says.      *)
StateIndexIsSound ==
    LET records == adapterState.records
        index == adapterState.index
        About(key) == {s \in DOMAIN records : KeyOf(records[s]) = key}
    IN /\ \A key \in DOMAIN index : index[key] \in About(key)
       /\ \A s \in DOMAIN records :
              LET key == KeyOf(records[s])
              IN records[s].kind \in {"attempt", "cursor"} /\ key \notin written =>
                     About(key) = {s} /\ key \in DOMAIN index
       /\ Len(stateAnswer) = 2 =>
              \E s \in About(stateAnswer[2]) :
                  /\ stateAnswer[1] = "first-seen" => records[s].status = "reserved"
                  /\ stateAnswer[1] = "business-succeeded" => records[s].status = "business-succeeded"
                  /\ stateAnswer[2][1] = "inbound" /\ stateAnswer[1] = "completed" => records[s].status = "completed"
=============================================================================

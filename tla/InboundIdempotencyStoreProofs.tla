-------------------- MODULE InboundIdempotencyStoreProofs --------------------
(***************************************************************************)
(* Proofs about what the adapter keeps of inbound events and of topics, and *)
(* about how a mode to receive them is started.  InboundIdempotencyStore,   *)
(* for any number of keys, events, operations in flight and rejected        *)
(* boundary calls: types, what a restart remembers, and that the store      *)
(* implements IdempotencyLedger.  TopicBindings, for any number of topics,  *)
(* refs, upserts in flight, ids and snapshots: what either store keeps of a *)
(* topic is found by the topic, and versions grow.  RuntimeModes: a mode is *)
(* ready or started only with every gate open.                              *)
(***************************************************************************)
EXTENDS InboundIdempotencyStore, TopicBindings, RuntimeModes, TLAPS

-----------------------------------------------------------------------------
(* The store of inbound events                                              *)

\* An operation in flight has a key; one that reserves or writes has a record.
SoundFlight(x) ==
    /\ x.pc # "idle" => x.key \in Keys
    /\ x.pc \in {"reserveRead", "reserveWrite", "seenWrite", "settleWrite"}
          => x.fresh \in Records

\* The inductive invariant.
IInv == TypeOK /\ DispatchIsRemembered /\ \A c \in Callers : SoundFlight(call[c])

\* A step that moves one operation and leaves the records alone.
Moves(c, x) ==
    /\ x \in Calls
    /\ SoundFlight(x)
    /\ call' = [call EXCEPT ![c] = x]
    /\ UNCHANGED <<record, dispatched>>
    /\ overlapped' \subseteq Keys
    /\ failures' \in Nat

LEMMA EndedSound == \A answer \in Replies : Ended(answer) \in Calls /\ SoundFlight(Ended(answer))
  BY DEF Ended, Calls, Pcs, SoundFlight

LEMMA MovesKeeps ==
    ASSUME IInv, NEW c \in Callers, NEW x, Moves(c, x)
    PROVE  IInv'
  BY DEF IInv, TypeOK, DispatchIsRemembered, SoundFlight, Moves

LEMMA ReturnKeeps ==
    ASSUME IInv, NEW c \in Callers, NEW answer \in Replies, Return(c, answer),
           UNCHANGED <<record, dispatched>>, failures' \in Nat
    PROVE  IInv'
<1>1. Moves(c, Ended(answer))
  BY EndedSound DEF Moves, Return, IInv, TypeOK
<1> QED
  BY <1>1, MovesKeeps

LEMMA FailsTyped == ASSUME TypeOK, Fails PROVE failures' \in Nat
  BY InboundAssumption DEF TypeOK, Fails

\* What an operation that read goes on to write is a record.
LEMMA WriteKeeps ==
    ASSUME IInv, NEW c \in Callers, call[c].key \in Keys,
           NEW p \in {"reserveWrite", "seenWrite", "settleWrite"}, NEW fresh \in Records,
           Write(c, p, fresh), UNCHANGED <<record, dispatched, failures>>
    PROVE  IInv'
<1>1. Moves(c, Started(p, call[c].key, fresh))
  BY DEF Moves, Write, Started, SoundFlight, Calls, Pcs, Replies, IInv, TypeOK
<1> QED
  BY <1>1, MovesKeeps

LEMMA ReadKeeps ==
    ASSUME IInv, NEW c \in Callers, ReserveRead(c) \/ CompleteRead(c) \/ FailRead(c)
    PROVE  IInv'
<1>1. UNCHANGED <<record, dispatched, failures>> /\ failures \in Nat /\ call[c].key \in Keys
  BY DEF ReserveRead, CompleteRead, FailRead, IInv, TypeOK, SoundFlight, At
<1>2. Existing(c) \in Records \cup {None}
  BY <1>1 DEF Existing, IInv, TypeOK
<1>3. CASE \E answer \in Replies : Return(c, answer)
  BY <1>1, <1>3, ReturnKeeps
<1>4. CASE ReserveRead(c)
  <2>1. call[c].fresh \in Records
    BY <1>4 DEF ReserveRead, IInv, SoundFlight, At
  <2> QED
    BY <1>1, <1>2, <1>4, <2>1, WriteKeeps DEF ReserveRead
<1>5. ASSUME Found(c, {"reserved"}), NEW outcome \in {"completed", "failed"},
             Write(c, "settleWrite", Settled(Existing(c), outcome))
      PROVE  IInv'
  <2>1. Settled(Existing(c), outcome) \in Records
    BY <1>2, <1>5 DEF Found, Settled, Records, Statuses
  <2> QED
    BY <1>1, <1>5, <2>1, WriteKeeps
<1> QED
  BY <1>3, <1>4, <1>5 DEF CompleteRead, FailRead, Replies

\* A put of a record under the key of an operation.
LEMMA PutKeeps ==
    ASSUME IInv, NEW c \in Callers, Writing(c), Put(c), NEW answer \in Replies,
           Return(c, answer), failures' \in Nat,
           \/ UNCHANGED dispatched
           \/ dispatched' = [dispatched EXCEPT ![call[c].key] = IF @ = 0 THEN 1 ELSE 2]
    PROVE  IInv'
<1>1. call[c].key \in Keys /\ call[c].fresh \in Records
  BY DEF Writing, IInv, SoundFlight
<1>2. TypeOK'
  BY <1>1, EndedSound DEF IInv, TypeOK, Put, Return
<1>3. DispatchIsRemembered'
  BY <1>1, InboundAssumption DEF IInv, TypeOK, DispatchIsRemembered, Put
<1>4. \A b \in Callers : SoundFlight(call[b])'
  BY EndedSound DEF IInv, TypeOK, Return, SoundFlight
<1> QED
  BY <1>2, <1>3, <1>4 DEF IInv

LEMMA Initial == Init => IInv
  BY EndedSound, InboundAssumption
  DEF Init, IInv, TypeOK, DispatchIsRemembered, Ended, SoundFlight, Replies

LEMMA BeginKeeps ==
    ASSUME IInv, NEW c \in Callers, NEW k \in Keys, NEW e \in Events,
           BeginReserve(c, k, e) \/ BeginComplete(c, k) \/ BeginFail(c, k)
    PROVE  IInv'
<1>1. NewRecord(e) \in Records
  BY DEF NewRecord, Records, Statuses
<1>2. \E p \in Pcs, fresh \in Records \cup {None} : Moves(c, Started(p, k, fresh))
  BY <1>1 DEF BeginReserve, BeginComplete, BeginFail, Begin, Reach, Moves, Started, SoundFlight,
              Calls, Pcs, Replies, IInv, TypeOK
<1> QED
  BY <1>2, MovesKeeps

LEMMA Inductive == IInv /\ [Next]_vars => IInv'
<1> SUFFICES ASSUME IInv, [Next]_vars PROVE IInv'
  OBVIOUS
<1>1. CASE UNCHANGED vars
  BY <1>1 DEF vars, IInv, TypeOK, DispatchIsRemembered, SoundFlight
<1>2. ASSUME NEW c \in Callers, Start(c) PROVE IInv'
  <2>1. CASE RejectInput(c)
    BY <2>1, ReturnKeeps DEF RejectInput, Replies, IInv, TypeOK
  <2>2. ASSUME NEW k \in Keys, BeginComplete(c, k) \/ BeginFail(c, k) PROVE IInv'
    <3>1. Moves(c, Started("completeRead", k, None)) \/ Moves(c, Started("failRead", k, None))
      BY <2>2 DEF BeginComplete, BeginFail, Begin, Reach, Moves, Started, SoundFlight, Calls,
                  Pcs, Replies, IInv, TypeOK
    <3> QED
      BY <3>1, MovesKeeps
  <2> QED
    BY <1>2, <2>1, <2>2, BeginKeeps DEF Start
<1>3. ASSUME NEW c \in Callers, Step(c) PROVE IInv'
  <2>1. CASE ReserveWrite(c)
    BY <2>1, PutKeeps DEF ReserveWrite, At, Writing, Replies, IInv, TypeOK
  <2>2. CASE SeenWrite(c)
    BY <2>2, PutKeeps DEF SeenWrite, At, Writing, Replies, IInv, TypeOK
  <2>3. CASE SettleWrite(c)
    BY <2>3, PutKeeps DEF SettleWrite, At, Writing, Replies, IInv, TypeOK
  <2>4. CASE ReadFails(c)
    BY <2>4, ReturnKeeps, FailsTyped DEF ReadFails, Replies, IInv
  <2>5. CASE WriteFails(c)
    BY <2>5, PutKeeps, ReturnKeeps, FailsTyped DEF WriteFails, Replies, IInv
  <2> QED
    BY <1>3, <2>1, <2>2, <2>3, <2>4, <2>5, ReadKeeps DEF Step
<1> QED
  BY <1>1, <1>2, <1>3 DEF Next

LEMMA AlwaysSound == Spec => []IInv
  BY Initial, Inductive, PTL DEF Spec

\* Records and operations in flight keep their shape.
THEOREM TypeCorrect == Spec => []TypeOK
<1>1. IInv => TypeOK
  BY DEF IInv
<1> QED
  BY <1>1, AlwaysSound, PTL

\* A key whose command intent may be dispatched has a record ever after.
THEOREM Remembered == Spec => []DispatchIsRemembered
<1>1. IInv => DispatchIsRemembered
  BY DEF IInv
<1> QED
  BY <1>1, AlwaysSound, PTL

-----------------------------------------------------------------------------
(* Keys that no two operations overlap on                                   *)

\* Two operations in flight on a key make it an overlapped one.
Apart == \A a, b \in Callers :
            a # b /\ call[a].key = call[b].key => call[a].key \in overlapped \cup {None}

\* What an operation about to write has read is still there.
Current(c) ==
    /\ At(c, "reserveWrite") => Existing(c) = None /\ call[c].fresh.status = "reserved"
    /\ At(c, "seenWrite") => Existing(c) = call[c].fresh
    /\ At(c, "settleWrite") => /\ Found(c, {"reserved"})
                               /\ call[c].fresh.event = Existing(c).event
                               /\ call[c].fresh.status \in {"completed", "failed"}
    /\ At(c, "reserveRead") => call[c].fresh.status = "reserved"

CurrentInv ==
    /\ IInv /\ Apart /\ DispatchedOnce
    /\ \A c \in Callers : call[c].key \in overlapped \/ Current(c)

\* The other operations, and the records they have read, stay as they are.
Aside(c) ==
    /\ overlapped \subseteq overlapped'
    /\ \A b \in Callers \ {c} :
          /\ call'[b] = call[b]
          /\ call[b].key \in Keys \ overlapped' => record'[call[b].key] = record[call[b].key]

LEMMA AsideIsCurrent ==
    ASSUME CurrentInv, NEW c \in Callers, NEW b \in Callers \ {c}, Aside(c)
    PROVE  call'[b].key \in overlapped' \/ Current(b)'
<1>1. call[b].pc # "idle" => call[b].key \in Keys
  BY DEF CurrentInv, IInv, SoundFlight
<1> QED
  BY <1>1 DEF CurrentInv, Aside, Current, At, Existing, Found

LEMMA QuietIsCurrent ==
    ASSUME NEW c \in Callers, call'[c].pc \in {"idle", "completeRead", "failRead"}
    PROVE  Current(c)'
  BY DEF Current, At

LEMMA StartIsCurrent ==
    ASSUME IInv, NEW c \in Callers, Start(c)
    PROVE  Current(c)' /\ Aside(c)
<1>1. call \in [Callers -> Calls]
  BY DEF IInv, TypeOK
<1>2. Aside(c)
  BY <1>1 DEF Start, RejectInput, Return, BeginReserve, BeginComplete, BeginFail, Begin, Reach,
              Aside
<1>3. CASE RejectInput(c)
  BY <1>1, <1>2, <1>3, QuietIsCurrent DEF RejectInput, Return, Ended
<1>4. ASSUME NEW k \in Keys, BeginComplete(c, k) \/ BeginFail(c, k)
      PROVE  Current(c)'
  BY <1>1, <1>4, QuietIsCurrent DEF BeginComplete, BeginFail, Begin, Started
<1>5. ASSUME NEW k \in Keys, NEW e \in Events, BeginReserve(c, k, e)
      PROVE  Current(c)'
  BY <1>1, <1>5 DEF BeginReserve, Begin, Started, NewRecord, Current, At
<1> QED
  BY <1>2, <1>3, <1>4, <1>5 DEF Start

LEMMA StepIsCurrent ==
    ASSUME IInv, NEW c \in Callers, Step(c), Current(c)
    PROVE  Current(c)'
<1>1. call \in [Callers -> Calls]
  BY DEF IInv, TypeOK
<1>2. CASE \E answer : Return(c, answer)
  BY <1>1, <1>2, QuietIsCurrent DEF Return, Ended
<1>3. CASE ReserveRead(c)
  BY <1>1, <1>3 DEF ReserveRead, Write, Started, Current, At, Existing, Found
<1>4. ASSUME NEW outcome \in {"completed", "failed"}, UNCHANGED record, Found(c, {"reserved"}),
             Write(c, "settleWrite", Settled(Existing(c), outcome))
      PROVE  Current(c)'
  BY <1>1, <1>4 DEF Write, Started, Settled, Current, At, Existing, Found
<1> QED
  BY <1>2, <1>3, <1>4
  DEF Step, CompleteRead, FailRead, ReserveWrite, SeenWrite, SettleWrite, ReadFails, WriteFails

LEMMA StepIsAside ==
    ASSUME IInv, Apart, NEW c \in Callers, Step(c)
    PROVE  /\ Aside(c) /\ overlapped' = overlapped
           /\ call'[c].key \in {call[c].key, None}
<1>1. /\ call \in [Callers -> Calls] /\ record \in [Keys -> Records \cup {None}]
      /\ Writing(c) => call[c].key \in Keys
  BY DEF IInv, TypeOK, Writing, SoundFlight
<1>2. /\ overlapped' = overlapped
      /\ (\E answer : Return(c, answer)) \/ (\E p, fresh : Write(c, p, fresh))
      /\ UNCHANGED record \/ (Writing(c) /\ Put(c))
  BY DEF Step, ReserveRead, ReserveWrite, SeenWrite, CompleteRead, FailRead, SettleWrite,
         ReadFails, WriteFails, Return, Write, Writing, At
<1>3. /\ \A b \in Callers \ {c} : call'[b] = call[b]
      /\ call'[c].key \in {call[c].key, None}
  BY <1>1, <1>2 DEF Return, Write, Ended, Started
<1>4. ASSUME NEW b \in Callers \ {c}, call[b].key \in Keys \ overlapped
      PROVE  record'[call[b].key] = record[call[b].key]
  BY <1>1, <1>2, <1>4, InboundAssumption DEF Apart, Put
<1> QED
  BY <1>2, <1>3, <1>4 DEF Aside

\* Operations stay apart: one that begins on the key of another is recorded.
LEMMA StaysApart == CurrentInv /\ [Next]_vars => Apart'
<1> SUFFICES ASSUME CurrentInv, [Next]_vars PROVE Apart'
  OBVIOUS
<1>1. IInv /\ Apart /\ call \in [Callers -> Calls]
  BY DEF CurrentInv, IInv, TypeOK
<1>2. CASE UNCHANGED vars
  BY <1>1, <1>2 DEF vars, Apart
<1>3. ASSUME NEW c \in Callers, Start(c) PROVE Apart'
  <2>1. CASE RejectInput(c)
    BY <1>1, <2>1 DEF RejectInput, Return, Ended, Apart
  <2>2. ASSUME NEW k \in Keys, NEW p, NEW fresh, Begin(c, p, k, fresh) PROVE Apart'
    <3>1. /\ call'[c].key = k /\ \A b \in Callers \ {c} : call'[b] = call[b]
          /\ overlapped' = overlapped \cup ({k} \cap {call[b].key : b \in Callers})
      BY <1>1, <2>2 DEF Begin, Started, Reach
    <3> QED
      BY <1>1, <3>1 DEF Apart
  <2> QED
    BY <1>3, <2>1, <2>2 DEF Start, BeginReserve, BeginComplete, BeginFail
<1>4. ASSUME NEW c \in Callers, Step(c) PROVE Apart'
  BY <1>1, <1>4, StepIsAside DEF Aside, Apart
<1> QED
  BY <1>2, <1>3, <1>4 DEF Next

\* What a step does to one key.
Untouched(k)     == record'[k] = record[k] /\ dispatched'[k] = dispatched[k]
Reserves(k) ==
    /\ record[k] = None /\ record'[k] \in Records /\ record'[k].status = "reserved"
    /\ dispatched[k] = 0 /\ dispatched'[k] \in {0, 1}
Settles(k)  ==
    /\ record[k] # None /\ record[k].status = "reserved" /\ record'[k] \in Records
    /\ record'[k].status \in {"completed", "failed"} /\ record'[k].event = record[k].event
    /\ dispatched'[k] = dispatched[k]

Contends(k) == k \in overlapped /\ record'[k] \in Records \cup {None} /\ dispatched'[k] \in 0..2

LEMMA PutsOne ==
    ASSUME CurrentInv, NEW c \in Callers, Writing(c), Put(c), IInv',
           \/ UNCHANGED dispatched
           \/ /\ At(c, "reserveWrite")
              /\ dispatched' = [dispatched EXCEPT ![call[c].key] = IF @ = 0 THEN 1 ELSE 2]
    PROVE  \E k \in Keys :
              /\ \A l \in Keys \ {k} : Untouched(l)
              /\ Untouched(k) \/ Reserves(k) \/ Settles(k) \/ Contends(k)
<1> DEFINE k == call[c].key
<1>1. k \in Keys /\ call[c].fresh \in Records /\ (k \in overlapped \/ Current(c))
  BY DEF Writing, CurrentInv, IInv, SoundFlight
<1>2. record' = [record EXCEPT ![k] = call[c].fresh] /\ record[k] = Existing(c)
  BY DEF Put, Existing
<1>3. /\ record \in [Keys -> Records \cup {None}] /\ dispatched \in [Keys -> 0..2]
      /\ dispatched[k] > 0 => record[k] # None
  BY <1>1 DEF CurrentInv, IInv, TypeOK, DispatchIsRemembered
<1>4. \A l \in Keys \ {k} : Untouched(l)
  BY <1>2, <1>3 DEF Untouched
<1>5. record'[k] = call[c].fresh
  BY <1>1, <1>2, <1>3
<1>6. CASE At(c, "reserveWrite") /\ Current(c)
  <2>1. record[k] = None /\ call[c].fresh.status = "reserved"
    BY <1>1, <1>2, <1>6 DEF Current
  <2>2. dispatched[k] = 0 /\ dispatched'[k] \in {0, 1}
    BY <1>1, <1>3, <2>1
  <2> QED
    BY <1>1, <1>4, <1>5, <2>1, <2>2 DEF Reserves
<1>7. CASE At(c, "seenWrite") /\ Current(c)
  BY <1>1, <1>2, <1>4, <1>5, <1>7 DEF Untouched, Current, At
<1>8. CASE At(c, "settleWrite") /\ Current(c)
  BY <1>1, <1>2, <1>4, <1>5, <1>8 DEF Settles, Current, At, Found
<1>9. CASE k \in overlapped
  BY <1>1, <1>4, <1>9 DEF Contends, IInv, TypeOK
<1> QED
  BY <1>1, <1>6, <1>7, <1>8, <1>9 DEF Writing, At

LEMMA StepsOne ==
    ASSUME CurrentInv, [Next]_vars
    PROVE  \/ /\ UNCHANGED <<record, dispatched>>
              /\ \E k \in Keys : overlapped' \in {overlapped, overlapped \cup {k}}
           \/ UNCHANGED <<record, dispatched, overlapped>>
           \/ /\ UNCHANGED overlapped
              /\ \E k \in Keys :
                    /\ \A l \in Keys \ {k} : Untouched(l)
                    /\ Untouched(k) \/ Reserves(k) \/ Settles(k) \/ Contends(k)
<1>0. IInv'
  BY Inductive DEF CurrentInv
<1>1. \/ \E k \in Keys : UNCHANGED <<record, dispatched>> /\ Reach(k)
      \/ UNCHANGED <<record, dispatched, overlapped>>
      \/ \E c \in Callers :
            /\ Writing(c) /\ Put(c) /\ UNCHANGED overlapped
            /\ \/ UNCHANGED dispatched
               \/ /\ At(c, "reserveWrite")
                  /\ dispatched' = [dispatched EXCEPT ![call[c].key] = IF @ = 0 THEN 1 ELSE 2]
  BY DEF Next, vars, Start, Step, RejectInput, BeginReserve, BeginComplete, BeginFail, Begin,
         ReserveRead, ReserveWrite, SeenWrite, CompleteRead, FailRead, SettleWrite, ReadFails,
         WriteFails, Writing, At, Return, Write
<1>2. ASSUME NEW k \in Keys, Reach(k)
      PROVE  overlapped' \in {overlapped, overlapped \cup {k}}
  BY <1>2 DEF Reach
<1> QED
  BY <1>0, <1>1, <1>2, PutsOne

LEMMA CurrentInductive == CurrentInv /\ [Next]_vars => CurrentInv'
<1> SUFFICES ASSUME CurrentInv, [Next]_vars PROVE CurrentInv'
  OBVIOUS
<1>1. IInv'
  BY Inductive DEF CurrentInv
<1>2. DispatchedOnce'
  BY StepsOne DEF CurrentInv, DispatchedOnce, Untouched, Reserves, Settles, Contends
<1>3. ASSUME NEW c \in Callers PROVE call'[c].key \in overlapped' \/ Current(c)'
  <2>1. CASE UNCHANGED vars
    BY <2>1 DEF vars, CurrentInv, Current, At, Existing, Found
  <2>2. ASSUME NEW d \in Callers, Start(d) PROVE call'[c].key \in overlapped' \/ Current(c)'
    BY <2>2, StartIsCurrent, AsideIsCurrent DEF CurrentInv
  <2>3. ASSUME NEW d \in Callers, Step(d) PROVE call'[c].key \in overlapped' \/ Current(c)'
    <3>1. CASE c # d
      BY <2>3, <3>1, StepIsAside, AsideIsCurrent DEF CurrentInv
    <3>2. CASE c = d /\ Current(c)
      BY <2>3, <3>2, StepIsCurrent DEF CurrentInv
    <3>3. CASE c = d /\ call'[c].key = None
      BY <1>1, <3>3, InboundAssumption, QuietIsCurrent DEF IInv, SoundFlight
    <3> QED
      BY <2>3, <3>1, <3>2, <3>3, StepIsAside DEF CurrentInv
  <2> QED
    BY <2>1, <2>2, <2>3 DEF Next
<1> QED
  BY <1>1, <1>2, <1>3, StaysApart DEF CurrentInv

LEMMA AlwaysCurrent == Spec => []CurrentInv
<1>1. Init => CurrentInv
  BY Initial DEF CurrentInv, Init, Apart, Current, At, Ended, DispatchedOnce
<1> QED
  BY <1>1, CurrentInductive, PTL DEF Spec

\* The command intent of a key that operations do not overlap on is dispatched at
\* most once.
THEOREM DispatchesOnce == Spec => []DispatchedOnce
<1>1. CurrentInv => DispatchedOnce
  BY DEF CurrentInv
<1> QED
  BY <1>1, AlwaysCurrent, PTL

-----------------------------------------------------------------------------
(* The refinement                                                           *)

\* The status of a key in the ledger.
StatusOf(rec) == IF rec = None THEN "free" ELSE rec.status

LEMMA StepsLedger == CurrentInv /\ [Next]_vars => [Ledger!Next]_(Ledger!vars)
<1> SUFFICES ASSUME CurrentInv, [Next]_vars PROVE [Ledger!Next]_(Ledger!vars)
  OBVIOUS
<1> DEFINE status == [k \in Keys |-> StatusOf(record[k])]
<1>0. /\ dispatched \in [Keys -> 0..2] /\ dispatched' \in [Keys -> 0..2]
      /\ record \in [Keys -> Records \cup {None}]
  BY Inductive DEF CurrentInv, IInv, TypeOK
<1>1. CASE UNCHANGED <<record, dispatched, overlapped>>
  BY <1>1 DEF Ledger!vars
<1>2. ASSUME NEW k \in Keys, \A l \in Keys \ {k} : Untouched(l), Untouched(k)
      PROVE  UNCHANGED <<status, dispatched>>
  BY <1>0, <1>2 DEF Untouched
<1>3. ASSUME NEW k \in Keys, UNCHANGED overlapped, \A l \in Keys \ {k} : Untouched(l), Reserves(k)
      PROVE  Ledger!Reserve(k)
  <2>1. status[k] = "free" /\ status' = [status EXCEPT ![k] = "reserved"]
    BY <1>3, InboundAssumption DEF Untouched, Reserves, StatusOf
  <2>2. dispatched' \in {[dispatched EXCEPT ![k] = 1], dispatched}
    BY <1>0, <1>3 DEF Untouched, Reserves
  <2> QED
    BY <1>3, <2>1, <2>2 DEF Ledger!Reserve, StatusOf
<1>4. ASSUME NEW k \in Keys, UNCHANGED overlapped, \A l \in Keys \ {k} : Untouched(l), Settles(k)
      PROVE  Ledger!Settle(k)
  <2>1. status[k] \notin {"completed", "failed"} \cup {"free"}
    BY <1>4 DEF Settles, StatusOf
  <2>2. status' = [status EXCEPT ![k] = record'[k].status]
    BY <1>4, InboundAssumption DEF Untouched, Settles, StatusOf
  <2>3. dispatched' = dispatched /\ record'[k].status \in {"completed", "failed"}
    BY <1>0, <1>4 DEF Untouched, Settles
  <2> QED
    BY <1>4, <2>1, <2>2, <2>3 DEF Ledger!Settle, Ledger!Outcomes, StatusOf
<1>5. ASSUME NEW k \in Keys, UNCHANGED overlapped, \A l \in Keys \ {k} : Untouched(l), Contends(k)
      PROVE  Ledger!Contend(k)
  <2>1. status' = [status EXCEPT ![k] = StatusOf(record'[k])]
    BY <1>5 DEF Untouched, StatusOf
  <2>2. StatusOf(record'[k]) \in Ledger!Statuses
    BY <1>5 DEF Contends, StatusOf, Records, Statuses, Ledger!Statuses, Ledger!Outcomes
  <2>3. dispatched' = [dispatched EXCEPT ![k] = dispatched'[k]] /\ dispatched'[k] \in 0..2
    BY <1>0, <1>5 DEF Untouched
  <2>4. overlapped' = overlapped \cup {k}
    BY <1>5 DEF Contends
  <2> QED
    BY <2>1, <2>2, <2>3, <2>4 DEF Ledger!Contend, StatusOf
<1>6. ASSUME NEW k \in Keys, UNCHANGED <<record, dispatched>>, overlapped' = overlapped \cup {k}
      PROVE  Ledger!Contend(k)
  <2>1. status' = [status EXCEPT ![k] = StatusOf(record[k])]
    BY <1>6 DEF StatusOf
  <2>2. StatusOf(record[k]) \in Ledger!Statuses
    BY <1>0 DEF StatusOf, Records, Statuses, Ledger!Statuses, Ledger!Outcomes
  <2>3. dispatched' = [dispatched EXCEPT ![k] = dispatched[k]] /\ dispatched[k] \in 0..2
    BY <1>0, <1>6
  <2> QED
    BY <1>6, <2>1, <2>2, <2>3 DEF Ledger!Contend, StatusOf
<1> QED
  BY <1>1, <1>2, <1>3, <1>4, <1>5, <1>6, StepsOne DEF Ledger!Next, Ledger!vars, StatusOf

\* The store implements the ledger: a key is reserved for one caller, and its
\* outcome is final.
THEOREM ImplementsTheLedger == Spec => ImplementsLedger
<1>1. Init => Ledger!Init
  BY DEF Init, Ledger!Init
<1> QED
  BY <1>1, StepsLedger, AlwaysCurrent, PTL DEF Spec, ImplementsLedger, Ledger!Spec

-----------------------------------------------------------------------------
(* The bindings of topics                                                   *)

\* An upsert in flight has a candidate and what it has read by ref.
TopicFlight == [pc : {"readByRef", "readByKey", "put"}, candidate : TopicRecord, byRef : SUBSET TopicRecord]

TopicCallSound(c) ==
    TopicInFlight(c) => topicCall[c] \in TopicFlight

\* An upsert that is about to write was given a version after the one it read, of its topic.
Decided(c) ==
    topicCall[c].pc = "put" =>
        \A r \in topicCall[c].byRef :
            r.key = topicCall[c].candidate.key /\ topicCall[c].candidate.version > r.version

TopicsTyped ==
    /\ topicCall = [c \in TopicCallers |-> topicCall[c]]
    /\ \A c \in TopicCallers : TopicCallSound(c) /\ Decided(c)
    /\ \A r \in DOMAIN topicRecords : topicRecords[r] \in TopicRecord

\* Two upserts in flight on one ref overlap, and what one has read of a ref alone is what
\* the ref has, unless it was deleted.
TopicsAlone ==
    \A c \in TopicCallers : TopicInFlight(c) =>
        \/ topicCall[c].candidate.ref \in topicOverlapped
        \/ /\ \A d \in TopicCallers \ {c} :
                TopicInFlight(d) => topicCall[d].candidate.ref # topicCall[c].candidate.ref
           /\ topicCall[c].pc # "readByRef" =>
                ByBindingRef(topicCall[c].candidate.ref) \subseteq topicCall[c].byRef

TopicsInv == TopicsTyped /\ TopicsAlone /\ TopicIndexAgrees

LEMMA CandidateIsRecord ==
    ASSUME NEW input \in TopicInputs
    PROVE  CreateTopicBindingRecord(input) \in TopicRecord
<1>1. input \in TopicRecordInput
  BY TopicInputAssumption
<1>2. (IF input.ref = {} THEN DeterministicRef[input.key] ELSE CHOOSE r \in input.ref : TRUE) \in TopicRefs
  BY <1>1, TopicAssumption DEF TopicRecordInput
<1>3. (IF input.version = 0 THEN 1 ELSE input.version) \in Nat \ {0}
  BY <1>1 DEF TopicRecordInput
<1> QED
  BY <1>1, <1>2, <1>3 DEF TopicRecordInput, TopicRecord, CreateTopicBindingRecord

\* An upsert that ends, or that goes on with what it has read.
LEMMA UpsertMoves ==
    ASSUME TopicsInv, NEW c \in TopicCallers, NEW x,
           topicCall' = [topicCall EXCEPT ![c] = x],
           \/ x.pc = "idle"
           \/ /\ x \in TopicFlight /\ TopicInFlight(c) /\ x.candidate = topicCall[c].candidate
              /\ x.candidate.ref \in topicOverlapped \/ ByBindingRef(x.candidate.ref) \subseteq x.byRef
              /\ x.pc = "put" => \A r \in x.byRef : r.key = x.candidate.key /\ x.candidate.version > r.version,
           UNCHANGED <<topicRecords, topicIndex, topicOverlapped>>
    PROVE  TopicsInv'
<1>1. topicCall'[c] = x /\ \A d \in TopicCallers \ {c} : topicCall'[d] = topicCall[d]
  BY DEF TopicsInv, TopicsTyped
<1>2. TopicsTyped'
  BY <1>1 DEF TopicsInv, TopicsTyped, TopicCallSound, TopicInFlight, Decided
<1>3. TopicsAlone'
  BY <1>1 DEF TopicsInv, TopicsAlone, TopicInFlight, ByBindingRef
<1>4. TopicIndexAgrees'
  BY DEF TopicsInv, TopicIndexAgrees, TopicsAreBoundOnce, IndexedTopicsAreBound
<1> QED
  BY <1>2, <1>3, <1>4 DEF TopicsInv

LEMMA BeginUpsertKeeps ==
    ASSUME TopicsInv, NEW c \in TopicCallers, NEW input \in TopicInputs, BeginUpsert(c, input)
    PROVE  TopicsInv'
<1> DEFINE candidate == CreateTopicBindingRecord(input)
           begun == [pc |-> "readByRef", candidate |-> candidate, byRef |-> {}]
<1>1. CASE UnsoundTopicInput(input)
  BY <1>1, UpsertMoves DEF BeginUpsert, ReturnUpsert
<1>2. CASE ~UnsoundTopicInput(input)
  <2>1. begun \in TopicFlight
    BY CandidateIsRecord DEF TopicFlight
  <2>2. /\ ~TopicInFlight(c)
        /\ topicCall' = [topicCall EXCEPT ![c] = begun]
        /\ topicOverlapped \subseteq topicOverlapped'
        /\ \/ candidate.ref \in topicOverlapped'
           \/ \A d \in TopicCallers : TopicInFlight(d) => topicCall[d].candidate.ref # candidate.ref
        /\ UNCHANGED <<topicRecords, topicIndex>>
    BY <1>2 DEF BeginUpsert
  <2> HIDE DEF candidate
  <2>3. topicCall'[c] = begun /\ \A d \in TopicCallers \ {c} : topicCall'[d] = topicCall[d]
    BY <2>2 DEF TopicsInv, TopicsTyped
  <2>4. TopicsTyped'
    BY <2>1, <2>2, <2>3 DEF TopicsInv, TopicsTyped, TopicCallSound, TopicInFlight, Decided
  <2>5. TopicsAlone'
    BY <2>1, <2>2, <2>3 DEF TopicsInv, TopicsAlone, TopicInFlight, ByBindingRef
  <2>6. TopicIndexAgrees'
    BY <2>2 DEF TopicsInv, TopicIndexAgrees, TopicsAreBoundOnce, IndexedTopicsAreBound
  <2> QED
    BY <2>4, <2>5, <2>6 DEF TopicsInv
<1> QED
  BY <1>1, <1>2

LEMMA ReadByRefKeeps ==
    ASSUME TopicsInv, NEW c \in TopicCallers, ReadByRef(c) PROVE TopicsInv'
<1> DEFINE x == [topicCall[c] EXCEPT !.pc = "readByKey", !.byRef = ByBindingRef(topicCall[c].candidate.ref)]
<1>1. topicCall[c] \in TopicFlight /\ TopicInFlight(c)
  BY DEF TopicsInv, TopicsTyped, TopicCallSound, ReadByRef, TopicInFlight
<1>2. ByBindingRef(topicCall[c].candidate.ref) \subseteq TopicRecord
  BY DEF TopicsInv, TopicsTyped, ByBindingRef
<1>3. /\ x \in TopicFlight /\ x.candidate = topicCall[c].candidate
      /\ x.pc = "readByKey" /\ x.byRef = ByBindingRef(topicCall[c].candidate.ref)
  BY <1>1, <1>2 DEF TopicFlight
<1>4. topicCall' = [topicCall EXCEPT ![c] = x] /\ UNCHANGED <<topicRecords, topicIndex, topicOverlapped>>
  BY DEF ReadByRef
<1> HIDE DEF x
<1> QED
  BY <1>1, <1>3, <1>4, UpsertMoves

LEMMA ReadByKeyKeeps ==
    ASSUME TopicsInv, NEW c \in TopicCallers, ReadByKey(c) PROVE TopicsInv'
<1> DEFINE x == [topicCall[c] EXCEPT !.pc = "put"]
           decision == UpsertDecision(topicCall[c].candidate, topicCall[c].byRef,
                                      ByBindingKey(topicCall[c].candidate.key))
<1>1. topicCall[c] \in TopicFlight /\ TopicInFlight(c) /\ topicCall[c].pc = "readByKey"
  BY DEF TopicsInv, TopicsTyped, TopicCallSound, ReadByKey, TopicInFlight
<1>2. \/ decision = "write" /\ topicCall' = [topicCall EXCEPT ![c] = x]
      \/ topicCall' = [topicCall EXCEPT ![c] = [pc |-> "idle", reply |-> decision]]
  BY DEF ReadByKey, ReturnUpsert
<1>3. /\ x \in TopicFlight /\ x.candidate = topicCall[c].candidate
      /\ x.pc = "put" /\ x.byRef = topicCall[c].byRef
  BY <1>1 DEF TopicFlight
<1>4. CASE decision = "write" /\ topicCall' = [topicCall EXCEPT ![c] = x]
  <2>1. \A r \in topicCall[c].byRef :
            r.key = topicCall[c].candidate.key /\ ~(topicCall[c].candidate.version <= r.version)
    BY <1>4 DEF UpsertDecision
  <2>2. \A r \in topicCall[c].byRef : topicCall[c].candidate.version > r.version
    BY <1>1, <2>1 DEF TopicFlight, TopicRecord
  <2>3. topicCall[c].candidate.ref \in topicOverlapped
           \/ ByBindingRef(topicCall[c].candidate.ref) \subseteq topicCall[c].byRef
    BY <1>1 DEF TopicsInv, TopicsAlone
  <2> HIDE DEF x
  <2> QED
    BY <1>1, <1>3, <1>4, <2>1, <2>2, <2>3, UpsertMoves DEF ReadByKey
<1>5. CASE topicCall' = [topicCall EXCEPT ![c] = [pc |-> "idle", reply |-> decision]]
  BY <1>5, UpsertMoves DEF ReadByKey
<1> QED
  BY <1>2, <1>4, <1>5

\* A write of a topic that no other ref is bound to, by the upsert that ends with it.
LEMMA PutTopicKeeps ==
    ASSUME TopicsInv, NEW c \in TopicCallers, NEW reply,
           topicCall[c].pc = "put", ~BoundToAnother(topicCall[c].candidate),
           PutTopicRecord(topicCall[c].candidate), ReturnUpsert(c, reply), UNCHANGED topicOverlapped
    PROVE  TopicsInv'
<1> DEFINE ref == topicCall[c].candidate.ref
           key == topicCall[c].candidate.key
           ended == [pc |-> "idle", reply |-> reply]
<1>1. topicCall[c] \in TopicFlight /\ TopicInFlight(c) /\ topicCall[c].candidate \in TopicRecord
  BY DEF TopicsInv, TopicsTyped, TopicCallSound, TopicInFlight, TopicFlight
<1>2. /\ DOMAIN topicRecords' = DOMAIN topicRecords \cup {ref}
      /\ topicRecords'[ref] = topicCall[c].candidate
      /\ \A r \in DOMAIN topicRecords \ {ref} : topicRecords'[r] = topicRecords[r]
      /\ DOMAIN topicIndex' = DOMAIN topicIndex \cup {key}
      /\ topicIndex'[key] = ref
      /\ \A k \in DOMAIN topicIndex \ {key} : topicIndex'[k] = topicIndex[k]
  BY DEF PutTopicRecord, With
<1>3. topicCall' = [topicCall EXCEPT ![c] = ended]
  BY DEF ReturnUpsert
<1>4. topicCall'[c] = ended /\ \A d \in TopicCallers \ {c} : topicCall'[d] = topicCall[d]
  BY <1>3 DEF TopicsInv, TopicsTyped
<1>5. key \in DOMAIN topicIndex => topicIndex[key] = ref
  BY DEF BoundToAnother
<1>6. TopicsTyped'
  BY <1>1, <1>2, <1>3, <1>4 DEF TopicsInv, TopicsTyped, TopicCallSound, TopicInFlight, Decided
<1>7. TopicsAlone'
  BY <1>1, <1>2, <1>4 DEF TopicsInv, TopicsAlone, TopicInFlight, ByBindingRef
<1>8. TopicsAreBoundOnce'
  BY <1>2, <1>5 DEF TopicsInv, TopicIndexAgrees, TopicsAreBoundOnce
<1>9. ref \in DOMAIN topicRecords => ref \in topicOverlapped \/ topicRecords[ref].key = key
  BY <1>1 DEF TopicsInv, TopicsTyped, TopicsAlone, Decided, ByBindingRef
<1>10. IndexedTopicsAreBound'
  BY <1>2, <1>9 DEF TopicsInv, TopicIndexAgrees, IndexedTopicsAreBound
<1> QED
  BY <1>6, <1>7, <1>8, <1>10 DEF TopicsInv, TopicIndexAgrees

LEMMA DeleteKeeps ==
    ASSUME TopicsInv, NEW r \in TopicRefs, DeleteByBindingRef(r) PROVE TopicsInv'
<1> DEFINE key == topicRecords[r].key
<1>1. /\ r \in DOMAIN topicRecords
      /\ UNCHANGED <<topicCall, topicOverlapped>>
      /\ DOMAIN topicRecords' = DOMAIN topicRecords \ {r}
      /\ \A s \in DOMAIN topicRecords \ {r} : topicRecords'[s] = topicRecords[s]
      /\ DOMAIN topicIndex' = DOMAIN topicIndex \ {key}
      /\ \A k \in DOMAIN topicIndex \ {key} : topicIndex'[k] = topicIndex[k]
  BY DEF DeleteByBindingRef, Without, Restrict
<1>2. TopicsTyped'
  BY <1>1 DEF TopicsInv, TopicsTyped, TopicCallSound, TopicInFlight, Decided
<1>3. TopicsAlone'
  BY <1>1 DEF TopicsInv, TopicsAlone, TopicInFlight, ByBindingRef
<1>4. TopicsAreBoundOnce'
  BY <1>1 DEF TopicsInv, TopicIndexAgrees, TopicsAreBoundOnce
<1>5. IndexedTopicsAreBound'
  BY <1>1 DEF TopicsInv, TopicIndexAgrees, IndexedTopicsAreBound
<1> QED
  BY <1>2, <1>3, <1>4, <1>5 DEF TopicsInv, TopicIndexAgrees

LEMMA PutBindingKeeps ==
    ASSUME TopicsInv, NEW c \in TopicCallers, PutBinding(c) PROVE TopicsInv'
<1>1. CASE BoundToAnother(topicCall[c].candidate)
  BY <1>1, UpsertMoves DEF PutBinding, ReturnUpsert
<1>2. CASE ~BoundToAnother(topicCall[c].candidate)
  BY <1>2, PutTopicKeeps DEF PutBinding
<1> QED
  BY <1>1, <1>2

LEMMA RejectKeeps ==
    ASSUME TopicsInv, NEW c \in TopicCallers, UpsertCallRejects(c) PROVE TopicsInv'
<1>1. CASE UNCHANGED <<topicRecords, topicIndex>>
  BY <1>1, UpsertMoves DEF UpsertCallRejects, ReturnUpsert
<1>2. CASE /\ topicCall[c].pc = "put" /\ ~BoundToAnother(topicCall[c].candidate)
           /\ PutTopicRecord(topicCall[c].candidate)
  BY <1>2, PutTopicKeeps DEF UpsertCallRejects
<1> QED
  BY <1>1, <1>2 DEF UpsertCallRejects

\* A snapshot that is written, forgotten or left is found as it was answered.
LEMMA SnapshotKeeps ==
    ASSUME AnsweredSnapshotsAreFound, TopicSnapshotsNext PROVE AnsweredSnapshotsAreFound'
<1> USE DEF AnsweredSnapshotsAreFound, IsBound, SnapshotOf, SerializeTopicBindingKey
<1>1. ASSUME NEW t \in TopicIds, NEW s \in SessionIds, UpsertSnapshot(t, s) PROVE AnsweredSnapshotsAreFound'
  BY <1>1 DEF UpsertSnapshot, PutSnapshot, Without, Restrict, With
<1>2. ASSUME NEW t \in TopicIds, DeleteSnapshot(t) PROVE AnsweredSnapshotsAreFound'
  BY <1>2 DEF DeleteSnapshot, Without, Restrict
<1> QED
  BY <1>1, <1>2 DEF TopicSnapshotsNext

BindingsInv == TopicsInv /\ AnsweredSnapshotsAreFound

LEMMA BindingsInductive == BindingsInv /\ [TopicBindingsNext]_topicVars => BindingsInv'
<1> SUFFICES ASSUME BindingsInv, [TopicBindingsNext]_topicVars PROVE BindingsInv'
  OBVIOUS
<1>1. ASSUME UNCHANGED topicStoreVars PROVE TopicsInv'
  BY <1>1 DEF topicStoreVars, BindingsInv, TopicsInv, TopicsTyped, TopicCallSound, TopicInFlight, Decided,
              TopicsAlone, ByBindingRef, TopicIndexAgrees, TopicsAreBoundOnce, IndexedTopicsAreBound
<1>2. ASSUME UNCHANGED topicSnapshotVars PROVE AnsweredSnapshotsAreFound'
  BY <1>2 DEF topicSnapshotVars, BindingsInv, AnsweredSnapshotsAreFound, IsBound, SnapshotOf
<1>3. CASE TopicRecordsNext
  BY <1>2, <1>3, BeginUpsertKeeps, ReadByRefKeeps, ReadByKeyKeeps, PutBindingKeeps, RejectKeeps, DeleteKeeps
     DEF TopicRecordsNext, BindingsInv
<1>4. CASE TopicSnapshotsNext
  BY <1>1, <1>4, SnapshotKeeps DEF TopicSnapshotsNext, BindingsInv
<1>5. CASE UNCHANGED topicVars
  BY <1>1, <1>2, <1>5 DEF topicVars, topicStoreVars, topicSnapshotVars, BindingsInv
<1> QED
  BY <1>3, <1>4, <1>5 DEF TopicBindingsNext

LEMMA AlwaysBound == TopicBindingsSpec => []BindingsInv
<1>1. TopicBindingsInit => BindingsInv
  BY DEF TopicBindingsInit, BindingsInv, TopicsInv, TopicsTyped, TopicCallSound, TopicInFlight, Decided,
         TopicsAlone, TopicIndexAgrees, TopicsAreBoundOnce, IndexedTopicsAreBound, AnsweredSnapshotsAreFound
<1> QED
  BY <1>1, BindingsInductive, PTL DEF TopicBindingsSpec

\* What either store keeps of a topic is found by the topic: no topic is bound by two
\* records, whatever upserts and deletes overlap, and a snapshot is found as it was answered.
THEOREM TopicsFound == TopicBindingsSpec => []TopicsAreFound
<1>1. BindingsInv => TopicsAreFound
  BY DEF BindingsInv, TopicsInv, TopicsAreFound
<1> QED
  BY <1>1, AlwaysBound, PTL

\* The version of a binding only grows, unless two upserts of the binding overlap.
THEOREM VersionsGrow == TopicBindingsSpec => TopicVersionsGrow
<1> DEFINE Grow == \A r \in DOMAIN topicRecords \cap DOMAIN topicRecords' :
                        \/ r \in topicOverlapped
                        \/ topicRecords'[r] = topicRecords[r]
                        \/ topicRecords'[r].version > topicRecords[r].version
<1>1. ASSUME BindingsInv, NEW c \in TopicCallers, topicCall[c].pc = "put",
             PutTopicRecord(topicCall[c].candidate)
      PROVE  Grow
  <2>1. TopicInFlight(c)
    BY <1>1 DEF TopicInFlight
  <2> QED
    BY <1>1, <2>1 DEF BindingsInv, TopicsInv, TopicsTyped, Decided, TopicsAlone, ByBindingRef,
                      PutTopicRecord, With
<1>2. ASSUME UNCHANGED topicRecords PROVE Grow
  BY <1>2
<1>3. ASSUME NEW r \in TopicRefs, DeleteByBindingRef(r) PROVE Grow
  BY <1>3 DEF DeleteByBindingRef, Without, Restrict
<1>4. BindingsInv /\ [TopicBindingsNext]_topicVars => [Grow]_topicVars
  <2> SUFFICES ASSUME BindingsInv, TopicBindingsNext PROVE Grow
    OBVIOUS
  <2>1. CASE TopicSnapshotsNext
    BY <1>2, <2>1 DEF TopicSnapshotsNext, topicStoreVars
  <2>2. ASSUME NEW c \in TopicCallers, NEW input \in TopicInputs, BeginUpsert(c, input) PROVE Grow
    BY <1>2, <2>2 DEF BeginUpsert
  <2>3. ASSUME NEW c \in TopicCallers, ReadByRef(c) \/ ReadByKey(c) PROVE Grow
    BY <1>2, <2>3 DEF ReadByRef, ReadByKey
  <2>4. ASSUME NEW c \in TopicCallers, PutBinding(c) PROVE Grow
    BY <1>1, <1>2, <2>4 DEF PutBinding
  <2>5. ASSUME NEW c \in TopicCallers, UpsertCallRejects(c) PROVE Grow
    BY <1>1, <1>2, <2>5 DEF UpsertCallRejects
  <2> HIDE DEF Grow
  <2> QED
    BY <1>3, <2>1, <2>2, <2>3, <2>4, <2>5 DEF TopicBindingsNext, TopicRecordsNext
<1> QED
  BY <1>4, AlwaysBound, PTL DEF TopicBindingsSpec, TopicVersionsGrow

-----------------------------------------------------------------------------
(* The lifecycle of a mode                                                  *)

ModesTyped ==
    /\ modeGates \in [Gates -> GivenStatuses]
    /\ modeIntent \in StartIntents
    /\ modePosture \in {"descriptor-only", "fake-inert"}
    /\ modeTold.lifecycle \in LifecycleStates
    /\ modeEarned \in BOOLEAN /\ modeFailed \in BOOLEAN

ModesInv == ModesTyped /\ LifecycleIsEarned

\* A mode is eligible only with every gate open, and only for what it was asked for.
LEMMA EligibleIsOpen ==
    ASSUME ModesTyped
    PROVE  /\ StartEligibility(modeIntent) \in Eligible => \A g \in Gates : GateStatus(g) = "open"
           /\ StartEligibility(modeIntent) \in
                  Eligible \cup {"failed-safe", "blocked", "skipped", "not-eligible"}
<1>1. \A g \in Gates : GateStatus(g) \in GateStatuses
  BY DEF GateStatus, GateStatuses
<1>2. modeIntent \in Eligible \cup {"descriptor-only"}
  BY DEF ModesTyped, StartIntents, Eligible
<1> QED
  BY <1>1, <1>2 DEF StartEligibility, GateStatuses, Eligible

\* The state a host gives is taken if it is the one it was told, and is otherwise that of a
\* mode that was not started.
LEMMA ClaimIsTold ==
    ASSUME ModesTyped, NEW claim \in Claims
    PROVE  \/ Kept(claim) /\ NormalLifecycle(claim) = modeTold.lifecycle
           \/ NormalLifecycle(claim) \in {"described-only", "configured-redacted", "failed-safe"}
  BY DEF ModesTyped, Claims, Kept, NormalLifecycle, LifecycleStates

LEMMA DescribeKeeps ==
    ASSUME ModesInv, NEW claim \in Claims, DescribeMode(claim) PROVE ModesInv'
<1>1. modeTold' = [by |-> "describe", lifecycle |-> NormalLifecycle(claim),
                   readiness |-> Readiness(StartEligibility(modeIntent))]
  BY DEF DescribeMode
<1>2. NormalLifecycle(claim) \in LifecycleStates
  BY ClaimIsTold DEF ModesInv, ModesTyped, LifecycleStates
<1>3. /\ modeEarned' = (modeEarned /\ Kept(claim))
      /\ modeFailed' = ((modeFailed /\ Kept(claim)) \/ NormalLifecycle(claim) = "failed-safe")
      /\ UNCHANGED <<modeGates, modeIntent, modePosture>>
  BY DEF DescribeMode
<1>4. modeFailed /\ Kept(claim) => NormalLifecycle(claim) = "failed-safe"
  BY DEF ModesInv, ModesTyped, LifecycleIsEarned, Kept, NormalLifecycle, LifecycleStates
<1>5. ModesTyped'
  BY <1>1, <1>2, <1>3 DEF ModesInv, ModesTyped
<1>6. NormalLifecycle(claim) \in Eligible \cup {"start-requested", "stopping"} => Kept(claim) /\ modeEarned
  BY ClaimIsTold DEF ModesInv, LifecycleIsEarned, Eligible
<1>7. LifecycleIsEarned'
  BY <1>1, <1>3, <1>4, <1>6 DEF LifecycleIsEarned
<1> QED
  BY <1>5, <1>7 DEF ModesInv

LEMMA TransitionLeads ==
    ASSUME NEW transition \in Transitions, NEW from \in LifecycleStates,
           NEW eligibility \in Eligible \cup {"failed-safe", "blocked", "skipped", "not-eligible"}
    PROVE  LET to == TransitionTarget(transition, from, eligibility)
           IN /\ to \in LifecycleStates
              /\ to \in Eligible => to = eligibility
              /\ to = "start-requested" => eligibility \in Eligible
              /\ to = "stopping" => from \in Eligible \cup {"start-requested"}
              /\ from = "failed-safe" => to = "failed-safe"
  BY DEF TransitionTarget, NotEligibleFor, Eligible, LifecycleStates, Transitions

LEMMA TransitionKeeps ==
    ASSUME ModesInv, NEW claim \in Claims, NEW transition \in Transitions,
           ClassifyTransition(transition, claim)
    PROVE  ModesInv'
<1> DEFINE from == NormalLifecycle(claim)
           eligibility == StartEligibility(modeIntent)
           to == TransitionTarget(transition, from, eligibility)
<1>1. modeTold' = [by |-> "transition", lifecycle |-> to, readiness |-> Readiness(eligibility)]
  BY DEF ClassifyTransition
<1>2. /\ from \in LifecycleStates
      /\ eligibility \in Eligible \cup {"failed-safe", "blocked", "skipped", "not-eligible"}
      /\ eligibility \in Eligible => \A g \in Gates : GateStatus(g) = "open"
  BY ClaimIsTold, EligibleIsOpen DEF ModesInv, ModesTyped, LifecycleStates
<1> HIDE DEF from, eligibility
<1>3. /\ to \in LifecycleStates
      /\ to \in Eligible => to = eligibility
      /\ to = "start-requested" => eligibility \in Eligible
      /\ to = "stopping" => from \in Eligible \cup {"start-requested"}
      /\ from = "failed-safe" => to = "failed-safe"
  BY <1>2, TransitionLeads
<1> HIDE DEF to
<1>4. /\ modeEarned' = \/ to \in Eligible \cup {"start-requested"} /\ \A g \in Gates : GateStatus(g) = "open"
                       \/ to = "stopping" /\ modeEarned /\ Kept(claim)
      /\ modeFailed' = ((modeFailed /\ Kept(claim)) \/ to = "failed-safe")
      /\ UNCHANGED <<modeGates, modeIntent, modePosture>>
  BY DEF ClassifyTransition, from, eligibility, to
<1>5. from \in Eligible \cup {"start-requested"} => Kept(claim) /\ modeEarned
  BY ClaimIsTold DEF ModesInv, LifecycleIsEarned, Eligible, from
<1>6. modeFailed /\ Kept(claim) => from = "failed-safe"
  BY DEF ModesInv, ModesTyped, LifecycleIsEarned, Kept, NormalLifecycle, LifecycleStates, from
<1>7. eligibility \in Eligible => Readiness(eligibility) = eligibility
  BY DEF Readiness, Eligible
<1>8. ModesTyped'
  BY <1>1, <1>3, <1>4 DEF ModesInv, ModesTyped
<1>9. LifecycleIsEarned'
  BY <1>1, <1>2, <1>3, <1>4, <1>5, <1>6, <1>7 DEF LifecycleIsEarned, Eligible
<1> QED
  BY <1>8, <1>9 DEF ModesInv

LEMMA ModesInductive == ModesInv /\ [ModesNext(Gates)]_modeVars => ModesInv'
<1> SUFFICES ASSUME ModesInv, [ModesNext(Gates)]_modeVars PROVE ModesInv'
  OBVIOUS
<1>1. CASE UNCHANGED modeVars
  BY <1>1 DEF modeVars, ModesInv, ModesTyped, LifecycleIsEarned
<1>2. ASSUME NEW gate \in Gates, NEW status \in GateStatuses, SetGate(gate, status) PROVE ModesInv'
  BY <1>2 DEF SetGate, ModesInv, ModesTyped, LifecycleIsEarned, GivenStatuses
<1>3. ASSUME NEW intent \in StartIntents, SetIntent(intent) PROVE ModesInv'
  BY <1>3 DEF SetIntent, ModesInv, ModesTyped, LifecycleIsEarned
<1> QED
  BY <1>1, <1>2, <1>3, DescribeKeeps, TransitionKeeps DEF ModesNext

\* A mode is ready, started or stopping only when every gate was open at the time the
\* host was told so, and one that failed safe stays so while its state is kept.
THEOREM LifecycleEarned == ModesSpec => []LifecycleIsEarned
<1>1. ModesInit => ModesInv
  <2> SUFFICES ASSUME ModesInit PROVE ModesInv
    OBVIOUS
  <2>1. NormalLifecycle("not-given") \in {"described-only", "configured-redacted"}
    BY DEF ModesInit, NormalLifecycle, LifecycleStates
  <2> QED
    BY <2>1 DEF ModesInit, ModesInv, ModesTyped, LifecycleIsEarned, GivenStatuses, GateStatuses,
                LifecycleStates, Eligible
<1>2. ModesInv => LifecycleIsEarned
  BY DEF ModesInv
<1> QED
  BY <1>1, <1>2, ModesInductive, PTL DEF ModesSpec
=============================================================================

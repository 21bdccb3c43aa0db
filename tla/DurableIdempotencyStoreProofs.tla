-------------------- MODULE DurableIdempotencyStoreProofs --------------------
(***************************************************************************)
(* Proofs about the stores that are durable behind a get and a put.         *)
(* DurableIdempotencyStore, for any number of keys, operations, callers and *)
(* rejected boundary calls: types, what a reservation leaves, and that the  *)
(* store implements IdempotencyLedger. DurableCoreStores, for any records,  *)
(* callers and rejected calls: an answer tells what the boundary did, and a *)
(* token is consumed as it stands unless calls overlap.                     *)
(***************************************************************************)
EXTENDS DurableIdempotencyStore, DurableCoreStores, TLAPS

-----------------------------------------------------------------------------
(* The idempotency store                                                    *)

\* An operation in flight has a key and a record.
SoundFlight(x) == x.pc # "idle" => x.key \in Keys /\ x.fresh \in Records

\* The inductive invariant.
IInv == TypeOK /\ ReservationIsRemembered /\ \A c \in Callers : SoundFlight(call[c])

\* A step that moves one operation and leaves the records alone.
Moves(c, x) ==
    /\ x \in Calls
    /\ SoundFlight(x)
    /\ call' = [call EXCEPT ![c] = x]
    /\ UNCHANGED <<record, reserved>>
    /\ overlapped' \subseteq Keys
    /\ failures' \in Nat

LEMMA EndedSound == \A answer \in Replies : Ended(answer) \in Calls /\ SoundFlight(Ended(answer))
  BY DEF Ended, Calls, Pcs, SoundFlight

LEMMA StartedSound ==
    \A p \in Pcs, k \in Keys, fresh \in Records :
        Started(p, k, fresh) \in Calls /\ SoundFlight(Started(p, k, fresh))
  BY DEF Started, Calls, Replies, SoundFlight

LEMMA MovesKeeps ==
    ASSUME IInv, NEW c \in Callers, NEW x, Moves(c, x)
    PROVE  IInv'
  BY DEF IInv, TypeOK, ReservationIsRemembered, SoundFlight, Moves

LEMMA ReturnKeeps ==
    ASSUME IInv, NEW c \in Callers, NEW answer \in Replies, Return(c, answer),
           UNCHANGED <<record, reserved>>, failures' \in Nat
    PROVE  IInv'
<1>1. Moves(c, Ended(answer))
  BY EndedSound DEF Moves, Return, IInv, TypeOK
<1> QED
  BY <1>1, MovesKeeps

LEMMA FailsTyped == ASSUME TypeOK, Fails PROVE failures' \in Nat
  BY IdempotencyAssumption DEF TypeOK, Fails

LEMMA FreshIsRecord ==
    \A status \in Statuses, o \in Operations \cup {None} : Fresh(status, o) \in Records
  BY DEF Fresh, Records

\* A record that is completed from the stored one is a record.
LEMMA SettledIsRecord ==
    \A fresh, existing \in Records :
        /\ Settled(fresh, existing) \in Records
        /\ Settled(fresh, existing).status = fresh.status
  BY DEF Settled, Fresh, Records

\* What an operation that read goes on to write is a record.
LEMMA WriteKeeps ==
    ASSUME IInv, NEW c \in Callers, call[c].key \in Keys,
           NEW p \in {"reserveWrite", "settleWrite"}, NEW fresh \in Records,
           Write(c, p, fresh), UNCHANGED <<record, reserved, failures>>
    PROVE  IInv'
<1>1. Moves(c, Started(p, call[c].key, fresh))
  BY StartedSound DEF Moves, Write, Pcs, IInv, TypeOK
<1> QED
  BY <1>1, MovesKeeps

LEMMA ReadKeeps ==
    ASSUME IInv, NEW c \in Callers, ReserveRead(c) \/ CompleteRead(c) \/ FailRead(c)
    PROVE  IInv'
<1>1. /\ UNCHANGED <<record, reserved, failures>> /\ failures \in Nat
      /\ call[c].key \in Keys /\ call[c].fresh \in Records
  BY DEF ReserveRead, CompleteRead, FailRead, IInv, TypeOK, SoundFlight, At
<1>2. Existing(c) \in Records \cup {None}
  BY <1>1 DEF Existing, IInv, TypeOK
<1>3. CASE \E answer \in Replies : Return(c, answer)
  BY <1>1, <1>3, ReturnKeeps
<1>4. CASE Write(c, "reserveWrite", call[c].fresh)
  BY <1>1, <1>4, WriteKeeps
<1>5. CASE Existing(c) # None /\ Write(c, "settleWrite", Settled(call[c].fresh, Existing(c)))
  BY <1>1, <1>2, <1>5, SettledIsRecord, WriteKeeps
<1> QED
  BY <1>3, <1>4, <1>5 DEF ReserveRead, CompleteRead, FailRead, Found, Replies

\* A put of a record under the key of an operation.
Writing(c) == call[c].pc \in {"reserveWrite", "settleWrite"}
HandedOut(c) == reserved' = [reserved EXCEPT ![call[c].key] = IF @ = 0 THEN 1 ELSE 2]

LEMMA PutKeeps ==
    ASSUME IInv, NEW c \in Callers, Writing(c), Put(c), NEW answer \in Replies,
           Return(c, answer), failures' \in Nat, UNCHANGED reserved \/ HandedOut(c)
    PROVE  IInv'
<1>1. call[c].key \in Keys /\ call[c].fresh \in Records
  BY DEF Writing, IInv, SoundFlight
<1>2. TypeOK'
  BY <1>1, EndedSound DEF IInv, TypeOK, Put, Return, HandedOut
<1>3. ReservationIsRemembered'
  BY <1>1, IdempotencyAssumption DEF IInv, TypeOK, ReservationIsRemembered, Put, HandedOut
<1>4. \A b \in Callers : SoundFlight(call[b])'
  BY EndedSound DEF IInv, TypeOK, Return, SoundFlight
<1> QED
  BY <1>2, <1>3, <1>4 DEF IInv

\* A deletion forgets the record and whom the key was handed to.
LEMMA ForgetKeeps ==
    ASSUME IInv, NEW c \in Callers, NEW k \in Keys, Forget(k), Reach(k),
           NEW answer \in Replies, call' = [call EXCEPT ![c] = Ended(answer)], failures' \in Nat
    PROVE  IInv'
<1>1. TypeOK'
  BY EndedSound DEF IInv, TypeOK, Forget, Reach
<1>2. ReservationIsRemembered'
  BY DEF IInv, TypeOK, ReservationIsRemembered, Forget
<1>3. \A b \in Callers : SoundFlight(call[b])'
  BY EndedSound DEF IInv, TypeOK, SoundFlight
<1> QED
  BY <1>1, <1>2, <1>3 DEF IInv

LEMMA Initial == Init => IInv
  BY EndedSound, IdempotencyAssumption
  DEF Init, IInv, TypeOK, ReservationIsRemembered, Ended, SoundFlight, Replies

LEMMA BeginKeeps ==
    ASSUME IInv, NEW c \in Callers, NEW k \in Keys, NEW o \in Operations \cup {None},
           BeginReserve(c, k, o) \/ BeginComplete(c, k, o) \/ BeginFail(c, k, o)
    PROVE  IInv'
<1>1. \E p \in Pcs, status \in Statuses : Begin(c, p, k, Fresh(status, o))
  BY DEF BeginReserve, BeginComplete, BeginFail, Pcs, Statuses
<1>2. \E x : Moves(c, x)
  BY <1>1, FreshIsRecord, StartedSound DEF Begin, Reach, Moves, IInv, TypeOK
<1> QED
  BY <1>2, MovesKeeps

LEMMA Inductive == IInv /\ [Next]_vars => IInv'
<1> SUFFICES ASSUME IInv, [Next]_vars PROVE IInv'
  OBVIOUS
<1>1. CASE UNCHANGED vars
  BY <1>1 DEF vars, IInv, TypeOK, ReservationIsRemembered, SoundFlight
<1>2. ASSUME NEW c \in Callers, Start(c) PROVE IInv'
  <2>1. CASE RejectInput(c)
    BY <2>1, ReturnKeeps DEF RejectInput, Replies, IInv, TypeOK
  <2>2. ASSUME NEW k \in Keys, Delete(c, k) PROVE IInv'
    BY <2>2, ForgetKeeps DEF Delete, Replies, IInv, TypeOK
  <2>3. ASSUME NEW k \in Keys, DeleteFails(c, k) PROVE IInv'
    <3>1. CASE Forget(k)
      BY <2>3, <3>1, ForgetKeeps, FailsTyped DEF DeleteFails, Replies, IInv
    <3>2. CASE UNCHANGED <<record, reserved>>
      <4>1. Moves(c, Ended("dependency-failed"))
        BY <2>3, <3>2, EndedSound, FailsTyped DEF DeleteFails, Moves, Reach, Replies, IInv, TypeOK
      <4> QED
        BY <4>1, MovesKeeps
    <3> QED
      BY <2>3, <3>1, <3>2 DEF DeleteFails
  <2> QED
    BY <1>2, <2>1, <2>2, <2>3, BeginKeeps DEF Start
<1>3. ASSUME NEW c \in Callers, Step(c) PROVE IInv'
  <2>1. CASE ReserveWrite(c)
    BY <2>1, PutKeeps DEF ReserveWrite, At, Writing, HandedOut, Replies, IInv, TypeOK
  <2>2. CASE SettleWrite(c)
    BY <2>2, PutKeeps DEF SettleWrite, At, Writing, Replies, IInv, TypeOK
  <2>3. CASE ReadFails(c)
    BY <2>3, ReturnKeeps, FailsTyped DEF ReadFails, Replies, IInv
  <2>4. CASE WriteFails(c)
    BY <2>4, PutKeeps, ReturnKeeps, FailsTyped DEF WriteFails, Writing, Replies, IInv
  <2> QED
    BY <1>3, <2>1, <2>2, <2>3, <2>4, ReadKeeps DEF Step
<1> QED
  BY <1>1, <1>2, <1>3 DEF Next

LEMMA AlwaysSound == Spec => []IInv
  BY Initial, Inductive, PTL DEF Spec

\* Records and operations in flight keep their shape.
THEOREM TypeCorrect == Spec => []TypeOK
<1>1. IInv => TypeOK
  BY DEF IInv
<1> QED
  BY <1>1, AlwaysSound, PTL

\* A key that was handed out has a record until it is deleted, whatever operations
\* overlap and whatever boundary calls reject.
THEOREM Remembered == Spec => []ReservationIsRemembered
<1>1. IInv => ReservationIsRemembered
  BY DEF IInv
<1> QED
  BY <1>1, AlwaysSound, PTL

-----------------------------------------------------------------------------
(* Keys that no two operations overlap on                                   *)

\* Two operations in flight on a key make it an overlapped one.
Apart == \A a, b \in Callers :
            a # b /\ call[a].key = call[b].key => call[a].key \in overlapped \cup {None}

\* What an operation about to write has read is still there.
Current(c) ==
    /\ call[c].pc \in {"reserveRead", "reserveWrite"} => call[c].fresh.status = "pending"
    /\ call[c].pc \in {"completeRead", "failRead", "settleWrite"} =>
          call[c].fresh.status \in {"completed", "failed"}
    /\ At(c, "reserveWrite") => Existing(c) = None
    /\ At(c, "settleWrite") => Found(c, {"pending", "failed"})

CurrentInv == IInv /\ Apart /\ \A c \in Callers : call[c].key \in overlapped \/ Current(c)

\* The other operations, and the records they have read, stay as they are.
Aside(c) ==
    /\ overlapped \subseteq overlapped'
    /\ \A b \in Callers \ {c} :
          /\ call'[b] = call[b]
          /\ call[b].key \in Keys \ overlapped' => record'[call[b].key] = record[call[b].key]

LEMMA AsideIsCurrent ==
    ASSUME CurrentInv, NEW c \in Callers, NEW b \in Callers \ {c}, Aside(c)
    PROVE  call'[b].key \in overlapped' \/ Current(b)'
<1>1. call[b].pc # "idle" => call[b].key \in Keys
  BY DEF CurrentInv, IInv, SoundFlight
<1> QED
  BY <1>1 DEF CurrentInv, Aside, Current, At, Existing, Found

LEMMA IdleIsCurrent ==
    ASSUME NEW c \in Callers, call'[c].pc = "idle"
    PROVE  Current(c)'
  BY DEF Current, At

LEMMA StartIsCurrent ==
    ASSUME IInv, NEW c \in Callers, Start(c)
    PROVE  Current(c)' /\ Aside(c)
<1>1. call \in [Callers -> Calls] /\ record \in [Keys -> Records \cup {None}]
  BY DEF IInv, TypeOK
<1>2. CASE RejectInput(c)
  BY <1>1, <1>2, IdleIsCurrent DEF RejectInput, Return, Ended, Aside
<1>3. ASSUME NEW k \in Keys, Delete(c, k) \/ DeleteFails(c, k)
      PROVE  Current(c)' /\ Aside(c)
  <2>1. Current(c)'
    BY <1>1, <1>3, IdleIsCurrent DEF Delete, DeleteFails, Ended
  <2>2. /\ \A b \in Callers \ {c} : call'[b] = call[b]
        /\ overlapped' = overlapped \cup ({k} \cap {call[b].key : b \in Callers})
        /\ \A l \in Keys \ {k} : record'[l] = record[l]
    BY <1>1, <1>3 DEF Delete, DeleteFails, Forget, Reach
  <2> QED
    BY <2>1, <2>2 DEF Aside
<1>4. ASSUME NEW k \in Keys, NEW o \in Operations \cup {None},
             BeginReserve(c, k, o) \/ BeginComplete(c, k, o) \/ BeginFail(c, k, o)
      PROVE  Current(c)' /\ Aside(c)
  <2>1. Current(c)'
    BY <1>1, <1>4
    DEF BeginReserve, BeginComplete, BeginFail, Begin, Started, Fresh, Current, At
  <2> QED
    BY <1>1, <1>4, <2>1 DEF BeginReserve, BeginComplete, BeginFail, Begin, Reach, Aside
<1> QED
  BY <1>2, <1>3, <1>4 DEF Start

LEMMA StepIsCurrent ==
    ASSUME IInv, NEW c \in Callers, Step(c), Current(c)
    PROVE  Current(c)'
<1>1. call \in [Callers -> Calls] /\ (~At(c, "idle") => call[c].key \in Keys /\ call[c].fresh \in Records)
  BY DEF IInv, TypeOK, SoundFlight, At
<1>2. CASE \E answer : Return(c, answer)
  BY <1>1, <1>2, IdleIsCurrent DEF Return, Ended
<1>3. CASE ReserveRead(c) /\ Write(c, "reserveWrite", call[c].fresh)
  BY <1>1, <1>2, <1>3 DEF ReserveRead, Return, Write, Started, Ended, Current, At, Existing, Found
<1>4. CASE /\ call[c].pc \in {"completeRead", "failRead"} /\ UNCHANGED record
           /\ Found(c, {"pending", "failed"})
           /\ Write(c, "settleWrite", Settled(call[c].fresh, Existing(c)))
  <2>1. Existing(c) \in Records /\ call[c].fresh.status \in {"completed", "failed"}
    BY <1>1, <1>4 DEF Existing, Found, Current, At, IInv, TypeOK
  <2>2. Settled(call[c].fresh, Existing(c)).status \in {"completed", "failed"}
    BY <1>1, <1>4, <2>1, SettledIsRecord DEF At
  <2> QED
    BY <1>1, <1>4, <2>2 DEF Write, Started, Current, At, Existing, Found
<1> QED
  BY <1>2, <1>3, <1>4
  DEF Step, ReserveRead, CompleteRead, FailRead, ReserveWrite, SettleWrite, ReadFails, WriteFails, At

LEMMA StepIsAside ==
    ASSUME IInv, Apart, NEW c \in Callers, Step(c)
    PROVE  /\ Aside(c) /\ overlapped' = overlapped
           /\ call'[c].key \in {call[c].key, None}
<1>1. /\ call \in [Callers -> Calls] /\ record \in [Keys -> Records \cup {None}]
      /\ Writing(c) => call[c].key \in Keys
  BY DEF IInv, TypeOK, Writing, SoundFlight
<1>2. /\ overlapped' = overlapped
      /\ (\E answer : Return(c, answer)) \/ (\E p, fresh : Write(c, p, fresh))
      /\ UNCHANGED record \/ (Writing(c) /\ Put(c))
  BY DEF Step, ReserveRead, ReserveWrite, CompleteRead, FailRead, SettleWrite,
         ReadFails, WriteFails, Return, Write, Writing, At
<1>3. /\ \A b \in Callers \ {c} : call'[b] = call[b]
      /\ call'[c].key \in {call[c].key, None}
  BY <1>1, <1>2 DEF Return, Write, Ended, Started
<1>4. ASSUME NEW b \in Callers \ {c}, call[b].key \in Keys \ overlapped
      PROVE  record'[call[b].key] = record[call[b].key]
  BY <1>1, <1>2, <1>4, IdempotencyAssumption DEF Apart, Put
<1> QED
  BY <1>2, <1>3, <1>4 DEF Aside

\* Operations stay apart: one that begins on the key of another is recorded.
LEMMA StaysApart == CurrentInv /\ [Next]_vars => Apart'
<1> SUFFICES ASSUME CurrentInv, [Next]_vars PROVE Apart'
  OBVIOUS
<1>1. IInv /\ Apart /\ call \in [Callers -> Calls]
  BY DEF CurrentInv, IInv, TypeOK
<1>2. CASE UNCHANGED vars
  BY <1>1, <1>2 DEF vars, Apart
<1>3. ASSUME NEW c \in Callers, Start(c) PROVE Apart'
  <2>1. CASE RejectInput(c)
    BY <1>1, <2>1 DEF RejectInput, Return, Ended, Apart
  <2>2. ASSUME NEW k \in Keys, Reach(k), NEW x, call' = [call EXCEPT ![c] = x], x.key \in {k, None}
        PROVE  Apart'
    <3>1. /\ call'[c].key \in {k, None} /\ \A b \in Callers \ {c} : call'[b] = call[b]
          /\ overlapped' = overlapped \cup ({k} \cap {call[b].key : b \in Callers})
      BY <1>1, <2>2 DEF Reach
    <3> QED
      BY <1>1, <3>1 DEF Apart
  <2> QED
    BY <1>3, <2>1, <2>2
    DEF Start, BeginReserve, BeginComplete, BeginFail, Begin, Started, Delete, DeleteFails, Ended
<1>4. ASSUME NEW c \in Callers, Step(c) PROVE Apart'
  BY <1>1, <1>4, StepIsAside DEF Aside, Apart
<1> QED
  BY <1>2, <1>3, <1>4 DEF Next

LEMMA CurrentInductive == CurrentInv /\ [Next]_vars => CurrentInv'
<1> SUFFICES ASSUME CurrentInv, [Next]_vars PROVE CurrentInv'
  OBVIOUS
<1>1. IInv'
  BY Inductive DEF CurrentInv
<1>2. ASSUME NEW c \in Callers PROVE call'[c].key \in overlapped' \/ Current(c)'
  <2>1. CASE UNCHANGED vars
    BY <2>1 DEF vars, CurrentInv, Current, At, Existing, Found
  <2>2. ASSUME NEW d \in Callers, Start(d) PROVE call'[c].key \in overlapped' \/ Current(c)'
    BY <2>2, StartIsCurrent, AsideIsCurrent DEF CurrentInv
  <2>3. ASSUME NEW d \in Callers, Step(d) PROVE call'[c].key \in overlapped' \/ Current(c)'
    <3>1. CASE c # d
      BY <2>3, <3>1, StepIsAside, AsideIsCurrent DEF CurrentInv
    <3>2. CASE c = d /\ Current(c)
      BY <2>3, <3>2, StepIsCurrent DEF CurrentInv
    <3>3. CASE c = d /\ call'[c].key = None
      BY <1>1, <3>3, IdempotencyAssumption, IdleIsCurrent DEF IInv, SoundFlight
    <3> QED
      BY <2>3, <3>1, <3>2, <3>3, StepIsAside DEF CurrentInv
  <2> QED
    BY <2>1, <2>2, <2>3 DEF Next
<1> QED
  BY <1>1, <1>2, StaysApart DEF CurrentInv

LEMMA AlwaysCurrent == Spec => []CurrentInv
<1>1. Init => CurrentInv
  BY Initial DEF CurrentInv, Init, Apart, Current, At, Ended
<1> QED
  BY <1>1, CurrentInductive, PTL DEF Spec

-----------------------------------------------------------------------------
(* The refinement                                                           *)

\* What a step does to one key.
Kept(k)     == record'[k] = record[k] /\ reserved'[k] = reserved[k]
Reserves(k) ==
    /\ record[k] = None /\ record'[k] \in Records /\ record'[k].status = "pending"
    /\ reserved[k] = 0 /\ reserved'[k] \in {0, 1}
Settles(k)  ==
    /\ record[k] # None /\ record[k].status \in {"pending", "failed"}
    /\ record'[k] \in Records /\ record'[k].status \in {"completed", "failed"}
    /\ reserved'[k] = reserved[k]
Forgets(k)  == record'[k] = None /\ reserved'[k] = 0
Contends(k) == overlapped' = overlapped \cup {k}

LEMMA PutsOne ==
    ASSUME CurrentInv, NEW c \in Callers, Writing(c), Put(c), UNCHANGED overlapped,
           UNCHANGED reserved \/ (At(c, "reserveWrite") /\ HandedOut(c))
    PROVE  \E k \in Keys :
              /\ \A l \in Keys \ {k} : Kept(l)
              /\ Reserves(k) \/ Settles(k) \/ Contends(k)
<1> DEFINE k == call[c].key
<1>1. k \in Keys /\ call[c].fresh \in Records /\ (k \in overlapped \/ Current(c))
  BY DEF Writing, CurrentInv, IInv, SoundFlight
<1>2. /\ record \in [Keys -> Records \cup {None}] /\ reserved \in [Keys -> 0..2]
      /\ reserved[k] > 0 => record[k] # None
  BY <1>1 DEF CurrentInv, IInv, TypeOK, ReservationIsRemembered
<1>3. /\ record' = [record EXCEPT ![k] = call[c].fresh] /\ record'[k] = call[c].fresh
      /\ record[k] = Existing(c)
  BY <1>1, <1>2 DEF Put, Existing
<1>4. \A l \in Keys \ {k} : Kept(l)
  BY <1>2, <1>3 DEF Kept, HandedOut
<1>5. CASE At(c, "reserveWrite") /\ Current(c)
  <2>1. record[k] = None /\ call[c].fresh.status = "pending"
    BY <1>1, <1>3, <1>5 DEF Current, At
  <2>2. reserved[k] = 0 /\ reserved'[k] \in {0, 1}
    BY <1>1, <1>2, <2>1 DEF HandedOut
  <2> QED
    BY <1>1, <1>3, <1>4, <2>1, <2>2 DEF Reserves
<1>6. CASE At(c, "settleWrite") /\ Current(c)
  BY <1>1, <1>3, <1>4, <1>6 DEF Settles, Current, At, Found
<1>7. CASE k \in overlapped
  BY <1>1, <1>4, <1>7 DEF Contends
<1> QED
  BY <1>1, <1>5, <1>6, <1>7 DEF Writing, At

LEMMA StepsOne ==
    ASSUME CurrentInv, [Next]_vars
    PROVE  \/ UNCHANGED <<record, reserved, overlapped>>
           \/ \E k \in Keys :
                 /\ \A l \in Keys \ {k} : Kept(l)
                 /\ \/ Contends(k)
                    \/ UNCHANGED overlapped /\ (Reserves(k) \/ Settles(k) \/ Forgets(k))
<1>1. \/ UNCHANGED <<record, reserved, overlapped>>
      \/ \E k \in Keys : Reach(k) /\ (Forget(k) \/ UNCHANGED <<record, reserved>>)
      \/ \E c \in Callers :
            /\ Writing(c) /\ Put(c) /\ UNCHANGED overlapped
            /\ UNCHANGED reserved \/ (At(c, "reserveWrite") /\ HandedOut(c))
  BY DEF Next, vars, Start, Step, RejectInput, BeginReserve, BeginComplete, BeginFail, Begin,
         Delete, DeleteFails, ReserveRead, ReserveWrite, CompleteRead, FailRead, SettleWrite,
         ReadFails, WriteFails, Writing, HandedOut, At, Return, Write
<1>2. ASSUME NEW k \in Keys, Reach(k), Forget(k) \/ UNCHANGED <<record, reserved>>
      PROVE  /\ \A l \in Keys \ {k} : Kept(l)
             /\ Contends(k) \/ UNCHANGED overlapped
             /\ Forgets(k) \/ UNCHANGED <<record, reserved>>
  <2>1. record \in [Keys -> Records \cup {None}] /\ reserved \in [Keys -> 0..2]
    BY DEF CurrentInv, IInv, TypeOK
  <2> QED
    BY <1>2, <2>1 DEF Reach, Forget, Kept, Contends, Forgets
<1> QED
  BY <1>1, <1>2, PutsOne

\* The status of a key in the ledger.
StatusOf(rec) ==
    IF rec = None THEN "free" ELSE IF rec.status = "pending" THEN "reserved" ELSE rec.status

LEMMA StepsLedger == CurrentInv /\ [Next]_vars => [Ledger!Next]_(Ledger!vars)
<1> SUFFICES ASSUME CurrentInv, [Next]_vars PROVE [Ledger!Next]_(Ledger!vars)
  OBVIOUS
<1> DEFINE status == [k \in Keys |-> StatusOf(record[k])]
<1>1. /\ reserved \in [Keys -> 0..2] /\ reserved' \in [Keys -> 0..2]
      /\ record \in [Keys -> Records \cup {None}] /\ record' \in [Keys -> Records \cup {None}]
  BY Inductive DEF CurrentInv, IInv, TypeOK
<1>2. CASE UNCHANGED <<record, reserved, overlapped>>
  BY <1>2 DEF Ledger!vars
<1>3. ASSUME NEW k \in Keys, \A l \in Keys \ {k} : Kept(l)
      PROVE  /\ status' = [status EXCEPT ![k] = StatusOf(record'[k])]
             /\ reserved' = [reserved EXCEPT ![k] = reserved'[k]]
  BY <1>1, <1>3 DEF Kept, StatusOf
<1>4. ASSUME NEW k \in Keys, UNCHANGED overlapped, \A l \in Keys \ {k} : Kept(l), Reserves(k)
      PROVE  Ledger!Reserve(k)
  <2>1. status[k] = "free" /\ StatusOf(record'[k]) = "reserved"
    BY <1>4, IdempotencyAssumption DEF Reserves, StatusOf
  <2>2. reserved' \in {[reserved EXCEPT ![k] = 1], reserved}
    BY <1>1, <1>4 DEF Kept, Reserves
  <2> QED
    BY <1>3, <1>4, <2>1, <2>2 DEF Ledger!Reserve, StatusOf
<1>5. ASSUME NEW k \in Keys, UNCHANGED overlapped, \A l \in Keys \ {k} : Kept(l), Settles(k)
      PROVE  Ledger!Settle(k)
  <2>1. status[k] \notin {"completed"} \cup {"free"}
    BY <1>5 DEF Settles, StatusOf
  <2>2. StatusOf(record'[k]) \in {"completed", "failed"}
    BY <1>5, IdempotencyAssumption DEF Settles, StatusOf
  <2>3. reserved' = reserved
    BY <1>1, <1>5 DEF Kept, Settles
  <2> QED
    BY <1>3, <1>5, <2>1, <2>2, <2>3 DEF Ledger!Settle, Ledger!Outcomes, StatusOf
<1>6. ASSUME NEW k \in Keys, UNCHANGED overlapped, \A l \in Keys \ {k} : Kept(l), Forgets(k)
      PROVE  Ledger!Forget(k)
  <2>1. StatusOf(record'[k]) = "free"
    BY <1>6 DEF Forgets, StatusOf
  <2> QED
    BY <1>3, <1>6, <2>1 DEF Forgets, Ledger!Forget, StatusOf
<1>7. ASSUME NEW k \in Keys, \A l \in Keys \ {k} : Kept(l), Contends(k)
      PROVE  Ledger!Contend(k)
  <2>1. StatusOf(record'[k]) \in Ledger!Statuses
    BY <1>1 DEF StatusOf, Records, Statuses, Ledger!Statuses, Ledger!Outcomes
  <2>2. reserved'[k] \in 0..2
    BY <1>1
  <2> QED
    BY <1>3, <1>7, <2>1, <2>2 DEF Ledger!Contend, Contends, StatusOf
<1> QED
  BY <1>2, <1>4, <1>5, <1>6, <1>7, StepsOne DEF Ledger!Next, Ledger!vars

\* The store implements the ledger: a key is reserved for one caller until it is
\* deleted, and only a completion is final.
THEOREM ImplementsTheLedger == Spec => ImplementsLedger
<1>1. Init => Ledger!Init
  BY DEF Init, Ledger!Init
<1> QED
  BY <1>1, StepsLedger, AlwaysCurrent, PTL DEF Spec, ImplementsLedger, Ledger!Spec

-----------------------------------------------------------------------------
(* The durable core stores                                                  *)

CoreOperations == {"none", "get", "put", "delete", "list", "consume"}
CorePcs == {"idle", "reading", "read", "writing", "written"}

\* A call that is under way is of a store, and what it has done is what its place says.
CallSound(x) ==
    /\ x \in [pc : CorePcs, operation : CoreOperations, store : {x.store}, key : {x.key}, owner : {x.owner},
              filter : {x.filter}, limit : {x.limit}, fresh : {x.fresh}, value : {x.value}, asOf : {x.asOf},
              answer : {x.answer}, wrote : BOOLEAN, stale : BOOLEAN]
    /\ x.pc # "idle" => x.store \in CoreStores
    /\ x.operation = "consume" /\ x.pc # "idle" => x.store = "presentationActionTokenStore"
    /\ x.pc \in {"reading", "read"} => x.operation \in {"get", "list", "consume"}
    /\ x.pc \in {"writing", "written"} => x.operation \in {"put", "delete", "consume"}

\* All of the records that match, or as many of them as were asked for.
ListOf(records, x) ==
    /\ records \subseteq x.asOf
    /\ records = x.asOf \/ Cardinality(records) \in x.limit

AnswerIsTrue(x) ==
    /\ x.pc \in {"reading", "read", "writing"} => ~x.wrote
    /\ x.pc = "written" => x.wrote
    /\ x.pc = "read" /\ x.operation = "list" => ListOf(FilterByStatus(x.value, x.filter), x)
    /\ x.pc = "idle" =>
         /\ x.answer = "ok" /\ x.operation \in {"put", "delete", "consume"} => x.wrote
         /\ x.wrote => x.answer \in {"ok", "dependency-failed"}
         /\ x.answer = "ok" /\ x.operation = "list" => ListOf(x.value, x)

\* A consumption whose record nobody has overwritten has read it as it stands, and writes
\* only what could be consumed.
ReadStands(x, held) ==
    x.operation = "consume" =>
        /\ x.pc \in {"read", "writing"} /\ ~x.stale =>
               x.value = {held[x.store][k] : k \in {x.key} \cap DOMAIN held[x.store]}
        /\ x.pc = "writing" => \E r \in x.value : r.status \in {"issued", "verified"}

CoreInv ==
    /\ stored = [s \in CoreStores |-> stored[s]]
    /\ coreBoundary.stores \subseteq CoreStores
    /\ coreCall = [c \in CoreCallers |-> coreCall[c]]
    /\ \A c \in CoreCallers :
         CallSound(coreCall[c]) /\ AnswerIsTrue(coreCall[c]) /\ ReadStands(coreCall[c], stored)

\* One call that changes, and nothing of what is stored.
LEMMA CoreMoves ==
    ASSUME CoreInv, NEW c \in CoreCallers, NEW x,
           CoreSet(c, x), UNCHANGED <<stored, coreBoundary>>,
           CallSound(x), AnswerIsTrue(x), ReadStands(x, stored)
    PROVE  CoreInv'
<1>1. coreCall'[c] = x /\ \A d \in CoreCallers \ {c} : coreCall'[d] = coreCall[d]
  BY DEF CoreSet, CoreInv
<1> QED
  BY <1>1 DEF CoreInv, CoreSet

\* A call that starts.
LEMMA StartKeeps ==
    ASSUME CoreInv, NEW c \in CoreCallers, NEW x, CoreStarted(c, x),
           x.pc \in {"reading", "writing"}, ~x.wrote, CallSound(x),
           x.pc = "writing" => x.operation # "consume"
    PROVE  CoreInv'
<1>1. AnswerIsTrue(x) /\ ReadStands(x, stored)
  BY DEF AnswerIsTrue, ReadStands
<1> QED
  BY <1>1, CoreMoves DEF CoreStarted

\* A call that is answered, or refused before the boundary was asked.
LEMMA AnsweredKeeps ==
    ASSUME CoreInv, NEW c \in CoreCallers, NEW operation \in CoreOperations, NEW answer, NEW wrote \in BOOLEAN,
           CoreSet(c, [NoCoreCall EXCEPT !.operation = operation, !.answer = answer, !.wrote = wrote]),
           UNCHANGED <<stored, coreBoundary>>,
           answer = "ok" => operation # "list" /\ (operation \in {"put", "delete", "consume"} => wrote),
           wrote => answer \in {"ok", "dependency-failed"}
    PROVE  CoreInv'
<1> DEFINE x == [NoCoreCall EXCEPT !.operation = operation, !.answer = answer, !.wrote = wrote]
<1>1. CallSound(x) /\ x.pc = "idle" /\ x.operation = operation /\ x.answer = answer /\ (x.wrote <=> wrote)
  BY DEF NoCoreCall, CallSound, CorePcs
<1> HIDE DEF x
<1>2. AnswerIsTrue(x) /\ ReadStands(x, stored)
  BY <1>1 DEF AnswerIsTrue, ReadStands
<1> QED
  BY <1>1, <1>2, CoreMoves DEF x

LEMMA RefusedKeeps ==
    ASSUME CoreInv, NEW c \in CoreCallers, NEW operation \in CoreOperations, NEW answer, answer # "ok",
           CoreRefused(c, operation, answer)
    PROVE  CoreInv'
<1> DEFINE x == [NoCoreCall EXCEPT !.operation = operation, !.answer = answer]
<1>1. CallSound(x) /\ x.pc = "idle" /\ x.answer = answer /\ ~x.wrote
  BY DEF NoCoreCall, CallSound, CorePcs
<1>2. CoreSet(c, x) /\ UNCHANGED <<stored, coreBoundary>>
  BY DEF CoreRefused
<1> HIDE DEF x
<1>3. AnswerIsTrue(x) /\ ReadStands(x, stored)
  BY <1>1 DEF AnswerIsTrue, ReadStands
<1> QED
  BY <1>1, <1>2, <1>3, CoreMoves

LEMMA AnswerKeeps ==
    ASSUME CoreInv, NEW c \in CoreCallers, NEW answer, CoreAnswer(c, answer),
           UNCHANGED <<stored, coreBoundary>>,
           \/ answer \notin {"ok", "dependency-failed"} /\ coreCall[c].pc \in {"reading", "read", "writing"}
           \/ answer = "dependency-failed"
           \/ answer = "ok" /\ coreCall[c].operation = "get" /\ ~coreCall[c].wrote
           \/ answer = "ok" /\ coreCall[c].pc = "written"
    PROVE  CoreInv'
<1>1. /\ coreCall[c].operation \in CoreOperations /\ coreCall[c].wrote \in BOOLEAN
      /\ coreCall[c].pc \in {"reading", "read", "writing"} => ~coreCall[c].wrote
      /\ coreCall[c].pc = "written" =>
             coreCall[c].wrote /\ coreCall[c].operation \in {"put", "delete", "consume"}
  BY DEF CoreInv, CallSound, AnswerIsTrue
<1> QED
  BY <1>1, AnsweredKeeps DEF CoreAnswer

LEMMA CoreStartKeeps ==
    ASSUME CoreInv, NEW c \in CoreCallers, NEW store \in CoreStores, CoreStart(c, store)
    PROVE  CoreInv'
<1>1. ASSUME NEW key, BeginGet(c, store, key) PROVE CoreInv'
  <2>1. CallSound(CoreBegun("get", "reading", store, key))
    BY DEF CoreBegun, NoCoreCall, CallSound, CorePcs, CoreOperations
  <2>2. LET x == CoreBegun("get", "reading", store, key) IN x.pc = "reading" /\ ~x.wrote
    BY DEF CoreBegun, NoCoreCall
  <2> QED
    BY <1>1, <2>1, <2>2, StartKeeps DEF BeginGet
<1>2. ASSUME NEW key, BeginDelete(c, store, key) PROVE CoreInv'
  <2>1. CallSound(CoreBegun("delete", "writing", store, key))
    BY DEF CoreBegun, NoCoreCall, CallSound, CorePcs, CoreOperations
  <2>2. LET x == CoreBegun("delete", "writing", store, key)
        IN x.pc = "writing" /\ x.operation = "delete" /\ ~x.wrote
    BY DEF CoreBegun, NoCoreCall
  <2> QED
    BY <1>2, <2>1, <2>2, StartKeeps DEF BeginDelete
<1>3. ASSUME NEW r, BeginPut(c, store, r) PROVE CoreInv'
  <2> DEFINE x == [CoreBegun("put", "writing", store, r.key) EXCEPT !.fresh = {Normalized(store, r)}]
  <2>1. CallSound(x) /\ x.pc = "writing" /\ x.operation = "put" /\ ~x.wrote
    BY DEF CoreBegun, NoCoreCall, CallSound, CorePcs, CoreOperations
  <2> HIDE DEF x
  <2> QED
    BY <1>3, <2>1, StartKeeps DEF BeginPut, x
<1>4. ASSUME NEW filter, NEW limit, BeginList(c, store, filter, limit) PROVE CoreInv'
  <2> DEFINE x == [CoreBegun("list", "reading", store, "none") EXCEPT !.filter = filter, !.limit = limit]
  <2>1. CallSound(x) /\ x.pc = "reading" /\ ~x.wrote
    BY DEF CoreBegun, NoCoreCall, CallSound, CorePcs, CoreOperations
  <2> HIDE DEF x
  <2> QED
    BY <1>4, <2>1, StartKeeps DEF BeginList, x
<1>5. ASSUME NEW operation \in CoreOperations, NEW answer, answer # "ok", CoreRefused(c, operation, answer)
      PROVE  CoreInv'
  BY <1>5, RefusedKeeps
<1> QED
  BY <1>1, <1>2, <1>3, <1>4, <1>5
     DEF CoreStart, RejectRecord, RejectKey, DeleteMissing, ListMissing, RejectFilter, CoreOperations

LEMMA ConsumeStartKeeps ==
    ASSUME CoreInv, NEW c \in CoreCallers, NEW key, NEW owner, BeginConsume(c, key, owner)
    PROVE  CoreInv'
<1> DEFINE x == [CoreBegun("consume", "reading", "presentationActionTokenStore", key) EXCEPT !.owner = owner]
<1>1. CallSound(x) /\ x.pc = "reading" /\ ~x.wrote
  BY DEF CoreBegun, NoCoreCall, CallSound, CorePcs, CoreOperations, CoreStores
<1> HIDE DEF x
<1> QED
  BY <1>1, StartKeeps DEF BeginConsume, x

LEMMA CoreReadKeeps ==
    ASSUME CoreInv, NEW c \in CoreCallers, CoreRead(c) PROVE CoreInv'
<1> DEFINE mine == coreCall[c]
           x == [mine EXCEPT !.pc = "read", !.value = StoredUnder(mine.store, mine.key)]
<1>1. CallSound(mine) /\ AnswerIsTrue(mine) /\ mine.pc = "reading" /\ mine.operation \in {"get", "consume"}
  BY DEF CoreRead, CoreAt, CoreInv
<1>2. /\ CallSound(x) /\ x.pc = "read" /\ x.operation = mine.operation /\ (x.wrote <=> mine.wrote)
      /\ x.value = StoredUnder(x.store, x.key)
  BY <1>1 DEF CallSound, CorePcs
<1>3. CoreSet(c, x) /\ UNCHANGED <<stored, coreBoundary>>
  BY DEF CoreRead
<1> HIDE DEF mine, x
<1>4. AnswerIsTrue(x) /\ ReadStands(x, stored)
  BY <1>1, <1>2 DEF AnswerIsTrue, ReadStands, StoredUnder
<1> QED
  BY <1>2, <1>3, <1>4, CoreMoves

LEMMA GetAnsweredKeeps ==
    ASSUME CoreInv, NEW c \in CoreCallers, GetAnswered(c) PROVE CoreInv'
<1>1. coreCall[c].pc = "read" /\ coreCall[c].operation = "get" /\ ~coreCall[c].wrote
  BY DEF GetAnswered, CoreAt, CoreInv, AnswerIsTrue
<1> QED
  BY <1>1, AnswerKeeps DEF GetAnswered, CoreRejects

LEMMA WriteAnsweredKeeps ==
    ASSUME CoreInv, NEW c \in CoreCallers, WriteAnswered(c) PROVE CoreInv'
  BY AnswerKeeps DEF WriteAnswered, CoreRejects, CoreAt

\* What a limit leaves of the records is of them, all or as many as it says.
LEMMA LimitLeaves ==
    ASSUME NEW records, NEW limit, NEW first \in LimitTo(records, limit)
    PROVE  first \subseteq records /\ (first = records \/ Cardinality(first) \in limit)
  BY DEF LimitTo

LEMMA ListKeeps ==
    ASSUME CoreInv, NEW c \in CoreCallers, CoreList(c) PROVE CoreInv'
<1> DEFINE mine == coreCall[c]
           all == StoredRecords(mine.store)
           match == {r \in all : mine.filter = {} \/ r.status \in mine.filter}
<1>1. CallSound(mine) /\ AnswerIsTrue(mine) /\ mine.pc = "reading" /\ mine.operation = "list"
  BY DEF CoreList, CoreAt, CoreInv
<1>2. PICK given \in {all, match} \cup LimitTo(match, mine.limit) :
          CoreSet(c, [mine EXCEPT !.pc = "read", !.value = given, !.asOf = match])
  BY DEF CoreList
<1> DEFINE left == FilterByStatus(given, mine.filter)
<1>3. left \subseteq match /\ (left = match \/ Cardinality(left) \in mine.limit)
  <2>1. CASE given \in {all, match}
    BY <2>1 DEF FilterByStatus
  <2>2. CASE given \in LimitTo(match, mine.limit)
    <3>1. given \subseteq match /\ (given = match \/ Cardinality(given) \in mine.limit)
      BY <2>2, LimitLeaves
    <3>2. left = given
      BY <3>1 DEF FilterByStatus
    <3> QED
      BY <3>1, <3>2
  <2> QED
    BY <1>2, <2>1, <2>2
<1> DEFINE x == [mine EXCEPT !.pc = "read", !.value = given, !.asOf = match]
<1> HIDE DEF mine, match
<1>4. /\ CallSound(x) /\ x.pc = "read" /\ x.operation = "list" /\ (x.wrote <=> mine.wrote)
      /\ x.value = given /\ x.asOf = match /\ x.filter = mine.filter /\ x.limit = mine.limit
  BY <1>1 DEF CallSound, CorePcs
<1> HIDE DEF x
<1>5. AnswerIsTrue(x) /\ ReadStands(x, stored)
  BY <1>1, <1>3, <1>4 DEF AnswerIsTrue, ReadStands, ListOf
<1> QED
  BY <1>2, <1>4, <1>5, CoreMoves DEF CoreList, x

LEMMA ListAnsweredKeeps ==
    ASSUME CoreInv, NEW c \in CoreCallers, ListAnswered(c) PROVE CoreInv'
<1> DEFINE mine == coreCall[c]
           left == FilterByStatus(mine.value, mine.filter)
<1>1. /\ CallSound(mine) /\ AnswerIsTrue(mine) /\ mine.pc = "read" /\ mine.operation = "list"
      /\ UNCHANGED <<stored, coreBoundary>>
  BY DEF ListAnswered, CoreAt, CoreInv
<1>2. ASSUME NEW first \in LimitTo(left, mine.limit),
             CoreSet(c, [mine EXCEPT !.pc = "idle", !.answer = "ok", !.value = first])
      PROVE  CoreInv'
  <2> DEFINE x == [mine EXCEPT !.pc = "idle", !.answer = "ok", !.value = first]
  <2>1. /\ CallSound(x) /\ x.pc = "idle" /\ x.operation = "list" /\ (x.wrote <=> mine.wrote)
        /\ x.answer = "ok" /\ x.value = first /\ x.asOf = mine.asOf /\ x.limit = mine.limit
    BY <1>1 DEF CallSound, CorePcs
  <2>2. ListOf(left, mine)
    BY <1>1 DEF AnswerIsTrue
  <2> HIDE DEF mine, left, x
  <2>3. ListOf(first, x)
    BY <1>2, <2>1, <2>2, LimitLeaves DEF ListOf
  <2>4. AnswerIsTrue(x) /\ ReadStands(x, stored)
    BY <1>1, <2>1, <2>3 DEF AnswerIsTrue, ReadStands
  <2> QED
    BY <1>1, <1>2, <2>1, <2>4, CoreMoves DEF x
<1>3. CASE CoreAnswer(c, "invalid-input") \/ CoreRejects(c)
  BY <1>1, <1>3, AnswerKeeps DEF CoreRejects
<1> QED
  BY <1>2, <1>3 DEF ListAnswered

LEMMA ConsumeKeeps ==
    ASSUME CoreInv, NEW c \in CoreCallers, ConsumeDecided(c) PROVE CoreInv'
<1> DEFINE mine == coreCall[c]
<1>1. /\ CallSound(mine) /\ AnswerIsTrue(mine) /\ ReadStands(mine, stored)
      /\ mine.pc = "read" /\ mine.operation = "consume" /\ mine.store = "presentationActionTokenStore"
      /\ UNCHANGED <<stored, coreBoundary>>
  BY DEF ConsumeDecided, CoreAt, CoreInv, CallSound
<1>2. ASSUME NEW r \in mine.value, Readable(c), Consumable(r), NEW fresh,
             CoreSet(c, [mine EXCEPT !.pc = "writing", !.fresh = fresh])
      PROVE  CoreInv'
  <2> DEFINE x == [mine EXCEPT !.pc = "writing", !.fresh = fresh]
  <2>1. r.status \in {"issued", "verified"}
    BY <1>1, <1>2 DEF Readable, Consumable, NormalizesAs, CoreStatuses, ActionTokenStatuses
  <2>2. /\ CallSound(x) /\ x.pc = "writing" /\ x.operation = "consume" /\ (x.wrote <=> mine.wrote)
        /\ x.value = mine.value /\ x.store = mine.store /\ x.key = mine.key /\ (x.stale <=> mine.stale)
    BY <1>1 DEF CallSound, CorePcs
  <2> HIDE DEF mine, x
  <2>3. AnswerIsTrue(x) /\ ReadStands(x, stored)
    BY <1>1, <1>2, <2>1, <2>2 DEF AnswerIsTrue, ReadStands
  <2> QED
    BY <1>1, <1>2, <2>2, <2>3, CoreMoves DEF x
<1>3. CASE \/ CoreAnswer(c, "invalid-input") \/ CoreAnswer(c, "not-found")
           \/ CoreAnswer(c, "conflict") \/ CoreRejects(c)
  BY <1>1, <1>3, AnswerKeeps DEF CoreRejects
<1> QED
  BY <1>2, <1>3 DEF ConsumeDecided

\* The record of a key is overwritten or deleted: a consumption that has read it is outdated,
\* and what the others have read stands.
LEMMA OutdateStands ==
    ASSUME CoreInv, NEW store \in CoreStores, NEW key, NEW records,
           stored' = [stored EXCEPT ![store] = records],
           \A k \in DOMAIN records \cup DOMAIN stored[store] :
               k # key => /\ k \in DOMAIN records /\ k \in DOMAIN stored[store]
                          /\ records[k] = stored[store][k],
           NEW d \in CoreCallers
    PROVE  LET y == Outdate(store, key)[d]
           IN CallSound(y) /\ AnswerIsTrue(y) /\ ReadStands(y, stored')
<1> DEFINE mine == coreCall[d]
           y == Outdate(store, key)[d]
           x == [mine EXCEPT !.stale = TRUE]
<1>1. CallSound(mine) /\ AnswerIsTrue(mine) /\ ReadStands(mine, stored)
  BY DEF CoreInv
<1>2. CASE mine.operation = "consume" /\ mine.pc \in {"read", "writing"} /\ mine.store = store /\ mine.key = key
  <2>1. y = x
    BY <1>2 DEF Outdate
  <2>2. /\ CallSound(x) /\ x.pc = mine.pc /\ x.operation = mine.operation /\ (x.wrote <=> mine.wrote)
        /\ x.value = mine.value /\ x.stale
    BY <1>1 DEF CallSound
  <2> HIDE DEF mine, x
  <2>3. AnswerIsTrue(x) /\ ReadStands(x, stored')
    BY <1>1, <1>2, <2>2 DEF AnswerIsTrue, ReadStands
  <2> QED
    BY <2>1, <2>2, <2>3
<1>3. CASE ~(/\ mine.operation = "consume" /\ mine.pc \in {"read", "writing"}
             /\ mine.store = store /\ mine.key = key)
  <2>1. y = mine
    BY <1>3 DEF Outdate
  <2> HIDE DEF mine
  <2>2. ReadStands(mine, stored')
    <3>1. CASE mine.operation = "consume" /\ mine.pc \in {"read", "writing"}
      <4>1. mine.store \in CoreStores /\ (mine.store # store \/ mine.key # key)
        BY <1>1, <1>3, <3>1 DEF CallSound
      <4>2. {stored'[mine.store][k] : k \in {mine.key} \cap DOMAIN stored'[mine.store]}
               = {stored[mine.store][k] : k \in {mine.key} \cap DOMAIN stored[mine.store]}
        BY <4>1 DEF CoreInv
      <4> QED
        BY <1>1, <4>2 DEF ReadStands
    <3>2. CASE ~(mine.operation = "consume" /\ mine.pc \in {"read", "writing"})
      BY <3>2 DEF ReadStands
    <3> QED
      BY <3>1, <3>2
  <2> QED
    BY <1>1, <2>1, <2>2
<1> QED
  BY <1>2, <1>3

LEMMA CoreWriteKeeps ==
    ASSUME CoreInv, NEW c \in CoreCallers, CoreWrite(c) PROVE CoreInv'
<1> DEFINE mine == coreCall[c]
           held == stored[mine.store]
           records == IF mine.operation = "delete" THEN WithoutRecord(held, mine.key)
                      ELSE WithRecord(held, mine.key, CHOOSE r \in mine.fresh : TRUE)
           x == [mine EXCEPT !.pc = "written", !.wrote = TRUE]
<1>1. /\ CallSound(mine) /\ mine.pc = "writing" /\ mine.store \in CoreStores
      /\ stored' = [stored EXCEPT ![mine.store] = records]
      /\ coreCall' = [Outdate(mine.store, mine.key) EXCEPT ![c] = x]
      /\ UNCHANGED coreBoundary
  BY DEF CoreWrite, CoreAt, CoreInv, CallSound
<1>2. \A k \in DOMAIN records \cup DOMAIN held :
          k # mine.key => k \in DOMAIN records /\ k \in DOMAIN held /\ records[k] = held[k]
  BY DEF WithRecord, WithoutRecord
<1>3. CallSound(x) /\ x.pc = "written" /\ x.wrote
  BY <1>1 DEF CallSound, CorePcs
<1> HIDE DEF records, x
<1>4. \A d \in CoreCallers : LET y == Outdate(mine.store, mine.key)[d]
                             IN CallSound(y) /\ AnswerIsTrue(y) /\ ReadStands(y, stored')
  BY <1>1, <1>2, OutdateStands
<1>5. AnswerIsTrue(x) /\ ReadStands(x, stored')
  BY <1>3 DEF AnswerIsTrue, ReadStands
<1>6. /\ coreCall'[c] = x
      /\ \A d \in CoreCallers \ {c} : coreCall'[d] = Outdate(mine.store, mine.key)[d]
      /\ coreCall' = [d \in CoreCallers |-> coreCall'[d]]
  BY <1>1 DEF Outdate
<1>7. stored' = [s \in CoreStores |-> stored'[s]]
  BY <1>1 DEF CoreInv
<1> QED
  BY <1>1, <1>3, <1>4, <1>5, <1>6, <1>7 DEF CoreInv

LEMMA TamperKeeps ==
    ASSUME CoreInv, NEW store \in CoreStores, NEW r, Tamper(store, r) PROVE CoreInv'
<1> DEFINE records == WithRecord(stored[store], r.key, r)
<1>1. \A k \in DOMAIN records \cup DOMAIN stored[store] :
          k # r.key => k \in DOMAIN records /\ k \in DOMAIN stored[store] /\ records[k] = stored[store][k]
  BY DEF WithRecord
<1>2. /\ stored' = [stored EXCEPT ![store] = records]
      /\ coreCall' = Outdate(store, r.key) /\ UNCHANGED coreBoundary
  BY DEF Tamper
<1> HIDE DEF records
<1>3. \A d \in CoreCallers : LET y == Outdate(store, r.key)[d]
                             IN CallSound(y) /\ AnswerIsTrue(y) /\ ReadStands(y, stored')
  BY <1>1, <1>2, OutdateStands
<1>4. stored' = [s \in CoreStores |-> stored'[s]] /\ coreCall' = [d \in CoreCallers |-> coreCall'[d]]
  BY <1>2 DEF CoreInv, Outdate
<1> QED
  BY <1>2, <1>3, <1>4 DEF CoreInv

LEMMA CoreInductive == CoreInv /\ [CoreNext]_coreVars => CoreInv'
<1> SUFFICES ASSUME CoreInv, [CoreNext]_coreVars PROVE CoreInv'
  OBVIOUS
<1>1. CASE UNCHANGED coreVars
  BY <1>1 DEF coreVars, CoreInv
<1>2. ASSUME NEW c \in CoreCallers, CoreStep(c) PROVE CoreInv'
  BY <1>2, CoreReadKeeps, GetAnsweredKeeps, CoreWriteKeeps, WriteAnsweredKeeps, ListKeeps,
     ListAnsweredKeeps, ConsumeKeeps
     DEF CoreStep
<1>3. coreBoundary.stores \subseteq CoreStores
  BY DEF CoreInv
<1> QED
  BY <1>1, <1>2, <1>3, CoreStartKeeps, ConsumeStartKeeps, TamperKeeps DEF CoreNext

LEMMA AlwaysCore == CoreSpec => []CoreInv
<1>1. CoreInit => CoreInv
  <2> SUFFICES ASSUME CoreInit PROVE CoreInv
    OBVIOUS
  <2>1. CallSound(NoCoreCall) /\ AnswerIsTrue(NoCoreCall) /\ ReadStands(NoCoreCall, stored)
    BY DEF NoCoreCall, CallSound, CorePcs, CoreOperations, AnswerIsTrue, ReadStands
  <2>2. coreBoundary.stores \subseteq CoreStores
    BY DEF CoreInit, BundleStores
  <2> QED
    BY <2>1, <2>2 DEF CoreInit, CoreInv
<1> QED
  BY <1>1, CoreInductive, PTL DEF CoreSpec

\* An answer of a durable core store tells what its boundary did, however calls of a record
\* interleave and boundary calls reject.
THEOREM CoreAnswersTrue == CoreSpec => []CoreAnswersAreTrue
<1>1. CoreInv => CoreAnswersAreTrue
  BY DEF CoreInv, AnswerIsTrue, ListOf, CoreAnswersAreTrue
<1> QED
  BY <1>1, AlwaysCore, PTL

\* A token is consumed as it stands unless its record was overwritten since it was read.
THEOREM OverwritesOverlap == CoreSpec => OnlyOverlapsOverwrite
<1> DEFINE Stands == \A c \in CoreCallers :
                        CoreAt(c, "writing") /\ coreCall'[c].pc = "written" /\ coreCall[c].operation = "consume"
                          /\ ~coreCall[c].stale =>
                            \E r \in StoredUnder(coreCall[c].store, coreCall[c].key) :
                               r.status \in {"issued", "verified"}
<1>1. CoreInv => Stands
  BY DEF CoreInv, ReadStands, CoreAt, StoredUnder
<1> QED
  BY <1>1, AlwaysCore, PTL DEF CoreSpec, OnlyOverlapsOverwrite
=============================================================================

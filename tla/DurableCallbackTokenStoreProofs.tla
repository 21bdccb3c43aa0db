------------------- MODULE DurableCallbackTokenStoreProofs -------------------
(***************************************************************************)
(* Proofs about the stores of callback tokens and of adapter state.         *)
(* DurableCallbackTokenStore, for any number of tokens, keys, operations in *)
(* flight and rejected boundary calls: types, verification before           *)
(* consumption, and the forward-only lifecycle of the tokens that no two    *)
(* operations overlap on. AdapterState, for any refs and records of a host: *)
(* effects are signalled once, and keys and records agree.                  *)
(***************************************************************************)
EXTENDS DurableCallbackTokenStore, AdapterState, TLAPS

-----------------------------------------------------------------------------
(* The durable callback token store                                         *)

\* Before its read an operation holds the record it was called with; a
\* consumption is written only once a verification was read.
SoundFlight(x) ==
    /\ x.pc # "idle" => x.token \in Tokens /\ x.fresh \in Records
    /\ x.pc = "verRead" => x.fresh.status = "verified"
    /\ x.pc = "denRead" => x.fresh.status = "denied"
    /\ x.pc = "failRead" => x.fresh.status = "failed"
    /\ x.pc = "write" /\ x.fresh.status = "consumed" => x.token \in verified

\* A stored verification or consumption is in the history.
SoundRecords ==
    \A t \in Tokens :
        record[t] # None /\ record[t].status \in {"verified", "consumed"} => t \in verified

\* The inductive invariant.
IInv == TypeOK /\ SoundRecords /\ \A c \in Callers : SoundFlight(call[c])

\* A step that moves one operation and leaves the records alone.
Moves(c, x) ==
    /\ x \in Calls
    /\ SoundFlight(x)
    /\ call' = [call EXCEPT ![c] = x]
    /\ UNCHANGED <<record, verified>>
    /\ overlapped' \subseteq Tokens
    /\ failures' \in Nat

LEMMA EndedSound == \A answer \in Replies : Ended(answer) \in Calls /\ SoundFlight(Ended(answer))
  BY DEF Ended, Calls, Pcs, SoundFlight

LEMMA MovesKeeps ==
    ASSUME IInv, NEW c \in Callers, NEW x, Moves(c, x)
    PROVE  IInv'
<1>1. TypeOK'
  BY DEF IInv, TypeOK, Moves
<1>2. SoundRecords'
  BY DEF IInv, SoundRecords, Moves
<1>3. \A b \in Callers : SoundFlight(call[b])'
  BY DEF IInv, TypeOK, SoundFlight, Moves
<1> QED
  BY <1>1, <1>2, <1>3 DEF IInv

LEMMA ReturnKeeps ==
    ASSUME IInv, NEW c \in Callers, NEW answer \in Replies, Return(c, answer),
           UNCHANGED <<record, verified>>, failures' \in Nat
    PROVE  IInv'
<1>1. Moves(c, Ended(answer))
  BY EndedSound DEF Moves, Return, IInv, TypeOK
<1> QED
  BY <1>1, MovesKeeps

LEMMA BeginKeeps ==
    ASSUME IInv, NEW c \in Callers, NEW t \in Tokens, NEW k \in Keys \cup {None},
           \/ BeginVerified(c, t, k) \/ BeginDenied(c, t, k)
           \/ BeginConsumed(c, t, k) \/ BeginFailed(c, t, k)
    PROVE  IInv'
<1>1. PICK p \in {"verRead", "denRead", "conRead", "failRead"}, s \in Statuses :
        /\ Begin(c, p, s, t, k)
        /\ p = "verRead" => s = "verified"
        /\ p = "denRead" => s = "denied"
        /\ p = "failRead" => s = "failed"
  BY DEF BeginVerified, BeginDenied, BeginConsumed, BeginFailed, Statuses
<1>2. Moves(c, Started(p, t, Fresh(s, k)))
  BY <1>1
  DEF Moves, Begin, Reach, Started, Fresh, SoundFlight, Calls, Pcs, Replies, Records, IInv, TypeOK
<1> QED
  BY <1>2, MovesKeeps

\* An operation that read the store answers, or goes on to write.
LEMMA WriteKeeps ==
    ASSUME IInv, NEW c \in Callers, NEW fresh \in Records, Write(c, fresh),
           call[c].token \in Tokens,
           fresh.status = "consumed" => call[c].token \in verified,
           UNCHANGED <<record, verified, failures>>
    PROVE  IInv'
<1>1. Moves(c, Started("write", call[c].token, fresh))
  BY DEF Moves, Write, Started, SoundFlight, Calls, Pcs, Replies, IInv, TypeOK
<1> QED
  BY <1>1, MovesKeeps

LEMMA ReadKeeps ==
    ASSUME IInv, NEW c \in Callers,
           ReadVerified(c) \/ ReadDenied(c) \/ ReadConsumed(c) \/ ReadFailed(c)
    PROVE  IInv'
<1>1. UNCHANGED <<record, verified, failures>> /\ failures \in Nat
  BY DEF ReadVerified, ReadDenied, ReadConsumed, ReadFailed, IInv, TypeOK
<1>2. call[c].token \in Tokens /\ call[c].fresh \in Records
  BY DEF ReadVerified, ReadDenied, ReadConsumed, ReadFailed, IInv, SoundFlight, At
<1>3. CASE \E answer \in Replies : Return(c, answer)
  BY <1>1, <1>3, ReturnKeeps
<1>4. CASE Write(c, call[c].fresh) /\ call[c].fresh.status # "consumed"
  BY <1>1, <1>2, <1>4, WriteKeeps
<1>5. ASSUME ReadConsumed(c), ~\E answer \in Replies : Return(c, answer) PROVE IInv'
  <2> DEFINE k == IF call[c].fresh.key = None THEN Existing(c).key ELSE call[c].fresh.key
  <2>1. Found(c, {"verified"}) /\ Write(c, Fresh("consumed", k))
    BY <1>5 DEF ReadConsumed, Replies
  <2>2. Existing(c) \in Records /\ call[c].token \in verified
    BY <1>2, <2>1 DEF Found, Existing, IInv, TypeOK, SoundRecords
  <2>3. k \in Keys \cup {None}
    BY <1>2, <2>2 DEF Records
  <2> HIDE DEF k
  <2>4. Fresh("consumed", k) \in Records
    BY <2>3 DEF Fresh, Records, Statuses
  <2> QED
    BY <1>1, <1>2, <2>1, <2>2, <2>4, WriteKeeps
<1>6. \/ \E answer \in Replies : Return(c, answer)
      \/ Write(c, call[c].fresh) /\ call[c].fresh.status # "consumed"
      \/ ReadConsumed(c)
  BY DEF ReadVerified, ReadDenied, ReadFailed, Replies, IInv, SoundFlight, At
<1> QED
  BY <1>3, <1>4, <1>5, <1>6

LEMMA PutKeeps ==
    ASSUME IInv, NEW c \in Callers, NEW answer \in Replies,
           At(c, "write"), PutFresh(c), Return(c, answer), failures' \in Nat
    PROVE  IInv'
<1>1. /\ call[c].token \in Tokens /\ call[c].fresh \in Records
      /\ call[c].fresh.status = "consumed" => call[c].token \in verified
  BY DEF IInv, SoundFlight, At
<1>2. verified \subseteq verified' /\ verified' \subseteq Tokens
  BY <1>1 DEF PutFresh, IInv, TypeOK
<1>3. TypeOK'
  BY <1>1, <1>2, EndedSound DEF IInv, TypeOK, PutFresh, Return
<1>4. SoundRecords'
  BY <1>1, <1>2 DEF IInv, TypeOK, SoundRecords, PutFresh
<1>5. ASSUME NEW b \in Callers PROVE SoundFlight(call[b])'
  <2>1. CASE b = c
    BY <2>1 DEF Return, IInv, TypeOK, Ended, SoundFlight
  <2>2. CASE b # c
    BY <1>2, <2>2 DEF Return, IInv, TypeOK, SoundFlight
  <2> QED
    BY <2>1, <2>2
<1> QED
  BY <1>3, <1>4, <1>5 DEF IInv

LEMMA DeleteKeeps ==
    ASSUME IInv, NEW c \in Callers, NEW t \in Tokens, NEW answer \in Replies,
           call' = [call EXCEPT ![c] = Ended(answer)], Reach(t),
           record' \in {record, [record EXCEPT ![t] = None]},
           UNCHANGED verified, failures' \in Nat
    PROVE  IInv'
<1>1. TypeOK'
  BY EndedSound DEF IInv, TypeOK, Reach
<1>2. SoundRecords'
  BY DEF IInv, TypeOK, SoundRecords
<1>3. \A b \in Callers : SoundFlight(call[b])'
  BY DEF IInv, TypeOK, Ended, SoundFlight
<1> QED
  BY <1>1, <1>2, <1>3 DEF IInv

LEMMA FailsTyped == ASSUME TypeOK, Fails PROVE failures' \in Nat
  BY CallbackStoreAssumption DEF TypeOK, Fails

LEMMA Initial == Init => IInv
  BY EndedSound, CallbackStoreAssumption
  DEF Init, IInv, TypeOK, SoundRecords, Ended, SoundFlight, Replies

LEMMA Inductive == IInv /\ [Next]_vars => IInv'
<1> SUFFICES ASSUME IInv, [Next]_vars PROVE IInv'
  OBVIOUS
<1>1. CASE UNCHANGED vars
  BY <1>1 DEF vars, IInv, TypeOK, SoundRecords, SoundFlight
<1>2. ASSUME NEW c \in Callers, Start(c) PROVE IInv'
  <2>1. CASE RejectInput(c)
    BY <2>1, ReturnKeeps DEF RejectInput, Replies, IInv, TypeOK
  <2>2. ASSUME NEW t \in Tokens, Delete(c, t) PROVE IInv'
    BY <2>2, DeleteKeeps DEF Delete, Replies, IInv, TypeOK
  <2>3. ASSUME NEW t \in Tokens, DeleteFails(c, t) PROVE IInv'
    BY <2>3, DeleteKeeps, FailsTyped DEF DeleteFails, Replies, IInv
  <2> QED
    BY <1>2, <2>1, <2>2, <2>3, BeginKeeps DEF Start
<1>3. ASSUME NEW c \in Callers, Step(c) PROVE IInv'
  <2>1. CASE WriteRecord(c)
    BY <2>1, PutKeeps DEF WriteRecord, Replies, IInv, TypeOK
  <2>2. CASE ReadFails(c)
    BY <2>2, ReturnKeeps, FailsTyped DEF ReadFails, Replies, IInv
  <2>3. CASE WriteFails(c)
    BY <2>3, PutKeeps, ReturnKeeps, FailsTyped DEF WriteFails, Replies, IInv
  <2> QED
    BY <1>3, <2>1, <2>2, <2>3, ReadKeeps DEF Step
<1> QED
  BY <1>1, <1>2, <1>3 DEF Next

LEMMA AlwaysSound == Spec => []IInv
  BY Initial, Inductive, PTL DEF Spec

\* Records and operations in flight keep their shape.
THEOREM TypeCorrect == Spec => []TypeOK
<1>1. IInv => TypeOK
  BY DEF IInv
<1> QED
  BY <1>1, AlwaysSound, PTL

\* Only a token that was recorded as verified is recorded as consumed.
THEOREM VerifiedFirst == Spec => []ConsumedAfterVerified
<1>1. IInv => ConsumedAfterVerified
  BY DEF IInv, SoundRecords, ConsumedAfterVerified, SoundFlight, At
<1> QED
  BY <1>1, AlwaysSound, PTL

-----------------------------------------------------------------------------
(* Tokens that no two operations overlap on                                 *)

\* Two operations in flight on a token make it an overlapped one.
Apart == \A a, b \in Callers :
            a # b /\ call[a].token = call[b].token => call[a].token \in overlapped \cup {None}

\* What an operation about to write has read is still there.
Current(c) ==
    At(c, "write") =>
        /\ call[c].fresh.status = "verified" => Existing(c) = None
        /\ call[c].fresh.status = "denied" => Existing(c) = None \/ Found(c, {"failed"})
        /\ call[c].fresh.status = "consumed" => Found(c, {"verified"})
        /\ call[c].fresh.status = "failed" => ~Found(c, {"consumed"})

CurrentInv == IInv /\ Apart /\ \A c \in Callers : call[c].token \in overlapped \/ Current(c)

\* The other operations, and the records they have read, stay as they are.
Aside(c) ==
    /\ overlapped \subseteq overlapped'
    /\ \A b \in Callers \ {c} :
          /\ call'[b] = call[b]
          /\ call[b].token \in Tokens \ overlapped'
                => record'[call[b].token] = record[call[b].token]

LEMMA AsideIsCurrent ==
    ASSUME CurrentInv, NEW c \in Callers, NEW b \in Callers \ {c}, Aside(c)
    PROVE  call'[b].token \in overlapped' \/ Current(b)'
<1>1. call[b].pc # "idle" => call[b].token \in Tokens
  BY DEF CurrentInv, IInv, SoundFlight
<1> QED
  BY <1>1 DEF CurrentInv, Aside, Current, At, Existing, Found

\* An operation that begins, and the one boundary call of a deletion.
Reaches(c, t) ==
    /\ Reach(t)
    /\ record' \in {record, [record EXCEPT ![t] = None]}
    /\ \E x : /\ x.token \in {t, None} /\ x.pc # "write"
              /\ call' = [call EXCEPT ![c] = x]

LEMMA StartReaches ==
    ASSUME NEW c \in Callers, Start(c), ~RejectInput(c)
    PROVE  \E t \in Tokens : Reaches(c, t)
<1>1. ASSUME NEW t \in Tokens, Delete(c, t) \/ DeleteFails(c, t) PROVE Reaches(c, t)
  <2>1. \E answer : call' = [call EXCEPT ![c] = Ended(answer)]
    BY <1>1 DEF Delete, DeleteFails
  <2>2. \A answer : Ended(answer).token = None /\ Ended(answer).pc = "idle"
    BY DEF Ended
  <2> QED
    BY <1>1, <2>1, <2>2 DEF Delete, DeleteFails, Reaches
<1>2. ASSUME NEW t \in Tokens, NEW p \in {"verRead", "denRead", "conRead", "failRead"},
             NEW status, NEW k, Begin(c, p, status, t, k)
      PROVE  Reaches(c, t)
  BY <1>2 DEF Begin, Reaches, Started
<1> QED
  BY <1>1, <1>2 DEF Start, BeginVerified, BeginDenied, BeginConsumed, BeginFailed

LEMMA StartIsAside ==
    ASSUME IInv, NEW c \in Callers, Start(c)
    PROVE  Current(c)' /\ Aside(c)
<1>1. call \in [Callers -> Calls] /\ record \in [Tokens -> Records \cup {None}]
  BY DEF IInv, TypeOK
<1>2. CASE RejectInput(c)
  BY <1>1, <1>2 DEF RejectInput, Return, Ended, Current, At, Aside
<1>3. ASSUME NEW t \in Tokens, Reaches(c, t) PROVE Current(c)' /\ Aside(c)
  <2>1. Current(c)'
    BY <1>1, <1>3 DEF Current, At, Reaches
  <2>2. ASSUME NEW b \in Callers \ {c}, call[b].token \in Tokens \ overlapped'
        PROVE  record'[call[b].token] = record[call[b].token]
    BY <1>1, <1>3, <2>2 DEF Reach, Reaches
  <2> QED
    BY <1>1, <1>3, <2>1, <2>2 DEF Aside, Reach, Reaches
<1> QED
  BY <1>2, <1>3, StartReaches

LEMMA StepIsCurrent ==
    ASSUME IInv, NEW c \in Callers, Step(c)
    PROVE  Current(c)'
<1>1. CASE \E answer \in Replies : Return(c, answer)
  BY <1>1 DEF Return, Ended, Current, At, IInv, TypeOK
<1>2. ASSUME ReadVerified(c) \/ ReadDenied(c) \/ ReadConsumed(c) \/ ReadFailed(c),
             ~\E answer \in Replies : Return(c, answer)
      PROVE  Current(c)'
  <2>1. record' = record /\ call \in [Callers -> Calls]
    BY <1>2 DEF ReadVerified, ReadDenied, ReadConsumed, ReadFailed, IInv, TypeOK
  <2>2. CASE ReadVerified(c)
    BY <1>2, <2>1, <2>2
    DEF ReadVerified, Write, Started, Current, At, Existing, Found, Replies, IInv, SoundFlight
  <2>3. CASE ReadDenied(c)
    BY <1>2, <2>1, <2>3
    DEF ReadDenied, Write, Started, Current, At, Existing, Found, Replies, IInv, SoundFlight
  <2>4. CASE ReadConsumed(c)
    BY <1>2, <2>1, <2>4
    DEF ReadConsumed, Write, Started, Fresh, Current, At, Existing, Found, Replies
  <2>5. CASE ReadFailed(c)
    BY <1>2, <2>1, <2>5
    DEF ReadFailed, Write, Started, Current, At, Existing, Found, Replies, IInv, SoundFlight
  <2> QED
    BY <1>2, <2>2, <2>3, <2>4, <2>5
<1>3. CASE WriteRecord(c) \/ ReadFails(c) \/ WriteFails(c)
  BY <1>1, <1>3 DEF WriteRecord, ReadFails, WriteFails, Replies
<1> QED
  BY <1>1, <1>2, <1>3 DEF Step

LEMMA StepIsAside ==
    ASSUME IInv, Apart, NEW c \in Callers, Step(c)
    PROVE  Aside(c) /\ overlapped' = overlapped /\ call'[c].token \in {call[c].token, None}
<1>1. /\ call \in [Callers -> Calls] /\ record \in [Tokens -> Records \cup {None}]
      /\ At(c, "write") => call[c].token \in Tokens
  BY DEF IInv, TypeOK, SoundFlight, At
<1>2. /\ overlapped' = overlapped
      /\ (\E answer : Return(c, answer)) \/ (\E fresh : Write(c, fresh))
      /\ UNCHANGED record \/ (At(c, "write") /\ PutFresh(c))
  BY DEF Step, ReadVerified, ReadDenied, ReadConsumed, ReadFailed, WriteRecord, ReadFails,
         WriteFails, Return, Write
<1>3. /\ \A b \in Callers \ {c} : call'[b] = call[b]
      /\ call'[c].token \in {call[c].token, None}
  BY <1>1, <1>2 DEF Return, Write, Ended, Started
<1>4. ASSUME NEW b \in Callers \ {c}, call[b].token \in Tokens \ overlapped
      PROVE  record'[call[b].token] = record[call[b].token]
  BY <1>1, <1>2, <1>4, CallbackStoreAssumption DEF Apart, PutFresh
<1> QED
  BY <1>2, <1>3, <1>4 DEF Aside

\* Operations stay apart: one that begins on the token of another is recorded.
LEMMA StaysApart == CurrentInv /\ [Next]_vars => Apart'
<1> SUFFICES ASSUME CurrentInv, [Next]_vars PROVE Apart'
  OBVIOUS
<1>1. IInv /\ Apart /\ call \in [Callers -> Calls]
  BY DEF CurrentInv, IInv, TypeOK
<1>2. CASE UNCHANGED vars
  BY <1>1, <1>2 DEF vars, Apart
<1>3. ASSUME NEW c \in Callers, Start(c) PROVE Apart'
  <2>1. CASE RejectInput(c)
    BY <1>1, <2>1 DEF RejectInput, Return, Ended, Apart
  <2>2. ASSUME NEW t \in Tokens, Reaches(c, t) PROVE Apart'
    <3>1. /\ call'[c].token \in {t, None} /\ \A b \in Callers \ {c} : call'[b] = call[b]
          /\ overlapped' = overlapped \cup ({t} \cap {call[b].token : b \in Callers})
      BY <1>1, <2>2 DEF Reach, Reaches
    <3> QED
      BY <1>1, <3>1 DEF Apart
  <2> QED
    BY <1>3, <2>1, <2>2, StartReaches
<1>4. ASSUME NEW c \in Callers, Step(c) PROVE Apart'
  BY <1>1, <1>4, StepIsAside DEF Aside, Apart
<1> QED
  BY <1>2, <1>3, <1>4 DEF Next

LEMMA CurrentInductive == CurrentInv /\ [Next]_vars => CurrentInv'
<1> SUFFICES ASSUME CurrentInv, [Next]_vars, NEW c \in Callers
             PROVE  call'[c].token \in overlapped' \/ Current(c)'
  BY Inductive, StaysApart DEF CurrentInv
<1>1. CASE UNCHANGED vars
  BY <1>1 DEF vars, CurrentInv, Current, At, Existing, Found
<1>2. ASSUME NEW d \in Callers, Start(d) PROVE call'[c].token \in overlapped' \/ Current(c)'
  BY <1>2, StartIsAside, AsideIsCurrent DEF CurrentInv
<1>3. ASSUME NEW d \in Callers, Step(d) PROVE call'[c].token \in overlapped' \/ Current(c)'
  BY <1>3, StepIsCurrent, StepIsAside, AsideIsCurrent DEF CurrentInv
<1> QED
  BY <1>1, <1>2, <1>3 DEF Next

LEMMA AlwaysCurrent == Spec => []CurrentInv
<1>1. Init => CurrentInv
  BY Initial DEF CurrentInv, Init, Apart, Current, At, Ended
<1> QED
  BY <1>1, CurrentInductive, PTL DEF Spec

\* The only moves of a record: nothing, a deletion, or an arrow of the lifecycle.
Forward(t) ==
    \/ record'[t] = record[t]
    \/ record'[t] = None
    \/ record[t] = None
    \/ record[t].status = "verified" /\ record'[t].status \in {"consumed", "failed"}
    \/ record[t].status \in {"denied", "failed"} /\ record'[t].status \in {"denied", "failed"}

LEMMA StepsForward ==
    ASSUME CurrentInv, [Next]_vars, NEW t \in Tokens \ overlapped'
    PROVE  Forward(t)
<1>0. record \in [Tokens -> Records \cup {None}]
  BY DEF CurrentInv, IInv, TypeOK
<1>1. CASE UNCHANGED record
  BY <1>1 DEF Forward
<1>2. ASSUME NEW u \in Tokens, record' = [record EXCEPT ![u] = None] PROVE Forward(t)
  BY <1>0, <1>2 DEF Forward
<1>3. ASSUME NEW c \in Callers, At(c, "write"), PutFresh(c), UNCHANGED overlapped
      PROVE  Forward(t)
  <2>1. /\ call[c].token \in Tokens /\ call[c].fresh \in Records
        /\ call[c].token = t => Current(c)
    BY <1>3 DEF CurrentInv, IInv, SoundFlight, At
  <2>2. CASE t # call[c].token
    BY <1>0, <1>3, <2>1, <2>2 DEF PutFresh, Forward
  <2>3. CASE t = call[c].token
    <3>1. record'[t] = call[c].fresh /\ Existing(c) = record[t]
      BY <1>0, <1>3, <2>1, <2>3 DEF PutFresh, Existing
    <3>2. \/ record[t] = None
          \/ record[t].status = "failed" /\ call[c].fresh.status = "denied"
          \/ record[t].status = "verified" /\ call[c].fresh.status = "consumed"
          \/ record[t].status # "consumed" /\ call[c].fresh.status = "failed"
      BY <1>3, <2>1, <2>3, <3>1 DEF Current, Found, Records, Statuses
    <3>3. record[t] = None \/ record[t].status \in Statuses
      BY <1>0 DEF Records
    <3> QED
      BY <3>1, <3>2, <3>3 DEF Forward, Statuses
  <2> QED
    BY <2>2, <2>3
<1>4. \/ UNCHANGED record
      \/ \E u \in Tokens : record' = [record EXCEPT ![u] = None]
      \/ \E c \in Callers : At(c, "write") /\ PutFresh(c) /\ UNCHANGED overlapped
  BY DEF Next, vars, Start, Step, RejectInput, Delete, DeleteFails, BeginVerified, BeginDenied,
         BeginConsumed, BeginFailed, Begin, ReadVerified, ReadDenied, ReadConsumed, ReadFailed,
         WriteRecord, ReadFails, WriteFails, Return
<1> QED
  BY <1>1, <1>2, <1>3, <1>4

\* A consumed record is changed by nothing but delete.
THEOREM ConsumptionStands == Spec => ConsumedStands
<1>1. CurrentInv /\ [Next]_vars =>
        [\A t \in Tokens \ overlapped' : record[t] # None /\ record[t].status = "consumed"
            => record'[t] \in {record[t], None}]_record
  BY StepsForward DEF Forward
<1> QED
  BY <1>1, AlwaysCurrent, PTL DEF Spec, ConsumedStands

\* A denied or failed token is not revived.
THEOREM RefusalIsFinal == Spec => RefusalStands
<1>1. CurrentInv /\ [Next]_vars =>
        [\A t \in Tokens \ overlapped' :
            /\ record[t] # None /\ record[t].status \in {"denied", "failed"}
            /\ record'[t] # None
            => record'[t].status \in {"denied", "failed"}]_record
  BY StepsForward DEF Forward
<1> QED
  BY <1>1, AlwaysCurrent, PTL DEF Spec, RefusalStands

\* A verified token is not denied.
THEOREM VerificationStands == Spec => VerifiedIsNotDenied
<1>1. CurrentInv /\ [Next]_vars =>
        [\A t \in Tokens \ overlapped' :
            record[t] # None /\ record[t].status = "verified" /\ record'[t] # None
            => record'[t].status # "denied"]_record
  BY StepsForward DEF Forward
<1> QED
  BY <1>1, AlwaysCurrent, PTL DEF Spec, VerifiedIsNotDenied

-----------------------------------------------------------------------------
(* The adapter state store                                                  *)

\* The store answers for the attempts and cursors that only their own calls wrote, and for the inbound
\* records that the host left alone.
AnswersFor(entry, wrote, over) ==
    \/ entry.kind \in {"attempt", "cursor"} /\ KeyOf(entry) \notin wrote
    \/ entry.kind = "inbound" /\ entry.ref \notin over

\* A record that the store answers for has the only place of its key, an inbound one its own ref.
PlacesAreSound(records, wrote, over) ==
    /\ \A s \in DOMAIN records : records[s].ref \in SafeRefs
    /\ \A s, t \in DOMAIN records :
           AnswersFor(records[s], wrote, over) /\ KeyOf(records[s]) = KeyOf(records[t]) => s = t
    /\ \A s \in DOMAIN records :
           records[s].kind = "inbound" /\ records[s].ref \notin over => s = records[s].ref

\* A key leads to a record that has it, and a record that the store answers for is found.
KeysAreSound(state, wrote, over) ==
    /\ PlacesAreSound(state.records, wrote, over)
    /\ \A k \in DOMAIN state.index :
           state.index[k] \in DOMAIN state.records /\ KeyOf(state.records[state.index[k]]) = k
    /\ \A s \in DOMAIN state.records :
           AnswersFor(state.records[s], wrote, over) => KeyOf(state.records[s]) \in DOMAIN state.index

\* A put of a record that is the only one of its key, if the store answers for it.
LEMMA PutEntryKeeps ==
    ASSUME NEW state, NEW wrote, NEW wrote2, NEW over, NEW over2, NEW s, NEW entry,
           KeysAreSound(state, wrote, over), wrote \subseteq wrote2, over \subseteq over2,
           entry.ref \in SafeRefs,
           entry.kind = "inbound" /\ entry.ref \notin over2 => s = entry.ref,
           \A t \in DOMAIN state.records \ {s} :
               AnswersFor(entry, wrote2, over2) => KeyOf(state.records[t]) # KeyOf(entry)
    PROVE  KeysAreSound(Put(state, s, entry), wrote2, over2)
<1> DEFINE next == Put(state, s, entry)
           gone == {KeyOf(state.records[t]) : t \in {s} \cap DOMAIN state.records}
           added == {KeyOf(entry)} \cap IndexedKeys
<1>1. /\ DOMAIN next.records = DOMAIN state.records \cup {s} /\ next.records[s] = entry
      /\ \A t \in DOMAIN state.records : t # s => next.records[t] = state.records[t]
      /\ DOMAIN next.index = (DOMAIN state.index \ gone) \cup added
      /\ \A k \in DOMAIN next.index : next.index[k] = IF k \in added THEN s ELSE state.index[k]
  BY DEF Put, AddIndexes, RemoveIndexes, Without
<1>2. \A x : AnswersFor(x, wrote2, over2) => AnswersFor(x, wrote, over)
  BY DEF AnswersFor
<1> HIDE DEF next
<1>3. PlacesAreSound(next.records, wrote2, over2)
  <2>1. \A t \in DOMAIN next.records : next.records[t].ref \in SafeRefs
    BY <1>1 DEF KeysAreSound, PlacesAreSound
  <2>2. ASSUME NEW t \in DOMAIN next.records, NEW u \in DOMAIN next.records,
               AnswersFor(next.records[t], wrote2, over2), KeyOf(next.records[t]) = KeyOf(next.records[u])
        PROVE  t = u
    <3>1. CASE t = s
      BY <1>1, <2>2, <3>1
    <3>2. CASE t # s /\ u = s
      <4>1. KeyOf(next.records[t]) = KeyOf(entry) /\ KeyOf(next.records[t]) = KeyOf(state.records[t])
        BY <1>1, <2>2, <3>2
      <4>2. AnswersFor(entry, wrote2, over2)
        BY <1>1, <2>2, <3>2, <4>1 DEF AnswersFor, KeyOf
      <4> QED
        BY <1>1, <3>2, <4>1, <4>2
    <3>3. CASE t # s /\ u # s
      BY <1>1, <1>2, <2>2, <3>3 DEF KeysAreSound, PlacesAreSound
    <3> QED
      BY <3>1, <3>2, <3>3
  <2>3. \A t \in DOMAIN next.records :
            next.records[t].kind = "inbound" /\ next.records[t].ref \notin over2 => t = next.records[t].ref
    BY <1>1 DEF KeysAreSound, PlacesAreSound
  <2> QED
    BY <2>1, <2>2, <2>3 DEF PlacesAreSound
<1>4. ASSUME NEW k \in DOMAIN next.index
      PROVE  next.index[k] \in DOMAIN next.records /\ KeyOf(next.records[next.index[k]]) = k
  <2>1. CASE k \in added
    BY <1>1, <2>1
  <2>2. CASE k \notin added
    <3>1. k \in DOMAIN state.index /\ k \notin gone /\ next.index[k] = state.index[k]
      BY <1>1, <2>2
    <3>2. state.index[k] \in DOMAIN state.records /\ KeyOf(state.records[state.index[k]]) = k
      BY <3>1 DEF KeysAreSound
    <3>3. state.index[k] # s
      BY <3>1, <3>2
    <3> QED
      BY <1>1, <3>1, <3>2, <3>3
  <2> QED
    BY <2>1, <2>2
<1>5. ASSUME NEW t \in DOMAIN next.records, AnswersFor(next.records[t], wrote2, over2)
      PROVE  KeyOf(next.records[t]) \in DOMAIN next.index
  <2>1. CASE t = s
    <3>1. next.records[t] = entry /\ KeyOf(entry) \in IndexedKeys
      BY <1>1, <1>5, <2>1 DEF AnswersFor, KeyOf, IndexedKeys
    <3> QED
      BY <1>1, <3>1
  <2>2. CASE t # s
    <3>1. /\ t \in DOMAIN state.records /\ next.records[t] = state.records[t]
          /\ AnswersFor(state.records[t], wrote, over)
      BY <1>1, <1>2, <1>5, <2>2
    <3>2. KeyOf(state.records[t]) \in DOMAIN state.index /\ KeyOf(state.records[t]) \notin gone
      BY <2>2, <3>1 DEF KeysAreSound, PlacesAreSound
    <3> QED
      BY <1>1, <3>1, <3>2
  <2> QED
    BY <2>1, <2>2
<1> QED
  BY <1>3, <1>4, <1>5 DEF next, KeysAreSound

\* What is moved leaves its old place, and no other record does.
LEMMA MovedKeeps ==
    ASSUME NEW state, NEW wrote, NEW over, NEW s, NEW key, KeysAreSound(state, wrote, over)
    PROVE  /\ KeysAreSound(Moved(state, s, key), wrote, over)
           /\ \A t \in DOMAIN state.records : t = s \/ KeyOf(state.records[t]) # key =>
                  t \in DOMAIN Moved(state, s, key).records
           /\ \A t \in DOMAIN Moved(state, s, key).records :
                  /\ t \in DOMAIN state.records /\ Moved(state, s, key).records[t] = state.records[t]
                  /\ AnswersFor(state.records[t], wrote, over) /\ KeyOf(state.records[t]) = key => t = s
<1> DEFINE next == Moved(state, s, key)
           old == {state.index[k] : k \in {key} \cap DOMAIN state.index} \ {s}
<1>1. /\ DOMAIN next.records = DOMAIN state.records \ old
      /\ \A t \in DOMAIN next.records : next.records[t] = state.records[t]
      /\ DOMAIN next.index = DOMAIN state.index \ (IF old = {} THEN {} ELSE {key})
      /\ \A k \in DOMAIN next.index : next.index[k] = state.index[k]
  BY DEF Moved, Without
<1>2. \A t : t \in old => key \in DOMAIN state.index /\ t = state.index[key] /\ KeyOf(state.records[t]) = key
  BY DEF KeysAreSound
<1> HIDE DEF next
<1>3. \A t \in DOMAIN state.records : t = s \/ KeyOf(state.records[t]) # key => t \in DOMAIN next.records
  BY <1>1, <1>2
<1>4. ASSUME NEW t \in DOMAIN next.records, AnswersFor(state.records[t], wrote, over),
             KeyOf(state.records[t]) = key
      PROVE  t = s
  <2>1. key \in DOMAIN state.index /\ state.index[key] \in DOMAIN state.records
        /\ KeyOf(state.records[state.index[key]]) = key
    BY <1>1, <1>4 DEF KeysAreSound
  <2>2. t = state.index[key]
    BY <1>1, <1>4, <2>1 DEF KeysAreSound, PlacesAreSound
  <2>3. t \notin old
    BY <1>1
  <2> QED
    BY <2>1, <2>2, <2>3
<1>5. PlacesAreSound(next.records, wrote, over)
  BY <1>1 DEF KeysAreSound, PlacesAreSound
<1>6. ASSUME NEW k \in DOMAIN next.index
      PROVE  next.index[k] \in DOMAIN next.records /\ KeyOf(next.records[next.index[k]]) = k
  <2>1. k \in DOMAIN state.index /\ next.index[k] = state.index[k]
    BY <1>1
  <2>2. state.index[k] \in DOMAIN state.records /\ KeyOf(state.records[state.index[k]]) = k
    BY <2>1 DEF KeysAreSound
  <2>3. state.index[k] \notin old
    <3>1. CASE old = {}
      BY <3>1
    <3>2. CASE old # {}
      <4>1. k # key
        BY <1>1, <3>2
      <4> HIDE DEF old
      <4> QED
        BY <1>2, <2>2, <4>1
    <3> QED
      BY <3>1, <3>2
  <2> QED
    BY <1>1, <2>1, <2>2, <2>3
<1>7. ASSUME NEW t \in DOMAIN next.records, AnswersFor(next.records[t], wrote, over)
      PROVE  KeyOf(next.records[t]) \in DOMAIN next.index
  <2>1. t \in DOMAIN state.records /\ next.records[t] = state.records[t] /\ t \notin old
    BY <1>1
  <2>2. KeyOf(state.records[t]) \in DOMAIN state.index
    BY <1>7, <2>1 DEF KeysAreSound
  <2>3. KeyOf(state.records[t]) = key => old = {}
    <3> SUFFICES ASSUME KeyOf(state.records[t]) = key PROVE old = {}
      OBVIOUS
    <3>1. t = s
      BY <1>4, <1>7, <2>1
    <3>2. state.index[key] \in DOMAIN state.records /\ KeyOf(state.records[state.index[key]]) = key
      BY <2>2 DEF KeysAreSound
    <3>3. t = state.index[key]
      BY <1>7, <2>1, <3>2 DEF KeysAreSound, PlacesAreSound
    <3> QED
      BY <3>1, <3>3
  <2> QED
    BY <1>1, <2>1, <2>2, <2>3
<1>8. KeysAreSound(next, wrote, over)
  BY <1>5, <1>6, <1>7 DEF KeysAreSound
<1> QED
  BY <1>1, <1>3, <1>4, <1>8 DEF next

-----------------------------------------------------------------------------
(* What the adapter state store tells                                       *)

IsReserved(records, r) == r \in DOMAIN records /\ records[r].kind = "inbound" /\ records[r].ref = r

\* The effect of a ref was signalled if its record is there, and told to be completed if that says so.
EffectsAreTold ==
    /\ signalled \in [SafeRefs -> Nat] /\ completed \in [SafeRefs -> Nat]
    /\ \A r \in SafeRefs \ overruled :
           /\ IsReserved(adapterState.records, r) =>
                  /\ signalled[r] = 1
                  /\ completed[r] = IF adapterState.records[r].status = "completed" THEN 1 ELSE 0
           /\ ~IsReserved(adapterState.records, r) => signalled[r] = 0 /\ completed[r] = 0
           /\ IsReserved(stateSnapshot, r) => signalled[r] = 1

\* What a status must be for the outcome that is told of a record.
IsSaidTo(outcome, kind, status) ==
    /\ outcome = "first-seen" => status = "reserved"
    /\ outcome = "business-succeeded" => status = "business-succeeded"
    /\ kind = "inbound" /\ outcome = "completed" => status = "completed"

AnswerIsTrue ==
    Len(stateAnswer) = 2 =>
        \E s \in DOMAIN adapterState.records :
            /\ KeyOf(adapterState.records[s]) = stateAnswer[2]
            /\ IsSaidTo(stateAnswer[1], stateAnswer[2][1], adapterState.records[s].status)

AdapterInv ==
    /\ KeysAreSound(adapterState, written, overruled)
    /\ PlacesAreSound(stateSnapshot, written, overruled)
    /\ EffectsAreTold /\ AnswerIsTrue

LEMMA OverruledMore ==
    ASSUME NEW s, NEW entry, Overrules(s, entry)
    PROVE  /\ overruled \subseteq overruled'
           /\ entry.kind = "inbound" => entry.ref \in overruled'
           /\ s \in DOMAIN adapterState.records /\ adapterState.records[s].kind = "inbound" =>
                  adapterState.records[s].ref \in overruled'
  BY DEF Overrules, InboundIn

LEMMA PlacesStand ==
    ASSUME NEW records, NEW wrote, NEW wrote2, NEW over, NEW over2, PlacesAreSound(records, wrote, over),
           wrote \subseteq wrote2, over \subseteq over2
    PROVE  PlacesAreSound(records, wrote2, over2)
<1>1. \A x : AnswersFor(x, wrote2, over2) => AnswersFor(x, wrote, over)
  BY DEF AnswersFor
<1> QED
  BY <1>1 DEF PlacesAreSound

\* A call that tells of no key keeps what was told.
LEMMA NothingTold == ASSUME stateAnswer' = <<"threw">> \/ stateAnswer' = NoAnswer PROVE AnswerIsTrue'
<1>1. Len(stateAnswer') # 2
  BY DEF NoAnswer
<1> QED
  BY <1>1 DEF AnswerIsTrue

\* A call that tells no effect, and that leaves the records of the refs it does not overrule.
LEMMA EffectsStand ==
    ASSUME EffectsAreTold, overruled \subseteq overruled', UNCHANGED <<signalled, completed, stateSnapshot>>,
           \A r \in SafeRefs \ overruled' :
               /\ IsReserved(adapterState.records, r)' <=> IsReserved(adapterState.records, r)
               /\ IsReserved(adapterState.records, r) => adapterState'.records[r] = adapterState.records[r]
    PROVE  EffectsAreTold'
  BY DEF EffectsAreTold, IsReserved

LEMMA PutRecords ==
    ASSUME NEW state, NEW s, NEW entry
    PROVE  /\ DOMAIN Put(state, s, entry).records = DOMAIN state.records \cup {s}
           /\ \A t \in DOMAIN state.records \cup {s} :
                  Put(state, s, entry).records[t] = IF t = s THEN entry ELSE state.records[t]
  BY DEF Put

\* A record that is put where state has let go of no other record than one that is not inbound.
LEMMA OverrulingPut ==
    ASSUME AdapterInv, NEW state, NEW s, NEW entry, KeysAreSound(state, written, overruled),
           DOMAIN state.records \subseteq DOMAIN adapterState.records,
           \A t \in DOMAIN state.records : state.records[t] = adapterState.records[t],
           \A t \in DOMAIN adapterState.records \ {s} :
               adapterState.records[t].kind = "inbound" => t \in DOMAIN state.records,
           Overrules(s, entry), adapterState' = Put(state, s, entry),
           UNCHANGED <<signalled, completed, stateSnapshot>>, written \subseteq written',
           entry.ref \in SafeRefs,
           \A t \in DOMAIN state.records \ {s} :
               AnswersFor(entry, written', overruled') => KeyOf(state.records[t]) # KeyOf(entry)
    PROVE  /\ KeysAreSound(adapterState', written', overruled')
           /\ PlacesAreSound(stateSnapshot', written', overruled')
           /\ EffectsAreTold'
<1>1. /\ overruled \subseteq overruled'
      /\ entry.kind = "inbound" => entry.ref \in overruled'
      /\ s \in DOMAIN adapterState.records /\ adapterState.records[s].kind = "inbound" =>
             adapterState.records[s].ref \in overruled'
  BY OverruledMore
<1>2. KeysAreSound(adapterState', written', overruled')
  BY <1>1, PutEntryKeeps
<1>3. PlacesAreSound(stateSnapshot', written', overruled')
  BY <1>1, PlacesStand DEF AdapterInv
<1>4. /\ DOMAIN adapterState'.records = DOMAIN state.records \cup {s}
      /\ \A t \in DOMAIN state.records \cup {s} :
             adapterState'.records[t] = IF t = s THEN entry ELSE state.records[t]
  BY PutRecords
<1>5. ASSUME NEW r \in SafeRefs \ overruled'
      PROVE  /\ IsReserved(adapterState.records, r)' <=> IsReserved(adapterState.records, r)
             /\ IsReserved(adapterState.records, r) => adapterState'.records[r] = adapterState.records[r]
  <2>1. CASE r = s
    <3>1. ~IsReserved(adapterState.records, r)
      BY <1>1, <1>5, <2>1 DEF IsReserved
    <3>2. ~IsReserved(adapterState.records, r)'
      BY <1>1, <1>4, <1>5, <2>1 DEF IsReserved
    <3> QED
      BY <3>1, <3>2
  <2>2. CASE r # s
    <3>1. r \in DOMAIN state.records => adapterState'.records[r] = adapterState.records[r]
      BY <1>4, <2>2
    <3>2. r \in DOMAIN adapterState'.records <=> r \in DOMAIN state.records
      BY <1>4, <2>2
    <3> QED
      BY <2>2, <3>1, <3>2 DEF IsReserved
  <2> QED
    BY <2>1, <2>2
<1>6. EffectsAreTold'
  BY <1>1, <1>5, EffectsStand DEF AdapterInv
<1> QED
  BY <1>2, <1>3, <1>6

\* A record that was put is what is told of it.
LEMMA PutIsTold ==
    ASSUME NEW state, NEW s, NEW entry, NEW outcome, adapterState' = Put(state, s, entry),
           stateAnswer' = <<outcome, KeyOf(entry)>>, IsSaidTo(outcome, entry.kind, entry.status)
    PROVE  AnswerIsTrue'
<1>1. s \in DOMAIN adapterState'.records /\ adapterState'.records[s] = entry
  BY PutRecords
<1>2. stateAnswer'[1] = outcome /\ stateAnswer'[2] = KeyOf(entry) /\ stateAnswer'[2][1] = entry.kind
  BY DEF KeyOf
<1> QED
  BY <1>1, <1>2 DEF AnswerIsTrue

LEMMA ReserveKeeps == ASSUME AdapterInv, NEW r \in SafeRefs, ReserveInbound(r) PROVE AdapterInv'
<1> DEFINE key == <<"inbound", r>>
           entry == StateRecord("inbound", r, "reserved", {})
<1>1. CASE IsFirstSeen(r)
  <2>1. /\ adapterState' = Put(adapterState, r, entry)
        /\ signalled' = [signalled EXCEPT ![r] = @ + 1]
        /\ stateAnswer' = <<"first-seen", key>>
        /\ UNCHANGED <<stateSnapshot, completed, overruled, written>>
    BY <1>1 DEF ReserveInbound
  <2>2. entry.kind = "inbound" /\ entry.ref = r /\ entry.status = "reserved" /\ KeyOf(entry) = key
    BY DEF StateRecord, KeyOf
  <2> HIDE DEF entry
  <2>3. \A t \in DOMAIN adapterState.records \ {r} :
            AnswersFor(entry, written, overruled) => KeyOf(adapterState.records[t]) # KeyOf(entry)
    BY <2>2 DEF AdapterInv, KeysAreSound, PlacesAreSound, AnswersFor, KeyOf
  <2>4. KeysAreSound(adapterState', written', overruled')
    BY <2>1, <2>2, <2>3, PutEntryKeeps DEF AdapterInv
  <2>5. r \notin overruled => ~IsReserved(adapterState.records, r)
    BY <1>1 DEF AdapterInv, KeysAreSound, AnswersFor, IsReserved, IsFirstSeen, KeyOf
  <2>6. /\ DOMAIN adapterState'.records = DOMAIN adapterState.records \cup {r}
        /\ \A t \in DOMAIN adapterState.records \cup {r} :
               adapterState'.records[t] = IF t = r THEN entry ELSE adapterState.records[t]
    BY <2>1, PutRecords
  <2>7. EffectsAreTold'
    <3>1. signalled' \in [SafeRefs -> Nat] /\ completed' \in [SafeRefs -> Nat]
      BY <2>1 DEF AdapterInv, EffectsAreTold
    <3>2. r \notin overruled => signalled'[r] = 1 /\ completed'[r] = 0
      BY <2>1, <2>5 DEF AdapterInv, EffectsAreTold
    <3>3. \A q \in SafeRefs : q # r => signalled'[q] = signalled[q]
      BY <2>1 DEF AdapterInv, EffectsAreTold
    <3>4. IsReserved(adapterState'.records, r) /\ adapterState'.records[r].status = "reserved"
      BY <2>2, <2>6 DEF IsReserved
    <3>5. \A q \in SafeRefs : q # r =>
              /\ IsReserved(adapterState'.records, q) <=> IsReserved(adapterState.records, q)
              /\ IsReserved(adapterState.records, q) => adapterState'.records[q] = adapterState.records[q]
      BY <2>6 DEF IsReserved
    <3>6. ASSUME NEW q \in SafeRefs \ overruled
          PROVE  /\ IsReserved(adapterState'.records, q) =>
                      /\ signalled'[q] = 1
                      /\ completed'[q] = IF adapterState'.records[q].status = "completed" THEN 1 ELSE 0
                 /\ ~IsReserved(adapterState'.records, q) => signalled'[q] = 0 /\ completed'[q] = 0
                 /\ IsReserved(stateSnapshot', q) => signalled'[q] = 1
      <4>1. CASE q = r
        BY <3>2, <3>4, <3>6, <4>1
      <4>2. CASE q # r
        BY <2>1, <3>3, <3>5, <3>6, <4>2 DEF AdapterInv, EffectsAreTold
      <4> QED
        BY <4>1, <4>2
    <3> QED
      BY <2>1, <3>1, <3>6 DEF EffectsAreTold, IsReserved
  <2>8. AnswerIsTrue'
    BY <2>1, <2>2, PutIsTold DEF IsSaidTo
  <2> QED
    BY <2>1, <2>4, <2>7, <2>8 DEF AdapterInv, KeysAreSound, PlacesAreSound
<1>2. CASE ~IsFirstSeen(r)
  <2>1. /\ stateAnswer' = <<"duplicate-suppressed", key>>
        /\ UNCHANGED <<adapterState, stateSnapshot, signalled, completed, overruled, written>>
    BY <1>2 DEF ReserveInbound
  <2>2. key \in DOMAIN adapterState.index
    BY <1>2 DEF IsFirstSeen
  <2>3. AnswerIsTrue'
    BY <2>1, <2>2 DEF AdapterInv, KeysAreSound, AnswerIsTrue, IsSaidTo
  <2> QED
    BY <2>1, <2>3 DEF AdapterInv, KeysAreSound, PlacesAreSound, EffectsAreTold
<1> QED
  BY <1>1, <1>2

-----------------------------------------------------------------------------
(* Completing and moving                                                    *)

LEMMA CompleteKeeps == ASSUME AdapterInv, NEW r \in SafeRefs, CompleteInbound(r) PROVE AdapterInv'
<1> DEFINE key == <<"inbound", r>>
           s == adapterState.index[key]
           standing == adapterState.records[s]
           entry == StateRecord("inbound", r, "completed", standing.facts)
<1>1. CASE IsFirstSeen(r)
  <2>1. /\ stateAnswer' = <<"threw">>
        /\ UNCHANGED <<adapterState, stateSnapshot, signalled, completed, overruled, written>>
    BY <1>1 DEF CompleteInbound
  <2> QED
    BY <2>1, NothingTold DEF AdapterInv, KeysAreSound, PlacesAreSound, EffectsAreTold
<1>2. CASE ~IsFirstSeen(r)
  <2>1. /\ s \in DOMAIN adapterState.records /\ KeyOf(standing) = key
        /\ standing.kind = "inbound" /\ standing.ref = r
        /\ r \notin overruled => s = r
    BY <1>2 DEF IsFirstSeen, AdapterInv, KeysAreSound, PlacesAreSound, KeyOf
  <2>2. CASE standing.status # "completed"
    <3>1. /\ adapterState' = Put(adapterState, s, entry)
          /\ completed' = [completed EXCEPT ![r] = @ + 1]
          /\ stateAnswer' = <<"completed", key>>
          /\ UNCHANGED <<stateSnapshot, signalled, overruled, written>>
      BY <1>2, <2>2 DEF CompleteInbound
    <3>2. entry.kind = "inbound" /\ entry.ref = r /\ entry.status = "completed" /\ KeyOf(entry) = key
      BY DEF StateRecord, KeyOf
    <3> HIDE DEF entry, s
    <3>3. \A t \in DOMAIN adapterState.records \ {s} :
              AnswersFor(entry, written, overruled) => KeyOf(adapterState.records[t]) # KeyOf(entry)
      BY <2>1, <3>2 DEF AdapterInv, KeysAreSound, PlacesAreSound, AnswersFor
    <3>4. KeysAreSound(adapterState', written', overruled')
      BY <2>1, <3>1, <3>2, <3>3, PutEntryKeeps DEF AdapterInv
    <3>5. /\ DOMAIN adapterState'.records = DOMAIN adapterState.records \cup {s}
          /\ \A t \in DOMAIN adapterState.records \cup {s} :
                 adapterState'.records[t] = IF t = s THEN entry ELSE adapterState.records[t]
      BY <3>1, PutRecords
    <3>6. EffectsAreTold'
      <4>1. signalled' \in [SafeRefs -> Nat] /\ completed' \in [SafeRefs -> Nat]
        BY <3>1 DEF AdapterInv, EffectsAreTold
      <4>2. r \notin overruled => IsReserved(adapterState.records, r) /\ signalled[r] = 1 /\ completed[r] = 0
        BY <2>1, <2>2 DEF AdapterInv, EffectsAreTold, IsReserved
      <4>3. r \notin overruled =>
                IsReserved(adapterState'.records, r) /\ adapterState'.records[r].status = "completed"
        BY <2>1, <3>2, <3>5 DEF IsReserved
      <4>4. r \notin overruled => completed'[r] = 1
        BY <3>1, <4>2 DEF AdapterInv, EffectsAreTold
      <4>5. \A q \in SafeRefs : q # r => completed'[q] = completed[q]
        BY <3>1 DEF AdapterInv, EffectsAreTold
      <4>6. \A q \in SafeRefs \ overruled : q # r =>
                /\ IsReserved(adapterState'.records, q) <=> IsReserved(adapterState.records, q)
                /\ IsReserved(adapterState.records, q) => adapterState'.records[q] = adapterState.records[q]
        BY <2>1, <3>2, <3>5 DEF IsReserved
      <4>7. ASSUME NEW q \in SafeRefs \ overruled
            PROVE  /\ IsReserved(adapterState'.records, q) =>
                        /\ signalled'[q] = 1
                        /\ completed'[q] = IF adapterState'.records[q].status = "completed" THEN 1 ELSE 0
                   /\ ~IsReserved(adapterState'.records, q) => signalled'[q] = 0 /\ completed'[q] = 0
                   /\ IsReserved(stateSnapshot', q) => signalled'[q] = 1
        <5>1. CASE q = r
          BY <3>1, <4>2, <4>3, <4>4, <4>7, <5>1
        <5>2. CASE q # r
          BY <3>1, <4>5, <4>6, <4>7, <5>2 DEF AdapterInv, EffectsAreTold
        <5> QED
          BY <5>1, <5>2
      <4> QED
        BY <3>1, <4>1, <4>7 DEF EffectsAreTold, IsReserved
    <3>7. AnswerIsTrue'
      BY <3>1, <3>2, PutIsTold DEF IsSaidTo
    <3> QED
      BY <3>1, <3>4, <3>6, <3>7 DEF AdapterInv, KeysAreSound, PlacesAreSound
  <2>3. CASE standing.status = "completed"
    <3>1. /\ stateAnswer' = <<"duplicate-suppressed", key>>
          /\ UNCHANGED <<adapterState, stateSnapshot, signalled, completed, overruled, written>>
      BY <1>2, <2>3 DEF CompleteInbound
    <3>2. AnswerIsTrue'
      BY <2>1, <3>1 DEF AnswerIsTrue, IsSaidTo
    <3> QED
      BY <3>1, <3>2 DEF AdapterInv, KeysAreSound, PlacesAreSound, EffectsAreTold
  <2> QED
    BY <2>2, <2>3
<1> QED
  BY <1>1, <1>2

\* A record of an attempt or a cursor leaves its old place, then it is put or one of its values is refused.
LEMMA MoveKeeps ==
    ASSUME AdapterInv, NEW s, NEW entry, entry.kind \in {"attempt", "cursor"}, entry.ref \in SafeRefs,
           \/ adapterState' = Put(Moved(adapterState, s, KeyOf(entry)), s, entry) /\ Overrules(s, entry)
           \/ adapterState' = Moved(adapterState, s, KeyOf(entry)) /\ UNCHANGED overruled,
           UNCHANGED <<stateSnapshot, signalled, completed, written>>
    PROVE  /\ KeysAreSound(adapterState', written', overruled')
           /\ PlacesAreSound(stateSnapshot', written', overruled')
           /\ EffectsAreTold'
<1> DEFINE moved == Moved(adapterState, s, KeyOf(entry))
<1>1. /\ KeysAreSound(moved, written, overruled)
      /\ \A t \in DOMAIN adapterState.records : t = s \/ KeyOf(adapterState.records[t]) # KeyOf(entry) =>
             t \in DOMAIN moved.records
      /\ \A t \in DOMAIN moved.records :
             /\ t \in DOMAIN adapterState.records /\ moved.records[t] = adapterState.records[t]
             /\ AnswersFor(adapterState.records[t], written, overruled)
                    /\ KeyOf(adapterState.records[t]) = KeyOf(entry) => t = s
  BY MovedKeeps DEF AdapterInv
<1> HIDE DEF moved
<1>2. \A t \in DOMAIN adapterState.records :
          adapterState.records[t].kind = "inbound" => t \in DOMAIN moved.records
  BY <1>1 DEF KeyOf
<1>3. CASE adapterState' = Put(moved, s, entry) /\ Overrules(s, entry)
  <2>1. \A t \in DOMAIN moved.records \ {s} :
            AnswersFor(entry, written', overruled') => KeyOf(moved.records[t]) # KeyOf(entry)
    BY <1>1 DEF AnswersFor, KeyOf
  <2> QED
    BY <1>1, <1>2, <1>3, <2>1, OverrulingPut
<1>4. CASE adapterState' = moved /\ UNCHANGED overruled
  <2>1. \A r \in SafeRefs \ overruled' :
            /\ IsReserved(adapterState.records, r)' <=> IsReserved(adapterState.records, r)
            /\ IsReserved(adapterState.records, r) => adapterState'.records[r] = adapterState.records[r]
    BY <1>1, <1>2, <1>4 DEF IsReserved
  <2>2. EffectsAreTold'
    BY <1>4, <2>1, EffectsStand DEF AdapterInv
  <2> QED
    BY <1>1, <1>4, <2>2 DEF AdapterInv
<1> QED
  BY <1>3, <1>4 DEF moved

LEMMA UpsertKeeps ==
    ASSUME AdapterInv, NEW kind \in {"attempt", "cursor"}, NEW r \in SafeRefs, NEW entry, NEW outcome,
           entry.kind = kind, entry.ref = r, IsSaidTo(outcome, kind, entry.status),
           Upsert(kind, r, entry, outcome)
    PROVE  AdapterInv'
<1>1. KeyOf(entry) = <<kind, r>>
  BY DEF KeyOf
<1>2. /\ \/ adapterState' = Put(Moved(adapterState, r, KeyOf(entry)), r, entry) /\ Overrules(r, entry)
         \/ adapterState' = Moved(adapterState, r, KeyOf(entry)) /\ UNCHANGED overruled
      /\ UNCHANGED <<stateSnapshot, signalled, completed, written>>
  BY <1>1 DEF Upsert
<1>3. AnswerIsTrue'
  <2>1. CASE stateAnswer' = <<"threw">>
    BY <2>1, NothingTold
  <2>2. CASE stateAnswer' # <<"threw">>
    <3>1. /\ adapterState' = Put(Moved(adapterState, r, <<kind, r>>), r, entry)
          /\ stateAnswer' = <<outcome, KeyOf(entry)>>
      BY <1>1, <2>2 DEF Upsert
    <3> QED
      BY <3>1, PutIsTold
  <2> QED
    BY <2>1, <2>2
<1> QED
  BY <1>2, <1>3, MoveKeeps DEF AdapterInv

-----------------------------------------------------------------------------
(* The other calls of the adapter state store                               *)

LEMMA CursorOutcomeIsNoEffect ==
    ASSUME NEW input \in CursorInputs, NEW r
    PROVE  LET entry == StateRecord("cursor", r, CursorStatus(input), {input.mode})
           IN IsSaidTo(CursorOutcome(entry), "cursor", entry.status)
<1> DEFINE entry == StateRecord("cursor", r, CursorStatus(input), {input.mode})
<1>1. (CHOOSE m \in entry.facts : TRUE) = input.mode
  BY DEF StateRecord
<1>2. input.mode \in ReplayModes
  BY DEF CursorInputs
<1>3. CursorOutcome(entry) \notin {"first-seen", "business-succeeded"}
  BY <1>1, <1>2 DEF CursorOutcome, ReplayModes
<1> QED
  BY <1>3 DEF IsSaidTo

LEMMA AttemptOutcomeIsTrue ==
    ASSUME NEW input \in AttemptInputs, NEW r
    PROVE  LET entry == StateRecord("attempt", r, AttemptStatus(input), input \ {"gated"})
           IN IsSaidTo(AttemptOutcome(entry), "attempt", entry.status)
<1> DEFINE entry == StateRecord("attempt", r, AttemptStatus(input), input \ {"gated"})
<1>1. CASE "gated" \in input
  <2>1. entry.status = "blocked"
    BY <1>1 DEF StateRecord, AttemptStatus
  <2>2. AttemptOutcome(entry) = "blocked"
    BY <2>1 DEF AttemptOutcome
  <2> QED
    BY <2>2 DEF IsSaidTo
<1>2. CASE "gated" \notin input /\ "succeeded" \in input
  <2>1. entry.status = "business-succeeded" /\ "succeeded" \in entry.facts
    BY <1>2 DEF StateRecord, AttemptStatus
  <2>2. AttemptOutcome(entry) = "business-succeeded"
    BY <2>1 DEF AttemptOutcome
  <2> QED
    BY <2>1, <2>2 DEF IsSaidTo
<1>3. CASE input = {"acknowledged"}
  <2>1. entry.status = "acknowledgement-only" /\ entry.facts = {"acknowledged"}
    BY <1>3 DEF StateRecord, AttemptStatus
  <2>2. AttemptOutcome(entry) = "acknowledgement-only"
    BY <2>1 DEF AttemptOutcome
  <2> QED
    BY <2>2 DEF IsSaidTo
<1>4. CASE input = {}
  <2>1. entry.status = "failed-safe" /\ entry.facts = {}
    BY <1>4 DEF StateRecord, AttemptStatus
  <2>2. AttemptOutcome(entry) = "failed-safe"
    BY <2>1 DEF AttemptOutcome
  <2> QED
    BY <2>2 DEF IsSaidTo
<1> QED
  BY <1>1, <1>2, <1>3, <1>4 DEF AttemptInputs

LEMMA DecideKeeps ==
    ASSUME AdapterInv, NEW r \in SafeRefs, NEW input \in DecisionInputs, DecideCallbackConsume(r, input)
    PROVE  AdapterInv'
<1> DEFINE status == ConsumeStatus(input)
           outcome == IF status = "consumed" THEN "completed" ELSE status
<1>1. PICK entry :
          /\ entry.kind = "decision" /\ entry.ref = r /\ KeyOf(entry) = <<"decision", r>>
          /\ adapterState' = Put(adapterState, r, entry) /\ Overrules(r, entry)
          /\ stateAnswer' = <<outcome, <<"decision", r>>>>
          /\ UNCHANGED <<stateSnapshot, signalled, completed, written>>
  BY DEF DecideCallbackConsume, StateRecord, KeyOf
<1>2. status \in {"blocked", "duplicate-suppressed", "consumed"}
  BY DEF ConsumeStatus, DecisionInputs
<1>3. IsSaidTo(outcome, entry.kind, entry.status)
  BY <1>1, <1>2 DEF IsSaidTo
<1> HIDE DEF outcome
<1>4. ~AnswersFor(entry, written', overruled')
  BY <1>1 DEF AnswersFor
<1>5. /\ KeysAreSound(adapterState', written', overruled')
      /\ PlacesAreSound(stateSnapshot', written', overruled')
      /\ EffectsAreTold'
  BY <1>1, <1>4, OverrulingPut DEF AdapterInv
<1>6. AnswerIsTrue'
  BY <1>1, <1>3, PutIsTold
<1> QED
  BY <1>5, <1>6 DEF AdapterInv

LEMMA PutRecordKeeps ==
    ASSUME AdapterInv, NEW s, NEW entry, entry.ref \in SafeRefs, PutRecord(s, entry) PROVE AdapterInv'
<1>1. /\ adapterState' = Put(adapterState, s, entry) /\ Overrules(s, entry)
      /\ written' = written \cup {KeyOf(entry)} /\ stateAnswer' = NoAnswer
      /\ UNCHANGED <<stateSnapshot, signalled, completed>>
  BY DEF PutRecord
<1>2. ~AnswersFor(entry, written', overruled')
  BY <1>1, OverruledMore DEF AnswersFor
<1>3. /\ KeysAreSound(adapterState', written', overruled')
      /\ PlacesAreSound(stateSnapshot', written', overruled')
      /\ EffectsAreTold'
  BY <1>1, <1>2, OverrulingPut DEF AdapterInv
<1> QED
  BY <1>1, <1>3, NothingTold DEF AdapterInv

LEMMA MoveRecordKeeps ==
    ASSUME AdapterInv, NEW s, NEW entry, entry.ref \in SafeRefs, NEW flaws, MoveRecord(s, entry, flaws)
    PROVE  AdapterInv'
<1>1. /\ entry.kind \in {"attempt", "cursor"}
      /\ \/ adapterState' = Put(Moved(adapterState, s, KeyOf(entry)), s, entry) /\ Overrules(s, entry)
         \/ adapterState' = Moved(adapterState, s, KeyOf(entry)) /\ UNCHANGED overruled
      /\ UNCHANGED <<stateSnapshot, signalled, completed, written>>
  BY DEF MoveRecord
<1>2. AnswerIsTrue'
  BY NothingTold DEF MoveRecord
<1> QED
  BY <1>1, <1>2, MoveKeeps DEF AdapterInv

LEMMA SnapshotKeeps == ASSUME AdapterInv, PublicSnapshot PROVE AdapterInv'
<1>1. /\ stateSnapshot' = adapterState.records /\ stateAnswer' = NoAnswer
      /\ UNCHANGED <<adapterState, signalled, completed, overruled, written>>
  BY DEF PublicSnapshot
<1>2. EffectsAreTold'
  BY <1>1 DEF AdapterInv, EffectsAreTold, IsReserved
<1>3. KeysAreSound(adapterState', written', overruled') /\ PlacesAreSound(stateSnapshot', written', overruled')
  BY <1>1 DEF AdapterInv, KeysAreSound
<1> QED
  BY <1>1, <1>2, <1>3, NothingTold DEF AdapterInv

LEMMA RestartKeeps == ASSUME AdapterInv, Restart PROVE AdapterInv'
<1> DEFINE keys == {KeyOf(stateSnapshot[s]) : s \in DOMAIN stateSnapshot} \cap IndexedKeys
<1>1. /\ adapterState'.records = stateSnapshot
      /\ adapterState'.index \in [keys -> DOMAIN stateSnapshot]
      /\ \A k \in keys : KeyOf(stateSnapshot[adapterState'.index[k]]) = k
      /\ stateAnswer' = NoAnswer
      /\ UNCHANGED <<stateSnapshot, signalled, completed, written>>
  BY DEF Restart, Reloaded
<1>2. /\ overruled \subseteq overruled'
      /\ \A r \in SafeRefs \ overruled' : \A s \in DOMAIN adapterState.records :
             adapterState.records[s].kind = "inbound" /\ adapterState.records[s].ref = r =>
                 \E t \in DOMAIN stateSnapshot : stateSnapshot[t] = adapterState.records[s]
  BY DEF Restart
<1>3. PlacesAreSound(stateSnapshot, written, overruled')
  BY <1>2, PlacesStand DEF AdapterInv
<1>4. KeysAreSound(adapterState', written, overruled')
  <2>1. \A k \in DOMAIN adapterState'.index :
            /\ adapterState'.index[k] \in DOMAIN adapterState'.records
            /\ KeyOf(adapterState'.records[adapterState'.index[k]]) = k
    BY <1>1
  <2>2. ASSUME NEW s \in DOMAIN stateSnapshot, AnswersFor(stateSnapshot[s], written, overruled')
        PROVE  KeyOf(stateSnapshot[s]) \in keys
    BY <1>3, <2>2 DEF PlacesAreSound, AnswersFor, KeyOf, IndexedKeys
  <2>3. DOMAIN adapterState'.index = keys
    BY <1>1
  <2> HIDE DEF keys
  <2>4. \A s \in DOMAIN adapterState'.records :
            AnswersFor(adapterState'.records[s], written, overruled') =>
                KeyOf(adapterState'.records[s]) \in DOMAIN adapterState'.index
    BY <1>1, <2>2, <2>3
  <2>5. PlacesAreSound(adapterState'.records, written, overruled')
    BY <1>1, <1>3
  <2> QED
    BY <2>1, <2>4, <2>5 DEF KeysAreSound
<1>5. ASSUME NEW r \in SafeRefs \ overruled'
      PROVE  /\ IsReserved(adapterState.records, r)' <=> IsReserved(adapterState.records, r)
             /\ IsReserved(adapterState.records, r) => adapterState'.records[r] = adapterState.records[r]
  <2>1. CASE IsReserved(adapterState.records, r)
    <3>1. PICK t \in DOMAIN stateSnapshot : stateSnapshot[t] = adapterState.records[r]
      BY <1>2, <1>5, <2>1 DEF IsReserved
    <3>2. t = r
      BY <1>3, <1>5, <2>1, <3>1 DEF PlacesAreSound, IsReserved
    <3>3. IsReserved(stateSnapshot, r) /\ stateSnapshot[r] = adapterState.records[r]
      BY <2>1, <3>1, <3>2 DEF IsReserved
    <3> QED
      BY <1>1, <2>1, <3>3 DEF IsReserved
  <2>2. CASE ~IsReserved(adapterState.records, r)
    <3>1. ~IsReserved(stateSnapshot, r)
      BY <1>2, <1>5, <2>2 DEF AdapterInv, EffectsAreTold
    <3> QED
      BY <1>1, <2>2, <3>1 DEF IsReserved
  <2> QED
    BY <2>1, <2>2
<1>6. EffectsAreTold'
  BY <1>1, <1>2, <1>5, EffectsStand DEF AdapterInv
<1>7. KeysAreSound(adapterState', written', overruled') /\ PlacesAreSound(stateSnapshot', written', overruled')
  BY <1>1, <1>3, <1>4
<1> QED
  BY <1>1, <1>6, <1>7, NothingTold DEF AdapterInv

LEMMA AdapterInductive == AdapterInv /\ [AdapterNext(StateKinds)]_adapterVars => AdapterInv'
<1> SUFFICES ASSUME AdapterInv, [AdapterNext(StateKinds)]_adapterVars PROVE AdapterInv'
  OBVIOUS
<1>1. ASSUME NEW r \in SafeRefs, ReserveInbound(r) \/ CompleteInbound(r) PROVE AdapterInv'
  BY <1>1, ReserveKeeps, CompleteKeeps
<1>2. ASSUME NEW r \in SafeRefs, NEW input \in CursorInputs, AdvanceReplayCursor(r, input) PROVE AdapterInv'
  <2> DEFINE entry == StateRecord("cursor", r, CursorStatus(input), {input.mode})
  <2>1. Upsert("cursor", r, entry, CursorOutcome(entry))
    BY <1>2 DEF AdvanceReplayCursor
  <2>2. entry.kind = "cursor" /\ entry.ref = r
    BY DEF StateRecord
  <2>3. IsSaidTo(CursorOutcome(entry), "cursor", entry.status)
    BY CursorOutcomeIsNoEffect
  <2> HIDE DEF entry
  <2> QED
    BY <2>1, <2>2, <2>3, UpsertKeeps
<1>3. ASSUME NEW r \in SafeRefs, NEW input \in AttemptInputs, RecordAttemptOutcome(r, input) PROVE AdapterInv'
  <2> DEFINE entry == StateRecord("attempt", r, AttemptStatus(input), input \ {"gated"})
  <2>1. Upsert("attempt", r, entry, AttemptOutcome(entry))
    BY <1>3 DEF RecordAttemptOutcome
  <2>2. entry.kind = "attempt" /\ entry.ref = r
    BY DEF StateRecord
  <2>3. IsSaidTo(AttemptOutcome(entry), "attempt", entry.status)
    BY AttemptOutcomeIsTrue
  <2> HIDE DEF entry
  <2> QED
    BY <2>1, <2>2, <2>3, UpsertKeeps
<1>4. ASSUME NEW r \in SafeRefs, NEW input \in DecisionInputs, DecideCallbackConsume(r, input) PROVE AdapterInv'
  BY <1>4, DecideKeeps
<1>5. ASSUME NEW s \in SafeRefs, NEW entry \in HostRecords, NEW flaws,
             PutRecord(s, entry) \/ MoveRecord(s, entry, flaws)
      PROVE  AdapterInv'
  BY <1>5, AdapterStateAssumption, PutRecordKeeps, MoveRecordKeeps
<1>6. ASSUME NEW flaws, RefuseRecord(flaws) PROVE AdapterInv'
  <2>1. /\ stateAnswer' = <<"threw">>
        /\ UNCHANGED <<adapterState, stateSnapshot, signalled, completed, overruled, written>>
    BY <1>6 DEF RefuseRecord
  <2> QED
    BY <2>1, NothingTold DEF AdapterInv, KeysAreSound, PlacesAreSound, EffectsAreTold
<1>7. ASSUME PublicSnapshot \/ Restart PROVE AdapterInv'
  BY <1>7, SnapshotKeeps, RestartKeeps
<1>8. ASSUME UNCHANGED adapterVars PROVE AdapterInv'
  BY <1>8 DEF adapterVars, AdapterInv, KeysAreSound, PlacesAreSound, EffectsAreTold, AnswerIsTrue
<1> QED
  BY <1>1, <1>2, <1>3, <1>4, <1>5, <1>6, <1>7, <1>8 DEF AdapterNext

LEMMA AlwaysAdapter == AdapterSpec => []AdapterInv
<1>1. AdapterInit => AdapterInv
  BY DEF AdapterInit, NoRecords, NoAnswer, AdapterInv, KeysAreSound, PlacesAreSound, EffectsAreTold,
         AnswerIsTrue, IsReserved
<1> QED
  BY <1>1, AdapterInductive, PTL DEF AdapterSpec

\* For any refs and host records, through every write, move and restart: the effect of an
\* inbound event is signalled once, and told to be completed once, unless the host itself
\* took its record away (fake-inert-adapter-state-store-port.ts:289-407).
THEOREM EffectsOnce == AdapterSpec => []EffectsAreSignalledOnce
<1>1. ASSUME AdapterInv, NEW r \in SafeRefs \ overruled PROVE signalled[r] <= 1 /\ completed[r] <= 1
  <2>1. signalled[r] \in {0, 1} /\ completed[r] \in {0, 1}
    BY <1>1 DEF AdapterInv, EffectsAreTold
  <2> QED
    BY <2>1
<1>2. AdapterInv => EffectsAreSignalledOnce
  BY <1>1 DEF EffectsAreSignalledOnce
<1> QED
  BY <1>2, AlwaysAdapter, PTL

\* For any refs and host records: a key leads to a record that has it, an attempt or cursor
\* that only its own call wrote has one record, and what the boundary told of a key is what
\* its record says (fake-inert-adapter-state-store-port.ts:226-287,409-447,
\* fake-inert-replay-idempotency-state-boundary.ts:257-380).
THEOREM IndexIsSound == AdapterSpec => []StateIndexIsSound
<1>1. ASSUME AdapterInv PROVE StateIndexIsSound
  <2> DEFINE records == adapterState.records
             index == adapterState.index
             About(key) == {s \in DOMAIN records : KeyOf(records[s]) = key}
  <2>1. \A key \in DOMAIN index : index[key] \in About(key)
    BY <1>1 DEF AdapterInv, KeysAreSound
  <2>2. ASSUME NEW s \in DOMAIN records, records[s].kind \in {"attempt", "cursor"},
               KeyOf(records[s]) \notin written
        PROVE  About(KeyOf(records[s])) = {s} /\ KeyOf(records[s]) \in DOMAIN index
    <3>1. AnswersFor(records[s], written, overruled)
      BY <2>2 DEF AnswersFor
    <3> QED
      BY <1>1, <3>1 DEF AdapterInv, KeysAreSound, PlacesAreSound
  <2>3. Len(stateAnswer) = 2 =>
            \E s \in About(stateAnswer[2]) : IsSaidTo(stateAnswer[1], stateAnswer[2][1], records[s].status)
    BY <1>1 DEF AdapterInv, AnswerIsTrue
  <2> QED
    BY <2>1, <2>2, <2>3 DEF StateIndexIsSound, IsSaidTo
<1> QED
  BY <1>1, AlwaysAdapter, PTL
=============================================================================

---------------------- MODULE DeliveryAttemptStoreProofs ----------------------
(***************************************************************************)
(* Proofs about DeliveryAttemptStore, for any number of attempt refs,       *)
(* deliveries, keys, calls in flight and lost calls: types, that a delivery *)
(* is handed out once and never forgotten, and that an attempt says what is *)
(* in evidence.                                                             *)
(***************************************************************************)
EXTENDS DeliveryAttemptStore, TLAPS

AckPcs == {"ackReadAttempt", "ackReadExisting", "ackWrite", "ackWriteAttempt"}
BizPcs == {"bizReadAttempt", "bizReadExisting", "bizWrite", "bizWriteAttempt"}

\* What a call in flight has; whoever is to execute a delivery has its key.
SoundCall(x) ==
    /\ x.pc # "idle" => /\ x.ref \in AttemptRefs /\ x.delivery \in DeliveryRefs
                        /\ x.key \in Keys /\ x.reply = "none"
    /\ x.pc \in AckPcs => x.report \in Acks
    /\ x.pc \in BizPcs => x.report \in Results
    /\ x.pc \in {"ackWriteAttempt", "bizWriteAttempt"} => x.attempt \in Attempts
    /\ x.reply = "registered" => x.key \in Keys

\* What the earlier writes of a call have left in the store.
Backed(x) ==
    /\ x.pc = "regWriteIndex" => attempt[x.ref] # None
    /\ x.pc = "ackWriteAttempt" => ack[x.ref] # None
    /\ x.pc = "bizWriteAttempt" => business[x.ref] # None
    /\ x.reply = "registered" => index[x.key] # None

\* The index names attempts that are stored, and has every key that was granted.
IndexIsBacked ==
    \A k \in Keys :
        /\ index[k] # None => attempt[index[k]] # None
        /\ granted[k] > 0 => index[k] # None

\* The inductive invariant of what holds whatever calls overlap.
IInv ==
    /\ TypeOK /\ IndexIsBacked /\ StatusIsEvidenced
    /\ \A c \in Callers : SoundCall(call[c]) /\ Backed(call[c])

-----------------------------------------------------------------------------
(* What one step does                                                       *)

\* The store and its histories keep their shape, and what is stored stays stored.
Grows ==
    /\ attempt' \in [AttemptRefs -> Attempts \cup {None}]
    /\ ack' \in [AttemptRefs -> Acks \cup {None}]
    /\ business' \in [AttemptRefs -> Results \cup {None}]
    /\ index' \in [Keys -> AttemptRefs \cup {None}]
    /\ granted' \in [Keys -> 0..2]
    /\ \A r \in AttemptRefs : /\ attempt[r] # None => attempt'[r] # None
                              /\ ack[r] # None => ack'[r] # None
                              /\ business[r] # None => business'[r] # None
    /\ \A k \in Keys : index[k] # None => index'[k] # None

\* One call moves on, with what it relies on in the store.
Moves(c, x) ==
    /\ x \in Calls /\ SoundCall(x)
    /\ x.pc = "regWriteIndex" => attempt'[x.ref] # None
    /\ x.pc = "ackWriteAttempt" => ack'[x.ref] # None
    /\ x.pc = "bizWriteAttempt" => business'[x.ref] # None
    /\ x.reply = "registered" => index'[x.key] # None
    /\ call' = [call EXCEPT ![c] = x]

LEMMA StoreKept == IInv /\ UNCHANGED <<store, granted>> => Grows
  BY DEF IInv, TypeOK, Grows, store

LEMMA AttemptKeeps ==
    ASSUME IInv, NEW r \in AttemptRefs, NEW new \in Attempts,
           attempt' = [attempt EXCEPT ![r] = new], UNCHANGED <<ack, business, index, granted>>
    PROVE  Grows /\ attempt'[r] # None
  BY AttemptAssumption DEF IInv, TypeOK, Grows

LEMMA MoveKeeps ==
    ASSUME IInv, NEW c \in Callers, NEW x, Moves(c, x), Grows, IndexIsBacked', StatusIsEvidenced',
           overlapped' \subseteq AttemptRefs \cup Keys, abandoned' \in Nat
    PROVE  IInv'
<1>1. call'[c] = x /\ \A b \in Callers \ {c} : call'[b] = call[b]
  BY DEF IInv, TypeOK, Moves
<1>2. TypeOK'
  BY DEF IInv, TypeOK, Grows, Moves
<1>3. ASSUME NEW b \in Callers PROVE SoundCall(call[b])' /\ Backed(call[b])'
  <2>1. CASE b = c
    BY <1>1, <2>1 DEF Moves, SoundCall, Backed
  <2>2. CASE b # c
    BY <1>1, <2>2 DEF IInv, SoundCall, Backed, Grows, AckPcs, BizPcs
  <2> QED
    BY <2>1, <2>2
<1> QED
  BY <1>2, <1>3 DEF IInv

\* A call that writes nothing.
LEMMA QuietKeeps ==
    ASSUME IInv, NEW c \in Callers, NEW x, Moves(c, x), UNCHANGED <<store, granted>>,
           overlapped' \subseteq AttemptRefs \cup Keys, abandoned' \in Nat
    PROVE  IInv'
<1>1. Grows
  BY StoreKept
<1>2. IndexIsBacked' /\ StatusIsEvidenced'
  BY DEF IInv, IndexIsBacked, StatusIsEvidenced, store
<1> QED
  BY <1>1, <1>2, MoveKeeps

LEMMA EndedSound ==
    ASSUME NEW k \in Keys \cup {None}, NEW answer \in Replies, answer = "registered" => k \in Keys
    PROVE  Ended(k, answer) \in Calls /\ SoundCall(Ended(k, answer))
  BY DEF Ended, Calls, Pcs, SoundCall, AckPcs, BizPcs

LEMMA ReturnMoves ==
    ASSUME IInv, NEW c \in Callers, call[c].pc # "idle", NEW answer \in Replies, Return(c, answer),
           answer = "registered" => index'[call[c].key] # None
    PROVE  \E x : Moves(c, x)
<1> DEFINE k == IF answer = "registered" THEN call[c].key ELSE None
<1>1. k \in Keys \cup {None} /\ (answer = "registered" => k \in Keys)
  BY DEF IInv, SoundCall
<1>2. Ended(k, answer) \in Calls /\ SoundCall(Ended(k, answer))
  BY <1>1, EndedSound
<1>3. Moves(c, Ended(k, answer))
  BY <1>2 DEF Moves, Ended, Return
<1> QED
  BY <1>3

\* A call that goes on, with the reads and the reports it has had.
LEMMA GotoMoves ==
    ASSUME IInv, NEW c \in Callers, call[c].pc # "idle",
           NEW p \in Pcs \ {"idle"}, Goto(c, p),
           p \in AckPcs => call[c].pc \in AckPcs, p \in BizPcs => call[c].pc \in BizPcs,
           p \in {"ackWriteAttempt", "bizWriteAttempt"} => call[c].attempt \in Attempts,
           p = "regWriteIndex" => attempt'[call[c].ref] # None,
           p = "ackWriteAttempt" => ack'[call[c].ref] # None,
           p = "bizWriteAttempt" => business'[call[c].ref] # None
    PROVE  \E x : Moves(c, x)
<1> DEFINE x == [call[c] EXCEPT !.pc = p]
<1>1. call[c] \in Calls /\ SoundCall(call[c])
  BY DEF IInv, TypeOK
<1>2. /\ x \in Calls /\ x.pc = p /\ x.ref = call[c].ref /\ x.delivery = call[c].delivery
      /\ x.key = call[c].key /\ x.report = call[c].report /\ x.attempt = call[c].attempt
      /\ x.reply = call[c].reply
  BY <1>1 DEF Calls
<1>3. SoundCall(x)
  BY <1>1, <1>2 DEF SoundCall
<1>4. Moves(c, x)
  BY <1>1, <1>2, <1>3 DEF Moves, Goto, SoundCall
<1> QED
  BY <1>4


-----------------------------------------------------------------------------
(* One lemma per operation                                                  *)

LEMMA Initial == Init => IInv
<1> SUFFICES ASSUME Init PROVE IInv
  OBVIOUS
<1>1. Ended(None, "none") \in Calls /\ SoundCall(Ended(None, "none"))
  BY EndedSound DEF Replies
<1> QED
  BY <1>1, AttemptAssumption
  DEF Init, IInv, TypeOK, IndexIsBacked, StatusIsEvidenced, Backed, Ended

LEMMA StartedMoves ==
    ASSUME IInv, NEW c \in Callers, NEW r \in AttemptRefs, NEW d \in DeliveryRefs, NEW k \in Keys,
           NEW p \in {"regReadAttempt", "ackReadAttempt", "bizReadAttempt"},
           NEW report \in Acks \cup Results \cup {None},
           p = "ackReadAttempt" => report \in Acks, p = "bizReadAttempt" => report \in Results,
           call' = [call EXCEPT ![c] = Started(p, r, d, k, report)], Reach(r, k),
           UNCHANGED <<store, granted, abandoned>>
    PROVE  IInv'
<1>1. Moves(c, Started(p, r, d, k, report))
  BY DEF Moves, Started, Calls, Pcs, Replies, SoundCall, AckPcs, BizPcs
<1>2. overlapped' \subseteq AttemptRefs \cup Keys
  BY DEF Reach, IInv, TypeOK
<1> QED
  BY <1>1, <1>2, QuietKeeps DEF IInv, TypeOK

LEMMA BeginKeeps == ASSUME IInv, NEW c \in Callers, Begin(c) PROVE IInv'
<1>1. CASE RejectInput(c)
  <2>1. Moves(c, Ended(None, "threw"))
    BY <1>1, EndedSound DEF RejectInput, Moves, Ended, Replies
  <2> QED
    BY <1>1, <2>1, QuietKeeps DEF RejectInput, IInv, TypeOK
<1>2. AckReports \subseteq Acks /\ ResultReports \subseteq Results
  BY DEF AckReports, ResultReports, Acks, Results, Retries, Verdicts
<1> QED
  BY <1>1, <1>2, StartedMoves DEF Begin, BeginRegister, BeginAck, BeginResult

\* The reads of a call, and its end.
Quietly(c) ==
    /\ ~At(c, "idle")
    /\ UNCHANGED <<store, granted, overlapped>> /\ abandoned' \in Nat

LEMMA ReturnKeeps ==
    ASSUME IInv, NEW c \in Callers, Quietly(c), NEW answer \in Replies \ {"registered"},
           Return(c, answer)
    PROVE  IInv'
<1>1. \E x : Moves(c, x)
  BY ReturnMoves DEF Quietly, At
<1> QED
  BY <1>1, QuietKeeps DEF Quietly, IInv, TypeOK

LEMMA RegisterKeeps == ASSUME IInv, NEW c \in Callers, RegisterStep(c) PROVE IInv'
<1> DEFINE r == call[c].ref
           k == call[c].key
<1>1. /\ abandoned \in Nat /\ overlapped \subseteq AttemptRefs \cup Keys
      /\ index \in [Keys -> AttemptRefs \cup {None}] /\ granted \in [Keys -> 0..2]
      /\ call[c] \in Calls /\ SoundCall(call[c]) /\ Backed(call[c])
  BY DEF IInv, TypeOK
<1>2. At(c, "idle") \/ (r \in AttemptRefs /\ call[c].delivery \in DeliveryRefs /\ k \in Keys)
  BY <1>1 DEF At, SoundCall
<1>3. CASE RegReadAttempt(c)
  <2>1. Quietly(c)
    BY <1>1, <1>3 DEF RegReadAttempt, Quietly, At
  <2>2. CASE \E answer \in {"threw", "duplicate"} : Return(c, answer)
    BY <2>1, <2>2, ReturnKeeps DEF Replies
  <2>3. CASE Goto(c, "regReadIndex")
    <3>1. \E x : Moves(c, x)
      BY <2>1, <2>3, GotoMoves DEF Quietly, At, Pcs, AckPcs, BizPcs
    <3> QED
      BY <1>1, <2>1, <3>1, QuietKeeps DEF Quietly
  <2> QED
    BY <1>3, <2>2, <2>3 DEF RegReadAttempt
<1>4. CASE RegReadIndex(c)
  <2>1. Quietly(c)
    BY <1>1, <1>4 DEF RegReadIndex, Quietly, At
  <2>2. CASE Goto(c, "regWriteAttempt")
    <3>1. \E x : Moves(c, x)
      BY <2>1, <2>2, GotoMoves DEF Quietly, At, Pcs, AckPcs, BizPcs
    <3> QED
      BY <1>1, <2>1, <3>1, QuietKeeps DEF Quietly
  <2>3. CASE /\ index[k] # None
             /\ call' = [call EXCEPT ![c].ref = index[k], ![c].pc = "regReadIndexed"]
    <3>1. Moves(c, [call[c] EXCEPT !.ref = index[k], !.pc = "regReadIndexed"])
      BY <1>1, <1>2, <1>4, <2>3 DEF RegReadIndex, At, Moves, Calls, Pcs, SoundCall, AckPcs, BizPcs
    <3> QED
      BY <1>1, <2>1, <3>1, QuietKeeps DEF Quietly
  <2> QED
    BY <1>4, <2>2, <2>3 DEF RegReadIndex
<1>5. CASE RegReadIndexed(c)
  BY <1>1, <1>5, ReturnKeeps DEF RegReadIndexed, Quietly, At, Replies
<1>6. CASE RegWriteAttempt(c)
  <2>1. At(c, "regWriteAttempt") /\ NewAttempt(call[c].delivery, k) \in Attempts
    BY <1>2, <1>6 DEF RegWriteAttempt, At, NewAttempt, Attempts, Executions, Retries
  <2>2. Grows /\ attempt'[r] # None
    BY <1>2, <1>6, <2>1, AttemptKeeps DEF RegWriteAttempt, At
  <2>3. \E x : Moves(c, x)
    BY <1>6, <2>1, <2>2, GotoMoves DEF RegWriteAttempt, At, Pcs, AckPcs, BizPcs
  <2>4. IndexIsBacked'
    BY <1>6, <2>2 DEF RegWriteAttempt, IInv, TypeOK, IndexIsBacked, Grows
  <2>5. StatusIsEvidenced'
    BY <1>6 DEF RegWriteAttempt, NewAttempt, IInv, TypeOK, StatusIsEvidenced
  <2> QED
    BY <1>1, <1>6, <2>2, <2>3, <2>4, <2>5, MoveKeeps DEF RegWriteAttempt
<1>7. CASE RegWriteIndex(c)
  <2>1. k \in Keys /\ r \in AttemptRefs /\ attempt[r] # None
    BY <1>1, <1>2, <1>7 DEF RegWriteIndex, At, Backed
  <2>2. Grows /\ index'[k] # None
    BY <1>1, <1>7, <2>1, AttemptAssumption DEF RegWriteIndex, IInv, TypeOK, Grows
  <2>3. \E x : Moves(c, x)
    BY <1>7, <2>2, ReturnMoves DEF RegWriteIndex, At, Replies
  <2>4. IndexIsBacked' /\ StatusIsEvidenced'
    BY <1>1, <1>7, <2>1, <2>2 DEF RegWriteIndex, IInv, IndexIsBacked, StatusIsEvidenced
  <2> QED
    BY <1>1, <1>7, <2>2, <2>3, <2>4, MoveKeeps DEF RegWriteIndex
<1> QED
  BY <1>3, <1>4, <1>5, <1>6, <1>7 DEF RegisterStep

\* A read whose copy of the attempt the call keeps.
LEMMA CopyKeeps ==
    ASSUME IInv, NEW c \in Callers, Quietly(c), NEW p \in {"ackReadExisting", "bizReadExisting"},
           p \in AckPcs => call[c].pc \in AckPcs, p \in BizPcs => call[c].pc \in BizPcs,
           call' = [call EXCEPT ![c].attempt = attempt[call[c].ref], ![c].pc = p]
    PROVE  IInv'
<1>1. call[c] \in Calls /\ SoundCall(call[c]) /\ attempt[call[c].ref] \in Attempts \cup {None}
  BY DEF IInv, TypeOK, Quietly, At, SoundCall
<1>2. Moves(c, [call[c] EXCEPT !.attempt = attempt[call[c].ref], !.pc = p])
  BY <1>1 DEF Quietly, At, Moves, Calls, Pcs, SoundCall, AckPcs, BizPcs
<1> QED
  BY <1>2, QuietKeeps DEF Quietly, IInv, TypeOK

LEMMA AckKeeps == ASSUME IInv, NEW c \in Callers, AckStep(c) PROVE IInv'
<1> DEFINE r == call[c].ref
<1>1. /\ abandoned \in Nat /\ overlapped \subseteq AttemptRefs \cup Keys
      /\ r \in AttemptRefs /\ call[c].report \in Acks /\ Backed(call[c])
      /\ call[c].attempt \in Attempts \cup {None}
      /\ At(c, "ackWriteAttempt") => call[c].attempt \in Attempts
      /\ ~At(c, "idle") /\ call[c].pc \in AckPcs
  BY DEF IInv, TypeOK, SoundCall, AckPcs, At, Calls,
         AckStep, AckReadAttempt, AckReadExisting, AckWrite, AckWriteAttempt
<1>2. CASE AckReadAttempt(c)
  <2>1. Quietly(c)
    BY <1>1, <1>2 DEF AckReadAttempt, Quietly
  <2> QED
    BY <1>1, <1>2, <2>1, ReturnKeeps, CopyKeeps DEF AckReadAttempt, AckPcs, BizPcs, Replies
<1>3. CASE AckReadExisting(c)
  <2>1. Quietly(c)
    BY <1>1, <1>3 DEF AckReadExisting, Quietly
  <2>2. CASE \E answer \in {"threw", "duplicate"} : Return(c, answer)
    BY <2>1, <2>2, ReturnKeeps DEF Replies
  <2>3. CASE Goto(c, "ackWrite")
    <3>1. \E x : Moves(c, x)
      BY <1>1, <2>3, GotoMoves DEF At, Pcs, AckPcs, BizPcs
    <3> QED
      BY <1>1, <2>1, <3>1, QuietKeeps DEF Quietly
  <2> QED
    BY <1>3, <2>2, <2>3 DEF AckReadExisting
<1>4. CASE AckWrite(c)
  <2>1. Grows /\ ack'[r] # None
    BY <1>1, <1>4, AttemptAssumption DEF AckWrite, IInv, TypeOK, Grows
  <2>2. IndexIsBacked' /\ StatusIsEvidenced'
    BY <1>4, <2>1 DEF AckWrite, IInv, IndexIsBacked, StatusIsEvidenced, Grows
  <2>3. CASE Return(c, "acknowledged")
    BY <1>1, <1>4, <2>1, <2>2, <2>3, ReturnMoves, MoveKeeps DEF AckWrite, At, Replies
  <2>4. CASE call[c].attempt # None /\ Goto(c, "ackWriteAttempt")
    <3>1. \E x : Moves(c, x)
      BY <1>1, <2>1, <2>4, GotoMoves DEF At, Pcs, AckPcs, BizPcs
    <3> QED
      BY <1>1, <1>4, <2>1, <2>2, <3>1, MoveKeeps DEF AckWrite
  <2> QED
    BY <1>4, <2>3, <2>4 DEF AckWrite
<1>5. CASE AckWriteAttempt(c)
  <2> DEFINE new == AttemptAfterAck(call[c].attempt, call[c].report)
  <2>1. new \in Attempts /\ new.execution \in {"provider-acknowledged", "provider-failed"}
        /\ new.business = "not-evaluated"
    BY <1>1, <1>5 DEF AckWriteAttempt, AttemptAfterAck, Attempts, Acks, Executions
  <2>2. Grows /\ attempt' = [attempt EXCEPT ![r] = new]
    BY <1>1, <1>5, <2>1, AttemptKeeps DEF AckWriteAttempt
  <2>3. ack[r] # None
    BY <1>1, <1>5 DEF AckWriteAttempt, Backed, At
  <2>4. IndexIsBacked'
    BY <1>5, <2>2 DEF AckWriteAttempt, IInv, TypeOK, IndexIsBacked, Grows
  <2>5. StatusIsEvidenced'
    BY <1>1, <1>5, <2>1, <2>2, <2>3 DEF AckWriteAttempt, IInv, TypeOK, StatusIsEvidenced
  <2> QED
    BY <1>1, <1>5, <2>2, <2>4, <2>5, ReturnMoves, MoveKeeps DEF AckWriteAttempt, At, Replies
<1> QED
  BY <1>2, <1>3, <1>4, <1>5 DEF AckStep

LEMMA ResultKeeps == ASSUME IInv, NEW c \in Callers, ResultStep(c) PROVE IInv'
<1> DEFINE r == call[c].ref
<1>1. /\ abandoned \in Nat /\ overlapped \subseteq AttemptRefs \cup Keys
      /\ r \in AttemptRefs /\ call[c].report \in Results /\ Backed(call[c])
      /\ call[c].attempt \in Attempts \cup {None}
      /\ At(c, "bizWriteAttempt") => call[c].attempt \in Attempts
      /\ ~At(c, "idle") /\ call[c].pc \in BizPcs
  BY DEF IInv, TypeOK, SoundCall, BizPcs, At, Calls,
         ResultStep, BizReadAttempt, BizReadExisting, BizWrite, BizWriteAttempt
<1>2. CASE BizReadAttempt(c)
  <2>1. Quietly(c)
    BY <1>1, <1>2 DEF BizReadAttempt, Quietly
  <2> QED
    BY <1>1, <1>2, <2>1, ReturnKeeps, CopyKeeps DEF BizReadAttempt, AckPcs, BizPcs, Replies
<1>3. CASE BizReadExisting(c)
  <2>1. Quietly(c)
    BY <1>1, <1>3 DEF BizReadExisting, Quietly
  <2>2. CASE Return(c, "duplicate")
    BY <2>1, <2>2, ReturnKeeps DEF Replies
  <2>3. CASE Goto(c, "bizWrite")
    <3>1. \E x : Moves(c, x)
      BY <1>1, <2>3, GotoMoves DEF At, Pcs, AckPcs, BizPcs
    <3> QED
      BY <1>1, <2>1, <3>1, QuietKeeps DEF Quietly
  <2> QED
    BY <1>3, <2>2, <2>3 DEF BizReadExisting
<1>4. CASE BizWrite(c)
  <2>1. Grows /\ business'[r] # None
    BY <1>1, <1>4, AttemptAssumption DEF BizWrite, IInv, TypeOK, Grows
  <2>2. IndexIsBacked' /\ StatusIsEvidenced'
    BY <1>4, <2>1 DEF BizWrite, IInv, IndexIsBacked, StatusIsEvidenced, Grows
  <2>3. CASE Return(c, "evaluated")
    BY <1>1, <1>4, <2>1, <2>2, <2>3, ReturnMoves, MoveKeeps DEF BizWrite, At, Replies
  <2>4. CASE call[c].attempt # None /\ Goto(c, "bizWriteAttempt")
    <3>1. \E x : Moves(c, x)
      BY <1>1, <2>1, <2>4, GotoMoves DEF At, Pcs, AckPcs, BizPcs
    <3> QED
      BY <1>1, <1>4, <2>1, <2>2, <3>1, MoveKeeps DEF BizWrite
  <2> QED
    BY <1>4, <2>3, <2>4 DEF BizWrite
<1>5. CASE BizWriteAttempt(c)
  <2> DEFINE new == AttemptAfterResult(call[c].attempt, call[c].report)
  <2>1. new \in Attempts /\ new.execution \in {"business-succeeded", "business-failed"}
    BY <1>1, <1>5 DEF BizWriteAttempt, AttemptAfterResult, Attempts, Results, Executions
  <2>2. Grows /\ attempt' = [attempt EXCEPT ![r] = new]
    BY <1>1, <1>5, <2>1, AttemptKeeps DEF BizWriteAttempt
  <2>3. business[r] # None
    BY <1>1, <1>5 DEF BizWriteAttempt, Backed, At
  <2>4. IndexIsBacked'
    BY <1>5, <2>2 DEF BizWriteAttempt, IInv, TypeOK, IndexIsBacked, Grows
  <2>5. StatusIsEvidenced'
    BY <1>1, <1>5, <2>1, <2>2, <2>3 DEF BizWriteAttempt, IInv, TypeOK, StatusIsEvidenced
  <2> QED
    BY <1>1, <1>5, <2>2, <2>4, <2>5, ReturnMoves, MoveKeeps DEF BizWriteAttempt, At, Replies
<1> QED
  BY <1>2, <1>3, <1>4, <1>5 DEF ResultStep

LEMMA Inductive == IInv /\ [Next]_vars => IInv'
<1> SUFFICES ASSUME IInv, [Next]_vars PROVE IInv'
  OBVIOUS
<1>1. CASE UNCHANGED vars
  BY <1>1 DEF vars, IInv, TypeOK, IndexIsBacked, StatusIsEvidenced, SoundCall, Backed
<1>2. ASSUME NEW c \in Callers, Abandon(c) PROVE IInv'
  <2>1. Moves(c, Ended(None, "threw"))
    BY <1>2, EndedSound DEF Abandon, Moves, Ended, Replies
  <2>2. abandoned' \in Nat
    BY <1>2 DEF Abandon, IInv, TypeOK
  <2> QED
    BY <1>2, <2>1, <2>2, QuietKeeps DEF Abandon, IInv, TypeOK
<1> QED
  BY <1>1, <1>2, BeginKeeps, RegisterKeeps, AckKeeps, ResultKeeps DEF Next

LEMMA AlwaysSound == Spec => []IInv
  BY Initial, Inductive, PTL DEF Spec

\* Records and calls in flight keep their shape.
THEOREM TypeCorrect == Spec => []TypeOK
<1>1. IInv => TypeOK
  BY DEF IInv
<1> QED
  BY <1>1, AlwaysSound, PTL

-----------------------------------------------------------------------------
(* Refs and keys that no two calls overlap on                               *)

\* Two calls in flight on a key, or on a ref, make it an overlapped one; a call that
\* answers with the attempt that the index named only reads it.
Apart ==
    \A a, b \in Callers : a # b /\ ~At(a, "idle") /\ ~At(b, "idle") =>
        /\ call[a].key = call[b].key => call[a].key \in overlapped
        /\ /\ ~At(a, "regReadIndexed") /\ ~At(b, "regReadIndexed")
           /\ call[a].ref = call[b].ref
           => call[a].ref \in overlapped

\* What a call has read is still so, and what it has written still stands.
Alone(c) ==
    /\ call[c].key \in overlapped \/
         (call[c].pc \in {"regWriteAttempt", "regWriteIndex"} => index[call[c].key] = None)
    /\ call[c].ref \in overlapped \/
         /\ At(c, "ackWrite") => ack[call[c].ref] = None
         /\ At(c, "ackWriteAttempt") => ack[call[c].ref] = call[c].report
         /\ At(c, "bizWrite") => business[call[c].ref] = None
         /\ At(c, "bizWriteAttempt") => business[call[c].ref] = call[c].report

AloneInv ==
    /\ IInv /\ Apart /\ \A c \in Callers : Alone(c)
    /\ GrantedOnce /\ StatusMatchesEvidence

\* The one record a step may write besides the attempt is that of its own call.
Touches(c) ==
    /\ \A b \in Callers \ {c} : call'[b] = call[b]
    /\ overlapped \subseteq overlapped'
    /\ \A k \in Keys : index'[k] = index[k] \/ (At(c, "regWriteIndex") /\ k = call[c].key)
    /\ \A r \in AttemptRefs :
          /\ ack'[r] = ack[r] \/ (At(c, "ackWrite") /\ r = call[c].ref)
          /\ business'[r] = business[r] \/ (At(c, "bizWrite") /\ r = call[c].ref)

StepOf(c) == Begin(c) \/ RegisterStep(c) \/ AckStep(c) \/ ResultStep(c) \/ Abandon(c)

LEMMA StepTouches == ASSUME IInv, NEW c \in Callers, StepOf(c) PROVE Touches(c)
<1>1. /\ call \in [Callers -> Calls] /\ index \in [Keys -> AttemptRefs \cup {None}]
      /\ ack \in [AttemptRefs -> Acks \cup {None}]
      /\ business \in [AttemptRefs -> Results \cup {None}]
  BY DEF IInv, TypeOK
<1>2. CASE Begin(c)
  BY <1>1, <1>2 DEF Begin, RejectInput, BeginRegister, BeginAck, BeginResult, Reach, store, Touches
<1>3. CASE RegisterStep(c)
  BY <1>1, <1>3 DEF RegisterStep, RegReadAttempt, RegReadIndex, RegReadIndexed, RegWriteAttempt,
                    RegWriteIndex, Goto, Return, store, Touches
<1>4. CASE AckStep(c)
  BY <1>1, <1>4 DEF AckStep, AckReadAttempt, AckReadExisting, AckWrite, AckWriteAttempt, Goto,
                    Return, store, Touches
<1>5. CASE ResultStep(c)
  BY <1>1, <1>5 DEF ResultStep, BizReadAttempt, BizReadExisting, BizWrite, BizWriteAttempt, Goto,
                    Return, store, Touches
<1>6. CASE Abandon(c)
  BY <1>1, <1>6 DEF Abandon, store, Touches
<1> QED
  BY <1>2, <1>3, <1>4, <1>5, <1>6 DEF StepOf

\* The other calls go on relying on what they relied on.
LEMMA OthersAlone ==
    ASSUME AloneInv, NEW c \in Callers, Touches(c), NEW b \in Callers \ {c}
    PROVE  Alone(b)'
<1>1. /\ call'[b] = call[b] /\ Alone(b) /\ SoundCall(call[b])
      /\ overlapped \subseteq overlapped'
  BY DEF AloneInv, IInv, Touches
<1>2. ASSUME call[b].pc \in {"regWriteAttempt", "regWriteIndex"}, call[b].key \notin overlapped
      PROVE  index'[call[b].key] = index[call[b].key]
  BY <1>1, <1>2 DEF AloneInv, Apart, Touches, At, SoundCall
<1>3. ASSUME call[b].pc \in {"ackWrite", "ackWriteAttempt", "bizWrite", "bizWriteAttempt"},
             call[b].ref \notin overlapped
      PROVE  /\ ack'[call[b].ref] = ack[call[b].ref]
             /\ business'[call[b].ref] = business[call[b].ref]
  BY <1>1, <1>3 DEF AloneInv, Apart, Touches, At, SoundCall
<1> QED
  BY <1>1, <1>2, <1>3 DEF Alone, At

\* A call that returns is idle; one that goes on is the same call, but for the ref that
\* the index named.
LEMMA ReturnEnds ==
    ASSUME IInv, NEW c \in Callers, NEW answer, Return(c, answer) PROVE call'[c].pc = "idle"
  BY DEF IInv, TypeOK, Return, Ended

Goes(c, p) ==
    /\ call'[c].pc = p /\ call'[c].key = call[c].key /\ call'[c].report = call[c].report
    /\ p # "regReadIndexed" => call'[c].ref = call[c].ref

LEMMA GotoGoes == ASSUME IInv, NEW c \in Callers, NEW p, Goto(c, p) PROVE Goes(c, p)
<1>1. call'[c] = [call[c] EXCEPT !.pc = p] /\ call[c] \in Calls
  BY DEF IInv, TypeOK, Goto
<1> QED
  BY <1>1 DEF Goes, Calls

\* Where the call of a step has got to, and what it has just read or written.
Reading == {"regReadAttempt", "regReadIndex", "regReadIndexed", "ackReadAttempt",
            "ackReadExisting", "bizReadAttempt", "bizReadExisting"}

LEMMA StepGoes ==
    ASSUME IInv, NEW c \in Callers, RegisterStep(c) \/ AckStep(c) \/ ResultStep(c)
    PROVE  \/ call'[c].pc = "idle"
           \/ /\ ~At(c, "idle") /\ ~At(c, "regReadIndexed")
              /\ \/ \E p \in Reading : Goes(c, p)
                 \/ Goes(c, "regWriteAttempt") /\ index'[call[c].key] = None
                 \/ Goes(c, "regWriteIndex") /\ At(c, "regWriteAttempt") /\ UNCHANGED index
                 \/ Goes(c, "ackWrite") /\ ack'[call[c].ref] = None
                 \/ Goes(c, "ackWriteAttempt") /\ ack'[call[c].ref] = call[c].report
                 \/ Goes(c, "bizWrite") /\ business'[call[c].ref] = None
                 \/ Goes(c, "bizWriteAttempt") /\ business'[call[c].ref] = call[c].report
<1>1. /\ call \in [Callers -> Calls] /\ ack \in [AttemptRefs -> Acks \cup {None}]
      /\ business \in [AttemptRefs -> Results \cup {None}]
      /\ ~At(c, "idle") => call[c].ref \in AttemptRefs
  BY DEF IInv, TypeOK, SoundCall, At
<1>2. CASE \E answer : Return(c, answer)
  BY <1>2, ReturnEnds
<1>3. CASE RegReadAttempt(c) /\ Goto(c, "regReadIndex")
  BY <1>3, GotoGoes DEF RegReadAttempt, At, Reading
<1>4. CASE RegReadIndex(c) /\ index[call[c].key] = None /\ Goto(c, "regWriteAttempt")
  BY <1>4, GotoGoes DEF RegReadIndex, At, store
<1>5. CASE /\ At(c, "regReadIndex")
           /\ call' = [call EXCEPT ![c].ref = index[call[c].key], ![c].pc = "regReadIndexed"]
  <2>1. call'[c] = [call[c] EXCEPT !.ref = index[call[c].key], !.pc = "regReadIndexed"]
    BY <1>1, <1>5
  <2>2. Goes(c, "regReadIndexed")
    BY <1>1, <2>1 DEF Goes, Calls
  <2> QED
    BY <1>5, <2>2 DEF At, Reading
<1>6. CASE RegWriteAttempt(c)
  BY <1>6, GotoGoes DEF RegWriteAttempt, At
<1>7. ASSUME At(c, "ackReadAttempt") \/ At(c, "bizReadAttempt"), NEW p \in Reading \ {"regReadIndexed"},
             call' = [call EXCEPT ![c].attempt = attempt[call[c].ref], ![c].pc = p]
      PROVE  ~At(c, "idle") /\ ~At(c, "regReadIndexed") /\ Goes(c, p)
  <2>1. call'[c] = [call[c] EXCEPT !.attempt = attempt[call[c].ref], !.pc = p]
    BY <1>1, <1>7
  <2> QED
    BY <1>1, <1>7, <2>1 DEF Goes, Calls, At
<1>8. CASE AckReadExisting(c) /\ ack[call[c].ref] = None /\ Goto(c, "ackWrite")
  BY <1>8, GotoGoes DEF AckReadExisting, At, store
<1>9. CASE AckWrite(c) /\ Goto(c, "ackWriteAttempt")
  BY <1>1, <1>9, GotoGoes DEF AckWrite, At
<1>10. CASE BizReadExisting(c) /\ business[call[c].ref] = None /\ Goto(c, "bizWrite")
  BY <1>10, GotoGoes DEF BizReadExisting, At, store
<1>11. CASE BizWrite(c) /\ Goto(c, "bizWriteAttempt")
  BY <1>1, <1>11, GotoGoes DEF BizWrite, At
<1>12. CASE RegisterStep(c)
  BY <1>2, <1>3, <1>4, <1>5, <1>6, <1>12
  DEF RegisterStep, RegReadAttempt, RegReadIndex, RegReadIndexed, RegWriteIndex
<1>13. CASE AckStep(c)
  BY <1>2, <1>7, <1>8, <1>9, <1>13
  DEF AckStep, AckReadAttempt, AckReadExisting, AckWrite, AckWriteAttempt, Reading
<1>14. CASE ResultStep(c)
  BY <1>2, <1>7, <1>10, <1>11, <1>14
  DEF ResultStep, BizReadAttempt, BizReadExisting, BizWrite, BizWriteAttempt, Reading
<1> QED
  BY <1>12, <1>13, <1>14

\* A call begins, is refused or is lost.
LEMMA EndsOrBegins ==
    ASSUME IInv, NEW c \in Callers, Begin(c) \/ Abandon(c)
    PROVE  \/ call'[c].pc = "idle"
           \/ \E r \in AttemptRefs, k \in Keys :
                 Reach(r, k) /\ call'[c].ref = r /\ call'[c].key = k /\ call'[c].pc \in Reading
<1>1. call \in [Callers -> Calls]
  BY DEF IInv, TypeOK
<1> QED
  BY <1>1 DEF Begin, RejectInput, BeginRegister, BeginAck, BeginResult, Started, Ended, Abandon, Reading

LEMMA OwnAlone == ASSUME AloneInv, NEW c \in Callers, StepOf(c) PROVE Alone(c)'
<1>1. IInv /\ Alone(c) /\ overlapped \subseteq overlapped'
  BY StepTouches DEF AloneInv, Touches
<1>2. CASE call'[c].pc \in {"idle"} \cup Reading
  BY <1>2 DEF Alone, At, Reading
<1>3. CASE RegisterStep(c) \/ AckStep(c) \/ ResultStep(c)
  BY <1>1, <1>2, <1>3, StepGoes DEF Goes, Alone, At
<1> QED
  BY <1>1, <1>2, <1>3, EndsOrBegins DEF StepOf

LEMMA StaysApart == ASSUME AloneInv, NEW c \in Callers, StepOf(c) PROVE Apart'
<1>1. /\ IInv /\ Apart /\ Touches(c)
      /\ \A b \in Callers \ {c} : call'[b] = call[b]
  BY StepTouches DEF AloneInv, Touches
<1>2. CASE call'[c].pc = "idle"
  BY <1>1, <1>2 DEF Apart, At, Touches
<1>3. ASSUME NEW p, Goes(c, p), ~At(c, "idle"), ~At(c, "regReadIndexed")
      PROVE  Apart'
  BY <1>1, <1>3 DEF Goes, Apart, At, Touches
<1>4. ASSUME NEW r, NEW k, Reach(r, k), call'[c].ref = r, call'[c].key = k
      PROVE  Apart'
  <2> DEFINE flight == UNION {{call[b].ref, call[b].key} : b \in {a \in Callers : ~At(a, "idle")}}
  <2>1. \A b \in Callers : ~At(b, "idle") => call[b].ref \in flight /\ call[b].key \in flight
    OBVIOUS
  <2>2. overlapped' = overlapped \cup ({r, k} \cap flight)
    BY <1>4 DEF Reach
  <2> HIDE DEF flight
  <2> QED
    BY <1>1, <1>4, <2>1, <2>2 DEF Apart, At, Touches
<1> QED
  BY <1>1, <1>2, <1>3, <1>4, StepGoes, EndsOrBegins DEF StepOf

LEMMA StaysGrantedOnce == ASSUME AloneInv, NEW c \in Callers, StepOf(c) PROVE GrantedOnce'
<1> SUFFICES ASSUME NEW k \in Keys \ overlapped' PROVE granted'[k] <= 1
  BY DEF GrantedOnce
<1>1. /\ granted \in [Keys -> 0..2] /\ k \notin overlapped /\ granted[k] <= 1
      /\ granted[k] > 0 => index[k] # None
  BY StepTouches DEF AloneInv, IInv, TypeOK, Touches, GrantedOnce, IndexIsBacked
<1>2. CASE RegWriteIndex(c)
  BY <1>1, <1>2 DEF RegWriteIndex, AloneInv, Alone, At
<1>3. CASE UNCHANGED granted
  BY <1>1, <1>3
<1> QED
  BY <1>2, <1>3
  DEF StepOf, Begin, RejectInput, BeginRegister, BeginAck, BeginResult, RegisterStep,
      RegReadAttempt, RegReadIndex, RegReadIndexed, RegWriteAttempt, AckStep, AckReadAttempt,
      AckReadExisting, AckWrite, AckWriteAttempt, ResultStep, BizReadAttempt, BizReadExisting,
      BizWrite, BizWriteAttempt, Abandon

\* What an attempt says of its delivery is what the evidence of it says.
Matches(a, told, result) ==
    /\ a.execution = "provider-acknowledged" => told.accepted
    /\ a.execution = "provider-failed" => ~told.accepted
    /\ a.execution \in {"business-succeeded", "business-failed"} =>
          /\ a.business = result.verdict
          /\ a.execution = "business-succeeded" <=> result.verdict = "marked-delivered"
          /\ a.retry = result.retry

LEMMA MatchesAre ==
    StatusMatchesEvidence <=>
        \A r \in AttemptRefs \ overlapped : attempt[r] # None => Matches(attempt[r], ack[r], business[r])
  BY DEF StatusMatchesEvidence, Matches

\* An attempt that says nothing of what a step wrote still matches.
LEMMA StaysMatching == ASSUME AloneInv, NEW c \in Callers, StepOf(c) PROVE StatusMatchesEvidence'
<1> SUFFICES ASSUME NEW r \in AttemptRefs \ overlapped', attempt'[r] # None
             PROVE  Matches(attempt'[r], ack'[r], business'[r])
  BY DEF StatusMatchesEvidence, Matches
<1>1. /\ attempt \in [AttemptRefs -> Attempts \cup {None}] /\ ack \in [AttemptRefs -> Acks \cup {None}]
      /\ business \in [AttemptRefs -> Results \cup {None}]
      /\ r \notin overlapped /\ Touches(c) /\ SoundCall(call[c]) /\ Alone(c)
      /\ call[c].attempt \in Attempts \cup {None}
  BY StepTouches DEF AloneInv, IInv, TypeOK, Touches, Calls
<1>2. attempt[r] # None => /\ attempt[r] \in Attempts
                           /\ Matches(attempt[r], ack[r], business[r])
  BY <1>1, MatchesAre DEF AloneInv
<1>3. CASE attempt'[r] = attempt[r] /\ ack'[r] = ack[r] /\ business'[r] = business[r]
  BY <1>2, <1>3
<1>4. CASE RegWriteAttempt(c) /\ call[c].ref = r
  BY <1>1, <1>4 DEF RegWriteAttempt, NewAttempt, Matches
<1>5. CASE AckWrite(c) /\ call[c].ref = r
  <2>1. ack[r] = None /\ attempt'[r] = attempt[r] /\ business'[r] = business[r]
    BY <1>1, <1>5 DEF AckWrite, Alone, At
  <2>2. attempt[r].execution \notin {"provider-acknowledged", "provider-failed"}
    BY <1>5, <2>1 DEF AloneInv, IInv, StatusIsEvidenced
  <2> QED
    BY <1>2, <2>1, <2>2 DEF Matches
<1>6. CASE BizWrite(c) /\ call[c].ref = r
  <2>1. business[r] = None /\ attempt'[r] = attempt[r] /\ ack'[r] = ack[r]
    BY <1>1, <1>6 DEF BizWrite, Alone, At
  <2>2. attempt[r].execution \notin {"business-succeeded", "business-failed"}
    BY <1>6, <2>1 DEF AloneInv, IInv, StatusIsEvidenced
  <2> QED
    BY <1>2, <2>1, <2>2 DEF Matches
<1>7. CASE AckWriteAttempt(c) /\ call[c].ref = r
  <2>1. /\ call[c].attempt \in Attempts /\ call[c].report \in Acks
        /\ ack'[r] = call[c].report /\ business'[r] = business[r]
    BY <1>1, <1>7 DEF AckWriteAttempt, SoundCall, AckPcs, Alone, At
  <2>2. attempt'[r] = AttemptAfterAck(call[c].attempt, call[c].report)
    BY <1>1, <1>7 DEF AckWriteAttempt
  <2>3. attempt'[r].execution = IF call[c].report.accepted THEN "provider-acknowledged"
                                                           ELSE "provider-failed"
    BY <2>1, <2>2 DEF AttemptAfterAck, Attempts
  <2> QED
    BY <2>1, <2>3 DEF Matches, Acks
<1>8. CASE BizWriteAttempt(c) /\ call[c].ref = r
  <2>1. /\ call[c].attempt \in Attempts /\ call[c].report \in Results
        /\ business'[r] = call[c].report /\ ack'[r] = ack[r]
    BY <1>1, <1>8 DEF BizWriteAttempt, SoundCall, BizPcs, Alone, At
  <2>2. attempt'[r] = AttemptAfterResult(call[c].attempt, call[c].report)
    BY <1>1, <1>8 DEF BizWriteAttempt
  <2>3. /\ attempt'[r].execution = IF call[c].report.verdict = "marked-delivered"
                                   THEN "business-succeeded" ELSE "business-failed"
        /\ attempt'[r].retry = call[c].report.retry /\ attempt'[r].business = call[c].report.verdict
    BY <2>1, <2>2 DEF AttemptAfterResult, Attempts
  <2> QED
    BY <2>1, <2>3 DEF Matches
<1>9. CASE AckStep(c)
  BY <1>1, <1>3, <1>5, <1>7, <1>9
  DEF AckStep, AckReadAttempt, AckReadExisting, AckWrite, AckWriteAttempt, store
<1>10. CASE ResultStep(c)
  BY <1>1, <1>3, <1>6, <1>8, <1>10
  DEF ResultStep, BizReadAttempt, BizReadExisting, BizWrite, BizWriteAttempt, store
<1>11. CASE RegisterStep(c)
  BY <1>1, <1>3, <1>4, <1>11
  DEF RegisterStep, RegReadAttempt, RegReadIndex, RegReadIndexed, RegWriteAttempt, RegWriteIndex, store
<1>12. CASE Begin(c) \/ Abandon(c)
  BY <1>3, <1>12 DEF Begin, RejectInput, BeginRegister, BeginAck, BeginResult, Abandon, store
<1> QED
  BY <1>9, <1>10, <1>11, <1>12 DEF StepOf

LEMMA AloneInductive == AloneInv /\ [Next]_vars => AloneInv'
<1> SUFFICES ASSUME AloneInv, [Next]_vars PROVE AloneInv'
  OBVIOUS
<1>1. IInv'
  BY Inductive DEF AloneInv
<1>2. CASE UNCHANGED vars
  BY <1>1, <1>2 DEF vars, AloneInv, Apart, Alone, At, GrantedOnce, StatusMatchesEvidence
<1>3. ASSUME NEW c \in Callers, StepOf(c) PROVE AloneInv'
  <2>1. \A b \in Callers : Alone(b)'
    BY <1>3, OwnAlone, OthersAlone, StepTouches DEF AloneInv
  <2> QED
    BY <1>1, <1>3, <2>1, StaysApart, StaysGrantedOnce, StaysMatching DEF AloneInv
<1> QED
  BY <1>2, <1>3 DEF Next, StepOf

LEMMA AlwaysAlone == Spec => []AloneInv
<1>1. Init => AloneInv
  <2> SUFFICES ASSUME Init PROVE AloneInv
    OBVIOUS
  <2>1. IInv
    BY Initial
  <2> QED
    BY <2>1 DEF Init, AloneInv, Apart, Alone, At, Ended, GrantedOnce, StatusMatchesEvidence
<1> QED
  BY <1>1, AloneInductive, PTL DEF Spec

\* A key that a caller was told to execute is indexed under a stored attempt for ever,
\* and no other caller is told so unless two calls with the key overlap.
THEOREM HandedOutOnce == Spec => []GrantsStand
<1>1. AloneInv => GrantsStand
  BY DEF AloneInv, IInv, TypeOK, SoundCall, Backed, IndexIsBacked, GrantsStand, GrantIsDurable
<1> QED
  BY <1>1, AlwaysAlone, PTL

\* An attempt says nothing that is not in evidence, and what is in evidence unless two
\* calls on the attempt overlap.
THEOREM StatusIsTrue == Spec => []EvidenceIsTold
<1>1. AloneInv => EvidenceIsTold
  BY DEF AloneInv, IInv, EvidenceIsTold
<1> QED
  BY <1>1, AlwaysAlone, PTL

\* The first acknowledgement and the first business result of an attempt stand, unless
\* two calls on the attempt overlap.
THEOREM FirstReportStands == Spec => FirstEvidenceStands
<1> DEFINE Stands == \A r \in AttemptRefs \ overlapped' :
                        /\ ack[r] # None => ack'[r] = ack[r]
                        /\ business[r] # None => business'[r] = business[r]
<1>1. AloneInv /\ [Next]_vars => [Stands]_vars
  <2> SUFFICES ASSUME AloneInv, NEW c \in Callers, StepOf(c) PROVE Stands
    BY DEF Next, StepOf
  <2> QED
    BY StepTouches DEF AloneInv, Touches, Alone, At
<1> QED
  BY <1>1, AlwaysAlone, PTL DEF Spec, FirstEvidenceStands
=============================================================================

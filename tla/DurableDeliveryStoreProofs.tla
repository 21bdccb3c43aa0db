---------------------- MODULE DurableDeliveryStoreProofs ----------------------
(***************************************************************************)
(* Proofs about DurableDeliveryStore for any sets of deliveries, keys,      *)
(* targets and callers, any interleaving and any number of lost calls.      *)
(***************************************************************************)
EXTENDS DurableDeliveryStore, TLAPS

RegisterPcs == {"regReadAttempt", "regReadIndex", "regReadIndexed",
                "regWriteAttempt", "regWriteIndex"}
DeliverPcs  == {"delReadAttempt", "delWriteResult", "delWriteExternal",
                "delWriteAttempt"}

\* Which arguments a call holds at each await.
CallShape(c) ==
    /\ call[c].pc # "idle" => call[c].ref \in DeliveryRefs /\ call[c].reply = "none"
    /\ call[c].pc \in RegisterPcs => call[c].key \in Keys /\ call[c].target \in Targets
    /\ call[c].pc = "resolveKey" =>
          /\ call[c].outcome # "none"
          /\ call[c].outcome = "delivered" => call[c].target \in Targets
    /\ call[c].pc \in DeliverPcs => call[c].target \in Targets
    /\ call[c].pc \in {"delWriteAttempt", "failWriteAttempt"} =>
          call[c].attempt \in Attempts
    /\ call[c].reply \in {"created", "duplicate"} => call[c].key \in Keys
    /\ call[c].reply \in {"created", "duplicate", "delivered", "failed"} =>
          call[c].ref \in DeliveryRefs

\* The writes a call has behind it at each await.
WritesBehind(c) ==
    /\ call[c].pc = "regWriteIndex" => ReadAttempt(call[c].ref) # None
    /\ call[c].pc \in {"delWriteExternal", "delWriteAttempt", "failReadAttempt",
                       "failWriteAttempt"} => result[call[c].ref] # None
    /\ call[c].pc = "delWriteAttempt" => external[call[c].ref] # None

ReplyDurable(c) ==
    /\ call[c].reply = "created" => /\ ReadIndex(call[c].key) # None
                                    /\ ReadAttempt(call[c].ref) # None
    /\ call[c].reply = "delivered" => /\ result[call[c].ref] # None
                                      /\ external[call[c].ref] # None
    /\ call[c].reply = "failed" => result[call[c].ref] # None

CallsOK == \A c \in Callers : CallShape(c) /\ WritesBehind(c) /\ ReplyDurable(c)

\* The inductive invariant.
IInv == TypeOK /\ IndexNeverDangles /\ DeliveredIsEvidenced /\ CallsOK

\* Records appear and are replaced, but none becomes unreadable or absent.
StoreGrows ==
    /\ \A r \in DeliveryRefs :
          /\ attempt[r] # None => attempt'[r] # None
          /\ ReadAttempt(r) # None => ReadAttempt(r)' # None
          /\ result[r] # None => result'[r] # None
          /\ external[r] # None => external'[r] # None
    /\ \A k \in Keys : ReadIndex(k) # None => ReadIndex(k)' # None

OwnCallOK(c) == CallShape(c) /\ WritesBehind(c) /\ ReplyDurable(c)

\* What one step of caller c does to types, to the store and to the calls.
Step(c) ==
    /\ TypeOK'
    /\ StoreGrows
    /\ \A d \in Callers \ {c} : call'[d] = call[d]
    /\ OwnCallOK(c)'

-----------------------------------------------------------------------------
LEMMA BeginSteps ==
    ASSUME IInv, NEW c \in Callers, Begin(c)
    PROVE  Step(c) /\ UNCHANGED store
<1> USE DeliveryAssumption
<1> DEFINE args == call'[c]
<1>1. UNCHANGED store /\ UNCHANGED abandoned /\ overlapped' \in BOOLEAN
  <2>1. UNCHANGED store /\ UNCHANGED abandoned /\ (overlapped' = overlapped \/ Reach)
    BY DEF Begin, RejectInput, BeginRegister, BeginMark
  <2>2. overlapped \in BOOLEAN
    BY DEF IInv, TypeOK
  <2> QED
    BY <2>1, <2>2 DEF Reach
<1>2. StoreGrows
  BY <1>1 DEF StoreGrows, store, ReadAttempt, ReadIndex
<1>3. CASE RejectInput(c)
  <2>1. call' = [call EXCEPT ![c] = Ended(None, None, "threw")]
    BY <1>3 DEF RejectInput
  <2>2. TypeOK'
    BY <1>1, <2>1 DEF IInv, TypeOK, store, Calls, Started, Ended, Pcs, Replies, Outcomes
  <2> QED
    BY <1>1, <1>2, <2>1, <2>2 DEF Step, IInv, TypeOK, Started, Ended, OwnCallOK, CallShape,
       WritesBehind, ReplyDurable, RegisterPcs, DeliverPcs
<1>4. ASSUME NEW r \in DeliveryRefs, NEW k \in Keys, NEW t \in Targets,
             BeginRegister(c, r, k, t)
      PROVE  Step(c)
  <2>1. call' = [call EXCEPT ![c] = Started("regReadAttempt", r, k, t, "none")]
    BY <1>4 DEF BeginRegister
  <2>2. TypeOK'
    BY <1>1, <2>1 DEF IInv, TypeOK, store, Calls, Started, Ended, Pcs, Replies, Outcomes
  <2> QED
    BY <1>1, <1>2, <2>1, <2>2 DEF Step, IInv, TypeOK, Started, Ended, OwnCallOK, CallShape,
       WritesBehind, ReplyDurable, RegisterPcs, DeliverPcs
<1>5. ASSUME NEW r \in DeliveryRefs, NEW k \in Keys \cup {None},
             NEW o \in {"delivered", "failed"}, NEW t \in Targets \cup {None},
             o = "delivered" => t \in Targets, BeginMark(c, r, k, o, t)
      PROVE  Step(c)
  <2>1. call' = [call EXCEPT ![c] =
                  Started(IF k = None THEN "resolveKey" ELSE AfterKey(o), r, k, t, o)]
    BY <1>5 DEF BeginMark
  <2>2. TypeOK'
    BY <1>1, <2>1 DEF IInv, TypeOK, store, Calls, Started, Ended, Pcs, Replies, Outcomes, AfterKey
  <2> QED
    BY <1>1, <1>2, <1>5, <2>1, <2>2 DEF Step, IInv, TypeOK, Started, Ended, OwnCallOK, CallShape,
       WritesBehind, ReplyDurable, RegisterPcs, DeliverPcs, AfterKey
<1> QED
  BY <1>1, <1>3, <1>4, <1>5 DEF Begin

\* A read, or the loss of a call, touches the call alone.
LEMMA ReadSteps ==
    ASSUME IInv, NEW c \in Callers,
           \/ RegReadAttempt(c) \/ RegReadIndex(c) \/ RegReadIndexed(c)
           \/ ResolveKey(c) \/ DelReadAttempt(c) \/ FailReadAttempt(c)
           \/ Abandon(c)
    PROVE  Step(c) /\ UNCHANGED store
<1> USE DeliveryAssumption
<1> USE DEF At, Goto, Return, Ended, AfterKey, RegisterPcs, DeliverPcs, store
<1>1. UNCHANGED store /\ overlapped' = overlapped
  BY DEF RegReadAttempt, RegReadIndex, RegReadIndexed, ResolveKey, DelReadAttempt,
     FailReadAttempt, Abandon, store
<1>2. StoreGrows
  BY <1>1 DEF StoreGrows, store, ReadAttempt, ReadIndex
<1>3. TypeOK /\ OwnCallOK(c)
  BY DEF IInv, CallsOK, OwnCallOK
<1>4. ASSUME call[c].pc # "idle" PROVE ReadAttempt(call[c].ref) \in Attempts \cup {None}
  BY <1>3, <1>4 DEF TypeOK, OwnCallOK, CallShape, ReadAttempt
<1>5. CASE RegReadAttempt(c)
  <2>1. TypeOK'
    <3>1. \/ call' = [call EXCEPT ![c].pc = "regReadIndex"]
          \/ \E rep \in {"threw", "duplicate"} : Return(c, rep)
      BY <1>5 DEF RegReadAttempt
    <3>2. abandoned' = abandoned
      BY <1>5 DEF RegReadAttempt
    <3> QED
      BY <1>1, <1>3, <3>1, <3>2 DEF TypeOK, Calls, Pcs, Replies, Outcomes
  <2>2. OwnCallOK(c)' /\ \A d \in Callers \ {c} : call'[d] = call[d]
    BY <1>1, <1>3, <1>4, <1>5 DEF RegReadAttempt, TypeOK, Calls, OwnCallOK, CallShape,
       WritesBehind, ReplyDurable, ReadAttempt, ReadIndex, SameTarget
  <2> QED
    BY <1>1, <1>2, <2>1, <2>2 DEF Step
<1>6. CASE RegReadIndex(c)
  <2>1. TypeOK'
    BY <1>1, <1>3, <1>4, <1>6 DEF RegReadIndex, TypeOK, Attempts, Calls, Pcs, Replies,
       Outcomes, OwnCallOK, CallShape
  <2>2. OwnCallOK(c)' /\ \A d \in Callers \ {c} : call'[d] = call[d]
    BY <1>1, <1>3, <1>4, <1>6 DEF RegReadIndex, TypeOK, Calls, OwnCallOK, CallShape,
       WritesBehind, ReplyDurable, ReadAttempt, ReadIndex, SameTarget
  <2> QED
    BY <1>1, <1>2, <2>1, <2>2 DEF Step
<1>7. CASE RegReadIndexed(c)
  <2>1. TypeOK'
    BY <1>1, <1>3, <1>4, <1>7 DEF RegReadIndexed, TypeOK, Attempts, Calls, Pcs, Replies,
       Outcomes, OwnCallOK, CallShape
  <2>2. OwnCallOK(c)' /\ \A d \in Callers \ {c} : call'[d] = call[d]
    BY <1>1, <1>3, <1>4, <1>7 DEF RegReadIndexed, TypeOK, Calls, OwnCallOK, CallShape,
       WritesBehind, ReplyDurable, ReadAttempt, ReadIndex, SameTarget
  <2> QED
    BY <1>1, <1>2, <2>1, <2>2 DEF Step
<1>8. CASE ResolveKey(c)
  <2>1. TypeOK'
    BY <1>1, <1>3, <1>4, <1>8 DEF ResolveKey, TypeOK, Attempts, Calls, Pcs, Replies,
       Outcomes, OwnCallOK, CallShape
  <2>2. OwnCallOK(c)' /\ \A d \in Callers \ {c} : call'[d] = call[d]
    BY <1>1, <1>3, <1>4, <1>8 DEF ResolveKey, TypeOK, Calls, OwnCallOK, CallShape,
       WritesBehind, ReplyDurable, ReadAttempt, ReadIndex, SameTarget
  <2> QED
    BY <1>1, <1>2, <2>1, <2>2 DEF Step
<1>9. CASE DelReadAttempt(c)
  <2>1. TypeOK'
    BY <1>1, <1>3, <1>4, <1>9 DEF DelReadAttempt, TypeOK, Attempts, Calls, Pcs, Replies,
       Outcomes, OwnCallOK, CallShape
  <2>2. OwnCallOK(c)' /\ \A d \in Callers \ {c} : call'[d] = call[d]
    BY <1>1, <1>3, <1>4, <1>9 DEF DelReadAttempt, TypeOK, Calls, OwnCallOK, CallShape,
       WritesBehind, ReplyDurable, ReadAttempt, ReadIndex, SameTarget
  <2> QED
    BY <1>1, <1>2, <2>1, <2>2 DEF Step
<1>10. CASE FailReadAttempt(c)
  <2>1. TypeOK'
    BY <1>1, <1>3, <1>4, <1>10 DEF FailReadAttempt, TypeOK, Attempts, Calls, Pcs, Replies,
       Outcomes, OwnCallOK, CallShape
  <2>2. OwnCallOK(c)' /\ \A d \in Callers \ {c} : call'[d] = call[d]
    BY <1>1, <1>3, <1>4, <1>10 DEF FailReadAttempt, TypeOK, Calls, OwnCallOK, CallShape,
       WritesBehind, ReplyDurable, ReadAttempt, ReadIndex, SameTarget
  <2> QED
    BY <1>1, <1>2, <2>1, <2>2 DEF Step
<1>11. CASE Abandon(c)
  <2>1. TypeOK'
    BY <1>1, <1>3, <1>4, <1>11 DEF Abandon, TypeOK, Attempts, Calls, Pcs, Replies,
       Outcomes, OwnCallOK, CallShape
  <2>2. OwnCallOK(c)' /\ \A d \in Callers \ {c} : call'[d] = call[d]
    BY <1>1, <1>3, <1>4, <1>11 DEF Abandon, TypeOK, Calls, OwnCallOK, CallShape,
       WritesBehind, ReplyDurable, ReadAttempt, ReadIndex, SameTarget
  <2> QED
    BY <1>1, <1>2, <2>1, <2>2 DEF Step
<1> QED
  BY <1>1, <1>5, <1>6, <1>7, <1>8, <1>9, <1>10, <1>11

\* A write puts a record in place of an absent, unreadable or older one.
LEMMA WriteSteps ==
    ASSUME IInv, NEW c \in Callers,
           \/ RegWriteAttempt(c) \/ RegWriteIndex(c)
           \/ DelWriteResult(c) \/ DelWriteExternal(c) \/ DelWriteAttempt(c)
           \/ FailWriteResult(c) \/ FailWriteAttempt(c)
    PROVE  Step(c) /\ IndexNeverDangles' /\ DeliveredIsEvidenced'
<1> USE DeliveryAssumption
<1> USE DEF At, Goto, Return, Ended, RegisterPcs, DeliverPcs
<1>1. TypeOK /\ OwnCallOK(c) /\ IndexNeverDangles /\ DeliveredIsEvidenced
  BY DEF IInv, CallsOK, OwnCallOK
<1>2. CASE RegWriteAttempt(c)
  <2>1. call[c].ref \in DeliveryRefs /\ call[c] \in Calls
    BY <1>1, <1>2 DEF RegWriteAttempt, TypeOK, OwnCallOK, CallShape
  <2>2. PICK new \in Attempts :
          new.status = "created" /\ attempt' = [attempt EXCEPT ![call[c].ref] = new]
    BY <1>1, <1>2, <2>1 DEF RegWriteAttempt, Attempts, Statuses, OwnCallOK, CallShape
  <2>3. TypeOK'
    BY <1>1, <1>2, <2>1, <2>2 DEF RegWriteAttempt, TypeOK, Calls, Pcs, Replies, Outcomes
  <2>4. StoreGrows
    BY <1>1, <1>2, <2>1, <2>2 DEF RegWriteAttempt, TypeOK, StoreGrows, ReadAttempt, ReadIndex
  <2>5. OwnCallOK(c)' /\ \A d \in Callers \ {c} : call'[d] = call[d]
    BY <1>1, <1>2, <2>1, <2>2 DEF RegWriteAttempt, TypeOK, Calls, OwnCallOK, CallShape,
       WritesBehind, ReplyDurable, ReadAttempt
  <2>6. IndexNeverDangles'
    BY <1>1, <1>2, <2>1, <2>2 DEF RegWriteAttempt, TypeOK, IndexNeverDangles, ReadIndex
  <2>7. DeliveredIsEvidenced'
    BY <1>1, <1>2, <2>1, <2>2 DEF RegWriteAttempt, TypeOK, OwnCallOK, WritesBehind,
       DeliveredIsEvidenced, ReadAttempt
  <2> QED
    BY <2>3, <2>4, <2>5, <2>6, <2>7 DEF Step
<1>3. CASE RegWriteIndex(c)
  <2>1. TypeOK'
    BY <1>1, <1>3 DEF RegWriteIndex, TypeOK, Attempts, Results, Calls, Pcs, Replies,
       Outcomes, OwnCallOK, CallShape
  <2>2. StoreGrows
    BY <1>1, <1>3 DEF RegWriteIndex, TypeOK, Attempts, Results, Calls, OwnCallOK, CallShape,
       StoreGrows, ReadAttempt, ReadIndex
  <2>3. OwnCallOK(c)' /\ \A d \in Callers \ {c} : call'[d] = call[d]
    BY <1>1, <1>3 DEF RegWriteIndex, TypeOK, Attempts, Results, Calls, OwnCallOK, CallShape,
       WritesBehind, ReplyDurable, ReadAttempt, ReadIndex
  <2>4. IndexNeverDangles'
    BY <1>1, <1>3 DEF RegWriteIndex, TypeOK, Attempts, Calls, OwnCallOK, CallShape,
       WritesBehind, IndexNeverDangles, ReadAttempt, ReadIndex
  <2>5. DeliveredIsEvidenced'
    BY <1>1, <1>3 DEF RegWriteIndex, TypeOK, Attempts, Results, Calls, OwnCallOK, CallShape,
       WritesBehind, DeliveredIsEvidenced, ReadAttempt
  <2> QED
    BY <2>1, <2>2, <2>3, <2>4, <2>5 DEF Step
<1>4. CASE DelWriteResult(c)
  <2>1. TypeOK'
    BY <1>1, <1>4 DEF DelWriteResult, TypeOK, Attempts, Results, Calls, Pcs, Replies,
       Outcomes, OwnCallOK, CallShape
  <2>2. StoreGrows
    BY <1>1, <1>4 DEF DelWriteResult, TypeOK, Attempts, Results, Calls, OwnCallOK, CallShape,
       StoreGrows, ReadAttempt, ReadIndex
  <2>3. OwnCallOK(c)' /\ \A d \in Callers \ {c} : call'[d] = call[d]
    BY <1>1, <1>4 DEF DelWriteResult, TypeOK, Attempts, Results, Calls, OwnCallOK, CallShape,
       WritesBehind, ReplyDurable, ReadAttempt, ReadIndex
  <2>4. IndexNeverDangles'
    BY <1>1, <1>4 DEF DelWriteResult, TypeOK, Attempts, Calls, OwnCallOK, CallShape,
       WritesBehind, IndexNeverDangles, ReadAttempt, ReadIndex
  <2>5. DeliveredIsEvidenced'
    BY <1>1, <1>4 DEF DelWriteResult, TypeOK, Attempts, Results, Calls, OwnCallOK, CallShape,
       WritesBehind, DeliveredIsEvidenced, ReadAttempt
  <2> QED
    BY <2>1, <2>2, <2>3, <2>4, <2>5 DEF Step
<1>5. CASE DelWriteExternal(c)
  <2>1. TypeOK'
    BY <1>1, <1>5 DEF DelWriteExternal, TypeOK, Attempts, Results, Calls, Pcs, Replies,
       Outcomes, OwnCallOK, CallShape
  <2>2. StoreGrows
    BY <1>1, <1>5 DEF DelWriteExternal, TypeOK, Attempts, Results, Calls, OwnCallOK, CallShape,
       StoreGrows, ReadAttempt, ReadIndex
  <2>3. OwnCallOK(c)' /\ \A d \in Callers \ {c} : call'[d] = call[d]
    BY <1>1, <1>5 DEF DelWriteExternal, TypeOK, Attempts, Results, Calls, OwnCallOK, CallShape,
       WritesBehind, ReplyDurable, ReadAttempt, ReadIndex
  <2>4. IndexNeverDangles'
    BY <1>1, <1>5 DEF DelWriteExternal, TypeOK, Attempts, Calls, OwnCallOK, CallShape,
       WritesBehind, IndexNeverDangles, ReadAttempt, ReadIndex
  <2>5. DeliveredIsEvidenced'
    BY <1>1, <1>5 DEF DelWriteExternal, TypeOK, Attempts, Results, Calls, OwnCallOK, CallShape,
       WritesBehind, DeliveredIsEvidenced, ReadAttempt
  <2> QED
    BY <2>1, <2>2, <2>3, <2>4, <2>5 DEF Step
<1>6. CASE DelWriteAttempt(c)
  <2>1. call[c].ref \in DeliveryRefs /\ call[c] \in Calls
    BY <1>1, <1>6 DEF DelWriteAttempt, TypeOK, OwnCallOK, CallShape
  <2>2. PICK new \in Attempts :
          new.status = "delivered" /\ attempt' = [attempt EXCEPT ![call[c].ref] = new]
    BY <1>1, <1>6, <2>1 DEF DelWriteAttempt, Attempts, Statuses, OwnCallOK, CallShape
  <2>3. TypeOK'
    <3>1. Ended(call[c].ref, call[c].key, "delivered") \in Calls
      BY <2>1 DEF Calls, Pcs, Replies, Outcomes
    <3> QED
      BY <1>1, <1>6, <2>1, <2>2, <3>1 DEF DelWriteAttempt, TypeOK
  <2>4. StoreGrows
    BY <1>1, <1>6, <2>1, <2>2 DEF DelWriteAttempt, TypeOK, StoreGrows, ReadAttempt, ReadIndex
  <2>5. OwnCallOK(c)' /\ \A d \in Callers \ {c} : call'[d] = call[d]
    BY <1>1, <1>6, <2>1, <2>2 DEF DelWriteAttempt, TypeOK, Calls, OwnCallOK, CallShape,
       WritesBehind, ReplyDurable, ReadAttempt
  <2>6. IndexNeverDangles'
    BY <1>1, <1>6, <2>1, <2>2 DEF DelWriteAttempt, TypeOK, IndexNeverDangles, ReadIndex
  <2>7. DeliveredIsEvidenced'
    BY <1>1, <1>6, <2>1, <2>2 DEF DelWriteAttempt, TypeOK, OwnCallOK, WritesBehind,
       DeliveredIsEvidenced, ReadAttempt
  <2> QED
    BY <2>3, <2>4, <2>5, <2>6, <2>7 DEF Step
<1>7. CASE FailWriteResult(c)
  <2>1. TypeOK'
    BY <1>1, <1>7 DEF FailWriteResult, TypeOK, Attempts, Results, Calls, Pcs, Replies,
       Outcomes, OwnCallOK, CallShape
  <2>2. StoreGrows
    BY <1>1, <1>7 DEF FailWriteResult, TypeOK, Attempts, Results, Calls, OwnCallOK, CallShape,
       StoreGrows, ReadAttempt, ReadIndex
  <2>3. OwnCallOK(c)' /\ \A d \in Callers \ {c} : call'[d] = call[d]
    BY <1>1, <1>7 DEF FailWriteResult, TypeOK, Attempts, Results, Calls, OwnCallOK, CallShape,
       WritesBehind, ReplyDurable, ReadAttempt, ReadIndex
  <2>4. IndexNeverDangles'
    BY <1>1, <1>7 DEF FailWriteResult, TypeOK, Attempts, Calls, OwnCallOK, CallShape,
       WritesBehind, IndexNeverDangles, ReadAttempt, ReadIndex
  <2>5. DeliveredIsEvidenced'
    BY <1>1, <1>7 DEF FailWriteResult, TypeOK, Attempts, Results, Calls, OwnCallOK, CallShape,
       WritesBehind, DeliveredIsEvidenced, ReadAttempt
  <2> QED
    BY <2>1, <2>2, <2>3, <2>4, <2>5 DEF Step
<1>8. CASE FailWriteAttempt(c)
  <2>1. call[c].ref \in DeliveryRefs /\ call[c] \in Calls
    BY <1>1, <1>8 DEF FailWriteAttempt, TypeOK, OwnCallOK, CallShape
  <2>2. PICK new \in Attempts :
          new.status = "failed" /\ attempt' = [attempt EXCEPT ![call[c].ref] = new]
    BY <1>1, <1>8, <2>1 DEF FailWriteAttempt, Attempts, Statuses, OwnCallOK, CallShape
  <2>3. TypeOK'
    <3>1. Ended(call[c].ref, call[c].key, "failed") \in Calls
      BY <2>1 DEF Calls, Pcs, Replies, Outcomes
    <3> QED
      BY <1>1, <1>8, <2>1, <2>2, <3>1 DEF FailWriteAttempt, TypeOK
  <2>4. StoreGrows
    BY <1>1, <1>8, <2>1, <2>2 DEF FailWriteAttempt, TypeOK, StoreGrows, ReadAttempt, ReadIndex
  <2>5. OwnCallOK(c)' /\ \A d \in Callers \ {c} : call'[d] = call[d]
    BY <1>1, <1>8, <2>1, <2>2 DEF FailWriteAttempt, TypeOK, Calls, OwnCallOK, CallShape,
       WritesBehind, ReplyDurable, ReadAttempt
  <2>6. IndexNeverDangles'
    BY <1>1, <1>8, <2>1, <2>2 DEF FailWriteAttempt, TypeOK, IndexNeverDangles, ReadIndex
  <2>7. DeliveredIsEvidenced'
    BY <1>1, <1>8, <2>1, <2>2 DEF FailWriteAttempt, TypeOK, OwnCallOK, WritesBehind,
       DeliveredIsEvidenced, ReadAttempt
  <2> QED
    BY <2>3, <2>4, <2>5, <2>6, <2>7 DEF Step
<1> QED
  BY <1>2, <1>3, <1>4, <1>5, <1>6, <1>7, <1>8

-----------------------------------------------------------------------------
\* What a caller knows about the store is not taken back by another caller.
LEMMA OtherCallsKeep ==
    ASSUME IInv, NEW c \in Callers, Step(c)
    PROVE  CallsOK'
<1>1. SUFFICES ASSUME NEW d \in Callers, d # c
               PROVE  CallShape(d)' /\ WritesBehind(d)' /\ ReplyDurable(d)'
  BY DEF CallsOK, Step, OwnCallOK
<1>2. call'[d] = call[d] /\ StoreGrows /\ CallShape(d) /\ WritesBehind(d) /\ ReplyDurable(d)
  BY <1>1 DEF Step, IInv, CallsOK
<1>3. CallShape(d)'
  BY <1>2 DEF CallShape
<1>4. WritesBehind(d)'
  BY <1>2 DEF WritesBehind, CallShape, StoreGrows, ReadAttempt
<1>5. ReplyDurable(d)'
  BY <1>2 DEF ReplyDurable, CallShape, StoreGrows, ReadAttempt, ReadIndex
<1> QED
  BY <1>3, <1>4, <1>5

LEMMA Initially == Init => IInv
<1> SUFFICES ASSUME Init PROVE IInv
  OBVIOUS
<1> USE DeliveryAssumption DEF Init
<1>1. TypeOK
  BY DEF TypeOK, Calls, Ended, Pcs, Replies, Outcomes
<1>2. IndexNeverDangles
  BY DEF IndexNeverDangles, ReadIndex
<1>3. DeliveredIsEvidenced
  BY DEF DeliveredIsEvidenced, ReadAttempt
<1>4. CallsOK
  BY DEF CallsOK, CallShape, WritesBehind, ReplyDurable, Ended, RegisterPcs, DeliverPcs
<1> QED
  BY <1>1, <1>2, <1>3, <1>4 DEF IInv

LEMMA Inductive == IInv /\ [Next]_vars => IInv'
<1> SUFFICES ASSUME IInv, [Next]_vars PROVE IInv'
  OBVIOUS
<1>1. ASSUME UNCHANGED store PROVE IndexNeverDangles' /\ DeliveredIsEvidenced'
  BY <1>1 DEF IInv, store, IndexNeverDangles, DeliveredIsEvidenced, ReadAttempt, ReadIndex
<1>2. CASE UNCHANGED vars
  <2>1. TypeOK' /\ UNCHANGED store
    BY <1>2 DEF IInv, TypeOK, vars, store
  <2>2. CallsOK'
    BY <1>2 DEF IInv, CallsOK, CallShape, WritesBehind, ReplyDurable, ReadAttempt,
       ReadIndex, vars
  <2> QED
    BY <1>1, <2>1, <2>2 DEF IInv
<1>3. ASSUME NEW c \in Callers, Begin(c) \/ RegisterStep(c) \/ MarkStep(c) \/ Abandon(c)
      PROVE  IInv'
  <2>1. Step(c) /\ IndexNeverDangles' /\ DeliveredIsEvidenced'
    BY <1>1, <1>3, BeginSteps, ReadSteps, WriteSteps DEF RegisterStep, MarkStep
  <2> QED
    BY <2>1, OtherCallsKeep DEF IInv, Step
<1> QED
  BY <1>2, <1>3 DEF Next

\* The store is always well typed, whatever the calls and the lost ones.
THEOREM TypeCorrect == Spec => []TypeOK
<1>1. IInv => TypeOK
  BY DEF IInv
<1> QED
  BY Initially, Inductive, <1>1, PTL DEF Spec

\* Followed from a key, the index always leads to a registered attempt
\* (getAttemptByIdempotencyKey, getResultByIdempotencyKey).
THEOREM NoDanglingIndex == Spec => []IndexNeverDangles
<1>1. IInv => IndexNeverDangles
  BY DEF IInv
<1> QED
  BY Initially, Inductive, <1>1, PTL DEF Spec

\* No interleaving and no lost call leaves an attempt marked delivered without
\* its result and its external message record (markDelivered).
THEOREM DeliveredEvidence == Spec => []DeliveredIsEvidenced
<1>1. IInv => DeliveredIsEvidenced
  BY DEF IInv
<1> QED
  BY Initially, Inductive, <1>1, PTL DEF Spec

\* Whatever registerAttempt, markDelivered and markFailed answered is stored,
\* and no later call of any caller takes it back.
THEOREM DurableReplies == Spec => []ReplyIsDurable
<1>1. IInv => ReplyIsDurable
  BY DEF IInv, CallsOK, ReplyDurable, ReplyIsDurable
<1> QED
  BY Initially, Inductive, <1>1, PTL DEF Spec

-----------------------------------------------------------------------------
(* Calls that do not overlap                                                *)

\* What a call that runs alone has read is still so when it acts on it, and what it has
\* written is there.
Knows(c) ==
    /\ call[c].pc \in {"regReadIndex", "regReadIndexed", "regWriteAttempt"} =>
          ReadAttempt(call[c].ref) = None
    /\ call[c].pc = "regReadIndexed" => ReadIndex(call[c].key) = call[c].ref
    /\ call[c].pc \in {"regWriteAttempt", "regWriteIndex"} =>
          ReadIndex(call[c].key) \in {None, call[c].ref}
    /\ call[c].pc = "regWriteIndex" => attempt[call[c].ref].key = call[c].key
    /\ call[c].pc \in {"delWriteResult", "delWriteExternal", "delWriteAttempt",
                       "failWriteAttempt"} => call[c].attempt = ReadAttempt(call[c].ref)
    /\ call[c].pc \in {"delWriteExternal", "delWriteAttempt"} =>
          result[call[c].ref] = "success"
    /\ call[c].pc \in {"failReadAttempt", "failWriteAttempt"} =>
          result[call[c].ref] = "failure"

\* The result and the index of an attempt fit it, unless c is about to make them.
Agrees(r) ==
    /\ attempt[r].status = "delivered" => result[r] = "success"
    /\ attempt[r].status = "failed" => result[r] = "failure"
MidMark(c, r) ==
    /\ call[c].ref = r
    /\ call[c].pc \in {"delWriteExternal", "delWriteAttempt", "failReadAttempt",
                       "failWriteAttempt"}
FitsBut(c) ==
    \A r \in DeliveryRefs : ReadAttempt(r) # None =>
        /\ Agrees(r) \/ MidMark(c, r)
        /\ ReadIndex(attempt[r].key) = r \/ (At(c, "regWriteIndex") /\ call[c].ref = r)

\* The same, whichever call is the running one.
Fits ==
    \A r \in DeliveryRefs : ReadAttempt(r) # None =>
        /\ Agrees(r) \/ \E c \in Callers : MidMark(c, r)
        /\ \/ ReadIndex(attempt[r].key) = r
           \/ \E c \in Callers : At(c, "regWriteIndex") /\ call[c].ref = r

OthersIdle(c) == \A d \in Callers \ {c} : At(d, "idle")

\* As long as no two calls have overlapped, all but one are idle; as long as none was lost,
\* the store fits but for what the running one is about to write.
SoloInv ==
    ~overlapped =>
        /\ \A c \in Callers : ~At(c, "idle") => OthersIdle(c)
        /\ \A c \in Callers : Knows(c)
        /\ abandoned = 0 => Fits

DInv == IInv /\ SoloInv

\* An attempt once registered keeps its key and target, and does not go back to created.
AttemptsStand ==
    \A r \in DeliveryRefs : ReadAttempt(r) # None =>
        /\ attempt'[r].key = attempt[r].key
        /\ attempt'[r].target = attempt[r].target
        /\ attempt[r].status # "created" => attempt'[r].status # "created"

\* What one step of a caller that runs alone does.
SoloStep(c) ==
    /\ Knows(c)'
    /\ abandoned = 0 /\ abandoned' = 0 /\ FitsBut(c) => FitsBut(c)'
    /\ AttemptsStand

LEMMA SoloBegins ==
    ASSUME IInv, NEW c \in Callers, Begin(c)
    PROVE  SoloStep(c)
<1> USE DEF Begin, RejectInput, BeginRegister, BeginMark, Started, Ended, AfterKey, At
<1>1. UNCHANGED store /\ At(c, "idle")
  OBVIOUS
<1>2. call'[c].pc \in {"idle", "regReadAttempt", "resolveKey", "delReadAttempt",
                       "failWriteResult"}
  BY DEF IInv, TypeOK
<1>3. Knows(c)'
  BY <1>2 DEF Knows
<1>4. FitsBut(c) => FitsBut(c)'
  BY <1>1, <1>2 DEF FitsBut, Agrees, MidMark, ReadAttempt, ReadIndex, store
<1> QED
  BY <1>1, <1>3, <1>4 DEF SoloStep, AttemptsStand, store

\* A read is remembered for the next await.
LEMMA SoloReads ==
    ASSUME IInv, NEW c \in Callers, Knows(c),
           \/ RegReadAttempt(c) \/ RegReadIndex(c) \/ RegReadIndexed(c)
           \/ ResolveKey(c) \/ DelReadAttempt(c) \/ FailReadAttempt(c)
    PROVE  SoloStep(c)
<1> USE DeliveryAssumption
<1> USE DEF At, Goto, Return, Ended, AfterKey
<1>1. UNCHANGED store
  BY DEF RegReadAttempt, RegReadIndex, RegReadIndexed, ResolveKey, DelReadAttempt,
     FailReadAttempt
<1>2. call \in [Callers -> Calls] /\ CallShape(c)
  BY DEF IInv, TypeOK, CallsOK
<1>3. Knows(c)'
  <2>1. CASE RegReadAttempt(c)
    BY <1>1, <1>2, <2>1 DEF RegReadAttempt, Knows, store, ReadAttempt, Calls
  <2>2. CASE RegReadIndex(c)
    BY <1>1, <1>2, <2>2 DEF RegReadIndex, Knows, store, ReadAttempt, ReadIndex, Calls
  <2>3. CASE RegReadIndexed(c)
    BY <1>1, <1>2, <2>3 DEF RegReadIndexed, Knows, store, ReadAttempt, ReadIndex, Calls
  <2>4. CASE ResolveKey(c)
    BY <1>1, <1>2, <2>4 DEF ResolveKey, Knows, store, ReadAttempt, Calls
  <2>5. CASE DelReadAttempt(c)
    BY <1>1, <1>2, <2>5 DEF DelReadAttempt, Knows, store, ReadAttempt, Calls
  <2>6. CASE FailReadAttempt(c)
    BY <1>1, <1>2, <2>6 DEF FailReadAttempt, Knows, store, ReadAttempt, Calls
  <2> QED
    BY <2>1, <2>2, <2>3, <2>4, <2>5, <2>6
<1>4. FitsBut(c) => FitsBut(c)'
  <2>1. CASE FailReadAttempt(c)
    <3>1. \/ ReadAttempt(call[c].ref) = None /\ call'[c].pc = "idle"
          \/ call'[c].ref = call[c].ref /\ call'[c].pc = "failWriteAttempt"
      BY <1>2, <2>1 DEF FailReadAttempt, Calls
    <3>2. call[c].pc = "failReadAttempt"
      BY <2>1 DEF FailReadAttempt
    <3> QED
      BY <1>1, <3>1, <3>2 DEF FitsBut, Agrees, MidMark, store, ReadAttempt, ReadIndex
  <2>2. CASE ~FailReadAttempt(c)
    <3>1. call[c].pc \in {"regReadAttempt", "regReadIndex", "regReadIndexed", "resolveKey",
                          "delReadAttempt"}
      BY <2>2 DEF RegReadAttempt, RegReadIndex, RegReadIndexed, ResolveKey, DelReadAttempt
    <3> QED
      BY <1>1, <3>1 DEF FitsBut, Agrees, MidMark, store, ReadAttempt, ReadIndex
  <2> QED
    BY <2>1, <2>2
<1> QED
  BY <1>1, <1>3, <1>4 DEF SoloStep, AttemptsStand, store

LEMMA SoloRegisters ==
    ASSUME IInv, NEW c \in Callers, Knows(c), RegWriteAttempt(c) \/ RegWriteIndex(c)
    PROVE  SoloStep(c)
<1> USE DeliveryAssumption
<1> USE DEF At, Goto, Return, Ended
<1>1. TypeOK /\ CallShape(c) /\ call[c] \in Calls
  BY DEF IInv, TypeOK, CallsOK
<1>2. CASE RegWriteAttempt(c)
  <2> DEFINE new == [key |-> call[c].key, status |-> "created", target |-> call[c].target]
  <2>1. /\ call[c].ref \in DeliveryRefs /\ new \in Attempts
        /\ attempt' = [attempt EXCEPT ![call[c].ref] = new]
        /\ UNCHANGED <<result, index>>
        /\ ReadAttempt(call[c].ref) = None
        /\ ReadIndex(call[c].key) \in {None, call[c].ref}
    BY <1>1, <1>2 DEF RegWriteAttempt, CallShape, Attempts, Statuses, RegisterPcs, Knows
  <2>2. new.key = call[c].key /\ new.status = "created"
    OBVIOUS
  <2> HIDE DEF new
  <2>3. /\ attempt'[call[c].ref] = new
        /\ \A r \in DeliveryRefs \ {call[c].ref} : attempt'[r] = attempt[r]
    BY <1>1, <2>1 DEF TypeOK
  <2>4. call[c].pc = "regWriteAttempt" /\ call'[c] = [call[c] EXCEPT !.pc = "regWriteIndex"]
    BY <1>1, <1>2 DEF RegWriteAttempt, TypeOK
  <2>5. call'[c].pc = "regWriteIndex" /\ call'[c].ref = call[c].ref /\ call'[c].key = call[c].key
    BY <1>1, <2>4 DEF Calls
  <2>6. Knows(c)'
    BY <2>1, <2>2, <2>3, <2>5 DEF Knows, ReadIndex
  <2>7. FitsBut(c) => FitsBut(c)'
    BY <2>1, <2>2, <2>3, <2>4, <2>5 DEF FitsBut, Agrees, MidMark, ReadAttempt, ReadIndex
  <2>8. AttemptsStand
    BY <2>1, <2>3 DEF AttemptsStand
  <2> QED
    BY <2>6, <2>7, <2>8 DEF SoloStep
<1>3. CASE RegWriteIndex(c)
  <2>1. /\ call[c].ref \in DeliveryRefs /\ call[c].key \in Keys
        /\ index' = [index EXCEPT ![call[c].key] = call[c].ref]
        /\ UNCHANGED <<attempt, result>>
        /\ ReadIndex(call[c].key) \in {None, call[c].ref}
        /\ attempt[call[c].ref].key = call[c].key
        /\ call[c].pc = "regWriteIndex"
    BY <1>1, <1>3 DEF RegWriteIndex, CallShape, RegisterPcs, Knows
  <2>2. call'[c].pc = "idle"
    BY <1>1, <1>3 DEF RegWriteIndex, TypeOK
  <2>3. Knows(c)'
    BY <2>2 DEF Knows
  <2>4. FitsBut(c) => FitsBut(c)'
    <3> SUFFICES ASSUME FitsBut(c), NEW r \in DeliveryRefs, ReadAttempt(r) # None
                 PROVE  Agrees(r) /\ ReadIndex(attempt[r].key)' = r
      BY <2>1, <2>2 DEF FitsBut, Agrees, ReadAttempt
    <3>1. Agrees(r)
      BY <2>1 DEF FitsBut, MidMark
    <3>2. attempt[r].key \in Keys
      BY <1>1 DEF TypeOK, Attempts, ReadAttempt
    <3>3. CASE r = call[c].ref
      <4>1. index'[attempt'[r].key] = r
        BY <3>3, <1>1, <2>1 DEF TypeOK
      <4> QED
        BY <3>1, <4>1 DEF ReadIndex
    <3>4. CASE r # call[c].ref
      <4>1. ReadIndex(attempt[r].key) = r
        BY <3>4 DEF FitsBut
      <4>2. attempt[r].key # call[c].key
        BY <3>4, <4>1, <2>1
      <4>3. index'[attempt'[r].key] = index[attempt[r].key]
        BY <4>2, <3>2, <1>1, <2>1 DEF TypeOK
      <4> QED
        BY <3>1, <4>1, <4>3 DEF ReadIndex
    <3> QED
      BY <3>1, <3>3, <3>4
  <2> QED
    BY <2>1, <2>3, <2>4 DEF SoloStep, AttemptsStand
<1> QED
  BY <1>2, <1>3

\* The first writes of a mark: its result, and the external message.
LEMMA SoloEvidence ==
    ASSUME IInv, NEW c \in Callers, Knows(c),
           DelWriteResult(c) \/ DelWriteExternal(c) \/ FailWriteResult(c)
    PROVE  SoloStep(c)
<1> USE DeliveryAssumption
<1> USE DEF At, Goto, Return, Ended
<1>1. TypeOK /\ CallShape(c) /\ call[c] \in Calls
  BY DEF IInv, TypeOK, CallsOK
<1>2. CASE DelWriteResult(c) \/ FailWriteResult(c)
  <2>1. PICK new \in Results :
            /\ result' = [result EXCEPT ![call[c].ref] = new]
            /\ \/ /\ call[c].pc = "delWriteResult" /\ new = "success"
                  /\ call'[c] = [call[c] EXCEPT !.pc = "delWriteExternal"]
               \/ /\ call[c].pc = "failWriteResult" /\ new = "failure"
                  /\ call'[c] = [call[c] EXCEPT !.pc = "failReadAttempt"]
    BY <1>1, <1>2 DEF DelWriteResult, FailWriteResult, TypeOK, Results
  <2>2. UNCHANGED <<attempt, index>> /\ call[c].ref \in DeliveryRefs
    BY <1>1, <1>2 DEF DelWriteResult, FailWriteResult, CallShape
  <2>3. /\ result'[call[c].ref] = new
        /\ \A r \in DeliveryRefs \ {call[c].ref} : result'[r] = result[r]
    BY <1>1, <2>1, <2>2 DEF TypeOK
  <2>4. /\ call'[c].ref = call[c].ref /\ call'[c].attempt = call[c].attempt
        /\ call'[c].pc = IF new = "success" THEN "delWriteExternal" ELSE "failReadAttempt"
    BY <1>1, <2>1 DEF Calls
  <2>5. Knows(c)'
    BY <2>1, <2>2, <2>3, <2>4 DEF Knows, ReadAttempt
  <2>6. FitsBut(c) => FitsBut(c)'
    BY <2>1, <2>2, <2>3, <2>4 DEF FitsBut, Agrees, MidMark, ReadAttempt, ReadIndex
  <2> QED
    BY <2>2, <2>5, <2>6 DEF SoloStep, AttemptsStand
<1>3. CASE DelWriteExternal(c)
  <2>1. UNCHANGED <<attempt, result, index>> /\ call[c].pc = "delWriteExternal"
        /\ call[c].attempt = ReadAttempt(call[c].ref)
    BY <1>3 DEF DelWriteExternal, Knows
  <2>2. \/ call[c].attempt = None /\ call'[c].pc = "idle"
        \/ /\ call'[c].pc = "delWriteAttempt" /\ call'[c].ref = call[c].ref
           /\ call'[c].attempt = call[c].attempt
    BY <1>1, <1>3 DEF DelWriteExternal, TypeOK, Calls
  <2>3. Knows(c)'
    BY <2>1, <2>2 DEF Knows, ReadAttempt
  <2>4. FitsBut(c) => FitsBut(c)'
    BY <2>1, <2>2 DEF FitsBut, Agrees, MidMark, ReadAttempt, ReadIndex
  <2> QED
    BY <2>1, <2>3, <2>4 DEF SoloStep, AttemptsStand
<1> QED
  BY <1>2, <1>3

\* The last write of a mark changes the status of the attempt that is stored.
LEMMA SoloStatus ==
    ASSUME IInv, NEW c \in Callers, Knows(c), DelWriteAttempt(c) \/ FailWriteAttempt(c)
    PROVE  SoloStep(c)
<1> USE DeliveryAssumption
<1> USE DEF At, Return, Ended
<1>1. TypeOK /\ CallShape(c) /\ call[c] \in Calls
  BY DEF IInv, TypeOK, CallsOK
<1> DEFINE ref == call[c].ref
<1>2. /\ ref \in DeliveryRefs /\ call[c].attempt \in Attempts
      /\ call[c].attempt = ReadAttempt(ref)
      /\ UNCHANGED <<result, index>>
      /\ call[c].pc \in {"delWriteAttempt", "failWriteAttempt"}
  BY <1>1 DEF DelWriteAttempt, FailWriteAttempt, CallShape, Knows
<1>3. attempt[ref] = call[c].attempt
  BY <1>2 DEF ReadAttempt
<1>4. PICK new \in Attempts :
          /\ attempt' = [attempt EXCEPT ![ref] = new]
          /\ new.key = attempt[ref].key /\ new.target = attempt[ref].target
          /\ \/ call[c].pc = "delWriteAttempt" /\ new.status = "delivered"
             \/ call[c].pc = "failWriteAttempt" /\ new.status = "failed"
  BY <1>2, <1>3 DEF DelWriteAttempt, FailWriteAttempt, Attempts, Statuses
<1>5. /\ attempt'[ref] = new
      /\ \A r \in DeliveryRefs \ {ref} : attempt'[r] = attempt[r]
  BY <1>1, <1>2, <1>4 DEF TypeOK
<1>6. call'[c].pc = "idle"
  BY <1>1 DEF DelWriteAttempt, FailWriteAttempt, TypeOK
<1>7. Knows(c)'
  BY <1>6 DEF Knows
<1>8. /\ call[c].pc = "delWriteAttempt" => result[ref] = "success"
      /\ call[c].pc = "failWriteAttempt" => result[ref] = "failure"
  BY DEF Knows
<1>9. FitsBut(c) => FitsBut(c)'
  BY <1>2, <1>3, <1>4, <1>5, <1>6, <1>8 DEF FitsBut, Agrees, MidMark, ReadAttempt, ReadIndex
<1>10. AttemptsStand
  BY <1>4, <1>5 DEF AttemptsStand
<1> QED
  BY <1>7, <1>9, <1>10 DEF SoloStep

LEMMA SoloIsLost ==
    ASSUME IInv, NEW c \in Callers, Abandon(c)
    PROVE  SoloStep(c)
<1>1. /\ call'[c].pc = "idle" /\ UNCHANGED store
      /\ abandoned \in Nat /\ abandoned' = abandoned + 1
  BY DEF Abandon, Ended, IInv, TypeOK
<1>2. abandoned' # 0
  BY <1>1
<1> QED
  BY <1>1, <1>2 DEF SoloStep, Knows, AttemptsStand, store

\* A call that runs has been alone, and one that begins without an overlap is.
LEMMA SoloSteps ==
    ASSUME DInv, ~overlapped', NEW c \in Callers,
           Begin(c) \/ RegisterStep(c) \/ MarkStep(c) \/ Abandon(c)
    PROVE  /\ ~overlapped /\ SoloStep(c)
           /\ At(c, "idle") /\ ~At(c, "idle")' => OthersIdle(c)
<1>1. overlapped \in BOOLEAN
  BY DEF DInv, IInv, TypeOK
<1>2. ~overlapped /\ (At(c, "idle") /\ ~At(c, "idle")' => OthersIdle(c))
  <2>1. CASE RejectInput(c)
    BY <1>1, <2>1 DEF RejectInput, Ended, At, DInv, IInv, TypeOK
  <2>2. CASE Begin(c) /\ ~RejectInput(c)
    <3>1. overlapped' = (overlapped \/ \E d \in Callers : ~At(d, "idle"))
      BY <2>2 DEF Begin, BeginRegister, BeginMark, Reach
    <3> QED
      BY <1>1, <3>1 DEF OthersIdle
  <2>3. CASE ~Begin(c)
    BY <1>1, <2>3
    DEF RegisterStep, MarkStep, Abandon, RegReadAttempt, RegReadIndex, RegReadIndexed,
        RegWriteAttempt, RegWriteIndex, ResolveKey, DelReadAttempt, DelWriteResult,
        DelWriteExternal, DelWriteAttempt, FailWriteResult, FailReadAttempt, FailWriteAttempt, At
  <2> QED
    BY <2>1, <2>2, <2>3
<1>3. IInv /\ Knows(c)
  BY <1>2 DEF DInv, SoloInv
<1>4. SoloStep(c)
  BY <1>3, SoloBegins, SoloReads, SoloRegisters, SoloEvidence, SoloStatus, SoloIsLost
  DEF RegisterStep, MarkStep
<1> QED
  BY <1>2, <1>4

\* A caller that stays idle has only had an input refused.
LEMMA IdleStepsKeep ==
    ASSUME NEW c \in Callers, At(c, "idle"), At(c, "idle")', IInv,
           Begin(c) \/ RegisterStep(c) \/ MarkStep(c) \/ Abandon(c)
    PROVE  UNCHANGED store
<1>1. CASE RejectInput(c) \/ Abandon(c)
  BY <1>1 DEF RejectInput, Abandon
<1>2. CASE Begin(c) /\ ~RejectInput(c)
  <2>1. call'[c].pc # "idle"
    BY <1>2 DEF Begin, BeginRegister, BeginMark, Started, AfterKey, IInv, TypeOK
  <2> QED
    BY <2>1 DEF At
<1>3. CASE RegisterStep(c) \/ MarkStep(c)
  BY <1>3
  DEF At, RegisterStep, MarkStep, RegReadAttempt, RegReadIndex, RegReadIndexed,
      RegWriteAttempt, RegWriteIndex, ResolveKey, DelReadAttempt, DelWriteResult,
      DelWriteExternal, DelWriteAttempt, FailWriteResult, FailReadAttempt, FailWriteAttempt
<1> QED
  BY <1>1, <1>2, <1>3

LEMMA SoloInductive ==
    ASSUME DInv, [Next]_vars
    PROVE  DInv' /\ (~overlapped' /\ ~UNCHANGED vars => AttemptsStand)
<1>1. IInv'
  BY Inductive DEF DInv
<1>2. CASE UNCHANGED vars
  <2>1. SoloInv'
    BY <1>2 DEF DInv, SoloInv, vars, store, OthersIdle, Knows, Fits, Agrees, MidMark, At,
       ReadAttempt, ReadIndex
  <2> QED
    BY <1>1, <1>2, <2>1 DEF DInv
<1>3. CASE overlapped'
  BY <1>1, <1>3 DEF DInv, SoloInv
<1>4. ASSUME ~overlapped', NEW c \in Callers,
             Begin(c) \/ RegisterStep(c) \/ MarkStep(c) \/ Abandon(c)
      PROVE  SoloInv' /\ AttemptsStand
  <2>1. /\ ~overlapped /\ SoloStep(c)
        /\ At(c, "idle") /\ ~At(c, "idle")' => OthersIdle(c)
    BY <1>4, SoloSteps
  <2>2. \A d \in Callers \ {c} : call'[d] = call[d]
    BY <1>4, BeginSteps, ReadSteps, WriteSteps DEF DInv, Step, RegisterStep, MarkStep
  <2>3. abandoned' = 0 => abandoned = 0
    <3>1. CASE Abandon(c)
      BY <3>1 DEF Abandon, DInv, IInv, TypeOK
    <3>2. CASE ~Abandon(c)
      <4>1. abandoned' = abandoned
        BY <1>4, <3>2
        DEF Begin, RejectInput, BeginRegister, BeginMark, RegisterStep, MarkStep,
            RegReadAttempt, RegReadIndex, RegReadIndexed, RegWriteAttempt, RegWriteIndex,
            ResolveKey, DelReadAttempt, DelWriteResult, DelWriteExternal, DelWriteAttempt,
            FailWriteResult, FailReadAttempt, FailWriteAttempt
      <4> QED
        BY <4>1
    <3> QED
      BY <3>1, <3>2
  <2>4. ASSUME NEW d \in Callers, ~At(d, "idle")' PROVE OthersIdle(d)'
    <3>1. CASE d = c
      BY <2>1, <2>2, <2>4, <3>1 DEF DInv, SoloInv, OthersIdle, At
    <3>2. CASE d # c
      <4>1. At(c, "idle") /\ OthersIdle(d)
        BY <2>1, <2>2, <2>4, <3>2 DEF DInv, SoloInv, OthersIdle, At
      <4>2. At(c, "idle")'
        BY <2>1, <2>2, <2>4, <3>2, <4>1 DEF OthersIdle, At
      <4> QED
        BY <2>2, <4>1, <4>2 DEF OthersIdle, At
    <3> QED
      BY <3>1, <3>2
  <2>5. ASSUME NEW d \in Callers PROVE Knows(d)'
    <3>1. CASE d = c
      BY <2>1, <3>1 DEF SoloStep
    <3>2. CASE At(d, "idle")'
      BY <3>2 DEF Knows, At
    <3>3. CASE d # c /\ ~At(d, "idle")'
      <4>1. At(c, "idle") /\ At(c, "idle")'
        BY <2>1, <2>2, <2>4, <3>3 DEF DInv, SoloInv, OthersIdle, At
      <4>2. UNCHANGED store
        BY <1>4, <4>1, IdleStepsKeep DEF DInv
      <4> QED
        BY <2>1, <2>2, <3>3, <4>2 DEF DInv, SoloInv, Knows, store, ReadAttempt, ReadIndex
    <3> QED
      BY <3>1, <3>2, <3>3
  <2>6. ASSUME abandoned' = 0 PROVE Fits'
    <3>1. abandoned = 0 /\ Fits
      BY <2>1, <2>3, <2>6 DEF DInv, SoloInv
    <3>2. CASE At(c, "idle") /\ At(c, "idle")'
      <4>1. UNCHANGED store
        BY <1>4, <3>2, IdleStepsKeep DEF DInv
      <4> QED
        BY <2>2, <3>1, <3>2, <4>1
        DEF Fits, Agrees, MidMark, At, store, ReadAttempt, ReadIndex
    <3>3. CASE ~(At(c, "idle") /\ At(c, "idle")')
      <4>1. OthersIdle(c)
        BY <2>1, <3>3 DEF DInv, SoloInv
      <4>2. FitsBut(c)
        BY <3>1, <4>1 DEF Fits, FitsBut, OthersIdle, MidMark, At
      <4>3. FitsBut(c)'
        BY <2>1, <2>6, <3>1, <4>2 DEF SoloStep
      <4> QED
        BY <4>3, <1>4 DEF Fits, FitsBut
    <3> QED
      BY <3>2, <3>3
  <2> QED
    BY <2>1, <2>4, <2>5, <2>6 DEF SoloInv, SoloStep
<1> QED
  BY <1>1, <1>2, <1>3, <1>4 DEF Next, DInv

LEMMA AlwaysSolo == Spec => []DInv
<1>1. Init => DInv
  <2> SUFFICES ASSUME Init PROVE DInv
    OBVIOUS
  <2>1. IInv
    BY Initially
  <2>2. \A c \in Callers : At(c, "idle") /\ Knows(c)
    BY DEF Init, Ended, At, Knows
  <2>3. Fits
    BY DEF Init, Fits, ReadAttempt
  <2> QED
    BY <2>1, <2>2, <2>3 DEF DInv, SoloInv
<1>2. DInv /\ [Next]_vars => DInv'
  BY SoloInductive
<1> QED
  BY <1>1, <1>2, PTL DEF Spec

\* What calls that do not overlap and are not lost leave behind fits together: a settled
\* attempt has the result its status says, and its key leads back to it.  Each mark writes
\* the result before the attempt and each registration the attempt before the index
\* (durable-delivery-store.ts): between the two writes the store does not fit, and only the
\* caller that runs can tell.
THEOREM SettledAgrees == Spec => []SettledStoreAgrees
<1>1. DInv => SettledStoreAgrees
  <2> SUFFICES ASSUME DInv, Settled, NEW r \in DeliveryRefs, ReadAttempt(r) # None
               PROVE  /\ Agrees(r)
                      /\ ReadIndex(attempt[r].key) = r
                      /\ GetResultByIdempotencyKey(attempt[r].key) = result[r]
    BY DEF SettledStoreAgrees, SettledAgreement, RegisteredIsIndexed, Agrees
  <2>1. Fits /\ \A c \in Callers : At(c, "idle")
    BY DEF DInv, SoloInv, Settled, Quiet
  <2>2. Agrees(r) /\ ReadIndex(attempt[r].key) = r
    BY <2>1 DEF Fits, MidMark, At
  <2>3. r # None
    BY DeliveryAssumption
  <2> QED
    BY <2>2, <2>3 DEF GetResultByIdempotencyKey
<1> QED
  BY <1>1, AlwaysSolo, PTL

\* A registration that runs alone never re-registers an attempt: it has read that the
\* record is absent, and nothing has written it since.
THEOREM NeverReregistered == Spec => AttemptNeverReregistered
<1>1. DInv /\ [Next]_vars =>
        [~overlapped' =>
            \A r \in DeliveryRefs : ReadAttempt(r) # None =>
                /\ attempt'[r].key = attempt[r].key
                /\ attempt'[r].target = attempt[r].target
                /\ attempt[r].status # "created" => attempt'[r].status # "created"]_vars
  BY SoloInductive DEF AttemptsStand
<1> QED
  BY <1>1, AlwaysSolo, PTL DEF Spec, AttemptNeverReregistered
=============================================================================

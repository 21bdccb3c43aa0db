------------------------ MODULE CallbackBoundaryProofs ------------------------
(***************************************************************************)
(* Proofs about CallbackTokenRecords, for any sets of handles and refs and  *)
(* any sequence of operations, and about CallbackBoundary over it, for any  *)
(* number of tokens and callbacks, and of port calls that take effect and   *)
(* reject.                                                                  *)
(***************************************************************************)
EXTENDS CallbackBoundary, TLAPS

-----------------------------------------------------------------------------
(* The records of the tokens                                                *)

\* What the stamps of a record say of its status.
SoundRecord(rec) ==
    /\ rec.status = "issued" => rec.stamps = {}
    /\ rec.status = "verified" => rec.stamps = {"verified"}
    /\ rec.status = "consumed" =>
          rec.stamps = {"verified", "consumed"} /\ rec.permission = "allowed"
    /\ rec.status \in {"permission-denied", "failed"} =>
          rec.stamps \cap {"denied", "failed"} # {}

RecordsSound == \A r \in Refs : record[r] # None => SoundRecord(record[r])

\* The inductive invariant.
IInv == TypeOK /\ HandlesOwnRecords /\ ConsumedOnce /\ RecordsSound

\* An operation that leaves the tokens alone.
Quiet == tokens' = tokens /\ fresh' = fresh

\* An operation that gives an unknown handle a record.
Issued(h, r) ==
    /\ refOf[h] = None /\ record[r] = None
    /\ refOf' = [refOf EXCEPT ![h] = r]
    /\ record' = [record EXCEPT ![r] = IssuedRecord]
    /\ fresh' = fresh

\* A record may be replaced by one that is sound and undoes no outcome.
MayBecome(old, new) ==
    /\ new \in Records
    /\ SoundRecord(new)
    /\ old.stamps \cap {"denied", "failed"} # {}
          => new.status \in {"permission-denied", "failed"}
    /\ old.status = "consumed" => new.status = "consumed"

\* An operation that replaces the record of a known handle.
Updated(h, new) ==
    /\ Known(h)
    /\ refOf' = refOf
    /\ record' = [record EXCEPT ![refOf[h]] = new]
    /\ MayBecome(Lookup(h), new)
    /\ \/ /\ fresh' = fresh
          /\ new.status = "consumed" <=> Lookup(h).status = "consumed"
          /\ new.attempts = new.duplicates + fresh[h]
       \/ /\ Lookup(h).status \in {"issued", "verified"} /\ new.status = "consumed"
          /\ fresh' = [fresh EXCEPT ![h] = 1]
          /\ new.attempts = new.duplicates + 1

-----------------------------------------------------------------------------
\* A handle that is known has a typed and sound record.
LEMMA KnownRecord ==
    ASSUME IInv, NEW h \in Handles, Known(h)
    PROVE  /\ refOf[h] \in Refs
           /\ Lookup(h) = record[refOf[h]]
           /\ Lookup(h) \in Records
           /\ SoundRecord(Lookup(h))
           /\ StatusOf(h) = Lookup(h).status
           /\ fresh[h] = IF Lookup(h).status = "consumed" THEN 1 ELSE 0
           /\ Lookup(h).attempts = Lookup(h).duplicates + fresh[h]
  BY TokenAssumption
  DEF IInv, TypeOK, Known, Lookup, StatusOf, HandlesOwnRecords, ConsumedOnce, RecordsSound

LEMMA VerifyKind ==
    ASSUME IInv, NEW h \in Handles, Verify(h)
    PROVE  Quiet \/ \E new \in Records : Updated(h, new)
<1>1. CASE Unknown(h) \/ answer' \in {"already-verified", "conflict"}
  BY <1>1 DEF Verify, Unknown, Answered, Quiet
<1>2. CASE StatusOf(h) = "issued" /\ Write(h, VerifiedRecord(Lookup(h))) /\ UNCHANGED fresh
  <2> DEFINE new == VerifiedRecord(Lookup(h))
  <2>1. Known(h)
    BY <1>2 DEF StatusOf
  <2>2. new \in Records /\ SoundRecord(new) /\ Updated(h, new)
    BY <1>2, <2>1, KnownRecord
    DEF VerifiedRecord, Marked, Records, Statuses, Stages, SoundRecord, Updated, MayBecome, Write
  <2> QED
    BY <2>2
<1> QED
  BY <1>1, <1>2 DEF Verify, Answered

LEMMA ConsumeKind ==
    ASSUME IInv, NEW h \in Handles, NEW p \in Permissions, Consume(h, p)
    PROVE  Quiet \/ \E new \in Records : Updated(h, new)
<1>1. CASE Unknown(h) \/ answer' \in {"permission-denied", "threw", "conflict"}
  BY <1>1 DEF Consume, Unknown, Answered, Quiet
<1>2. CASE StatusOf(h) = "consumed" /\ Write(h, ReplayedRecord(Lookup(h))) /\ UNCHANGED fresh
  <2> DEFINE new == ReplayedRecord(Lookup(h))
  <2>1. Known(h)
    BY <1>2 DEF StatusOf
  <2>2. /\ new \in Records
        /\ SoundRecord(new)
        /\ new.status = "consumed"
        /\ new.attempts = new.duplicates + fresh[h]
    BY <1>2, <2>1, KnownRecord DEF ReplayedRecord, Counted, Records, SoundRecord
  <2>3. Lookup(h).stamps \cap {"denied", "failed"} = {}
    BY <1>2, <2>1, KnownRecord DEF SoundRecord
  <2> QED
    BY <1>2, <2>1, <2>2, <2>3, KnownRecord DEF Updated, MayBecome, Write
<1>3. CASE /\ StatusOf(h) = "verified" /\ Write(h, ConsumedRecord(Lookup(h)))
           /\ fresh' = [fresh EXCEPT ![h] = IF @ = 0 THEN 1 ELSE 2]
  <2> DEFINE new == ConsumedRecord(Lookup(h))
  <2>1. Known(h)
    BY <1>3 DEF StatusOf
  <2>2. /\ new \in Records
        /\ SoundRecord(new)
        /\ new.status = "consumed"
        /\ new.attempts = new.duplicates + 1
    BY <1>3, <2>1, KnownRecord
    DEF ConsumedRecord, Counted, Marked, Records, SoundRecord, Statuses, Stages, Permissions
  <2>3. Lookup(h).stamps \cap {"denied", "failed"} = {} /\ fresh[h] = 0
    BY <1>3, <2>1, KnownRecord DEF SoundRecord
  <2>4. fresh' = [fresh EXCEPT ![h] = 1]
    BY <1>3, <2>3 DEF IInv, TypeOK
  <2> QED
    BY <1>3, <2>1, <2>2, <2>3, <2>4, KnownRecord DEF Updated, MayBecome, Write
<1> QED
  BY <1>1, <1>2, <1>3 DEF Consume, Answered

LEMMA DenyKind ==
    ASSUME IInv, NEW h \in Handles, NEW p \in Permissions, Deny(h, p)
    PROVE  Quiet \/ \E new \in Records : Updated(h, new)
<1>1. CASE Unknown(h) \/ answer' \in {"conflict", "already-denied", "invalid-input"}
  BY <1>1 DEF Deny, Unknown, Answered, Quiet
<1>2. CASE /\ StatusOf(h) \in {"issued", "verified", "failed"}
           /\ Write(h, DeniedRecord(Lookup(h))) /\ UNCHANGED fresh
  <2> DEFINE new == DeniedRecord(Lookup(h))
  <2>1. Known(h)
    BY <1>2 DEF StatusOf
  <2>2. new \in Records /\ SoundRecord(new) /\ new.status = "permission-denied"
    BY <2>1, KnownRecord DEF DeniedRecord, Marked, Records, SoundRecord, Statuses, Stages, Permissions
  <2>3. new.attempts = new.duplicates + fresh[h]
    BY <2>1, KnownRecord DEF DeniedRecord, Marked, Records
  <2> QED
    BY <1>2, <2>1, <2>2, <2>3, KnownRecord DEF Updated, MayBecome, Write
<1> QED
  BY <1>1, <1>2 DEF Deny, Answered

LEMMA FailKind ==
    ASSUME IInv, NEW h \in Handles, Fail(h)
    PROVE  Quiet \/ \E new \in Records : Updated(h, new)
<1>1. CASE Unknown(h) \/ answer' = "conflict"
  BY <1>1 DEF Fail, Unknown, Answered, Quiet
<1>2. CASE /\ StatusOf(h) \in Statuses \ {"consumed"}
           /\ Write(h, FailedRecord(Lookup(h))) /\ UNCHANGED fresh
  <2> DEFINE new == FailedRecord(Lookup(h))
  <2>1. Known(h)
    BY <1>2 DEF StatusOf, Statuses
  <2>2. new \in Records /\ SoundRecord(new) /\ new.status = "failed"
    BY <2>1, KnownRecord DEF FailedRecord, Marked, Records, SoundRecord, Statuses, Stages
  <2>3. new.attempts = new.duplicates + fresh[h]
    BY <2>1, KnownRecord DEF FailedRecord, Marked, Records
  <2> QED
    BY <1>2, <2>1, <2>2, <2>3, KnownRecord DEF Updated, MayBecome, Write
<1> QED
  BY <1>1, <1>2 DEF Fail, Answered

LEMMA IssueKind ==
    ASSUME IInv, NEW h \in Handles, NEW r \in Refs, Issue(h, r)
    PROVE  Quiet \/ Issued(h, r)
<1>1. CASE Known(h) \/ record[r] # None
  BY <1>1 DEF Issue, Answered, Quiet
<1>2. CASE ~Known(h) /\ record[r] = None
  <2>1. refOf[h] = None
    BY <1>2 DEF Known, Lookup, IInv, TypeOK, HandlesOwnRecords
  <2> QED
    BY <1>2, <2>1 DEF Issue, Answered, Issued
<1> QED
  BY <1>1, <1>2

-----------------------------------------------------------------------------
\* What the kinds of operation keep; the answer is typed by itself.
LEMMA QuietKeeps ==
    ASSUME IInv, Quiet, answer' \in Answers
    PROVE  IInv'
  BY DEF Quiet, tokens, IInv, TypeOK, HandlesOwnRecords, ConsumedOnce, RecordsSound,
     StatusOf, Known, Lookup

LEMMA IssuedKeeps ==
    ASSUME IInv, NEW h \in Handles, NEW r \in Refs, Issued(h, r), answer' \in Answers
    PROVE  IInv'
<1> USE TokenAssumption
<1>1. IssuedRecord \in Records /\ SoundRecord(IssuedRecord)
  BY DEF IssuedRecord, Records, Statuses, Stages, SoundRecord
<1>2. TypeOK'
  BY <1>1 DEF IInv, TypeOK, Issued
<1>3. \A g \in Handles : refOf[g] # r
  BY DEF IInv, TypeOK, HandlesOwnRecords, Issued
<1>4. HandlesOwnRecords'
  BY <1>1, <1>3 DEF IInv, TypeOK, HandlesOwnRecords, Issued
<1>5. RecordsSound'
  BY <1>1 DEF IInv, TypeOK, RecordsSound, Issued
<1>6. ConsumedOnce'
  <2>1. Lookup(h)' = IssuedRecord /\ fresh[h] = 0
    BY DEF IInv, TypeOK, Issued, Lookup, ConsumedOnce, StatusOf, Known
  <2>2. \A g \in Handles \ {h} : Lookup(g)' = Lookup(g)
    BY <1>3 DEF IInv, TypeOK, Issued, Lookup
  <2> QED
    BY <1>1, <2>1, <2>2
    DEF IInv, TypeOK, ConsumedOnce, StatusOf, Known, Issued, IssuedRecord
<1> QED
  BY <1>2, <1>4, <1>5, <1>6 DEF IInv

LEMMA UpdatedKeeps ==
    ASSUME IInv, NEW h \in Handles, NEW new \in Records, Updated(h, new), answer' \in Answers
    PROVE  IInv'
<1> USE TokenAssumption
<1>1. refOf[h] \in Refs /\ new # None
  BY KnownRecord DEF Updated
<1>2. TypeOK'
  BY <1>1 DEF IInv, TypeOK, Updated
<1>3. HandlesOwnRecords'
  BY <1>1 DEF IInv, TypeOK, HandlesOwnRecords, Updated
<1>4. RecordsSound'
  BY <1>1 DEF IInv, TypeOK, RecordsSound, Updated, MayBecome
<1>5. Lookup(h)' = new
  BY <1>1 DEF IInv, TypeOK, Updated, Lookup
<1>6. \A g \in Handles \ {h} : Lookup(g)' = Lookup(g) /\ fresh'[g] = fresh[g]
  BY <1>1 DEF IInv, TypeOK, HandlesOwnRecords, Updated, Lookup
<1>7. /\ fresh'[h] = IF new.status = "consumed" THEN 1 ELSE 0
      /\ new.attempts = new.duplicates + fresh'[h]
  BY KnownRecord DEF Updated, IInv, TypeOK
<1>8. ConsumedOnce'
  BY <1>1, <1>5, <1>6, <1>7 DEF IInv, ConsumedOnce, StatusOf, Known
<1> QED
  BY <1>2, <1>3, <1>4, <1>8 DEF IInv

LEMMA Initially == Init => IInv
  BY TokenAssumption
  DEF Init, IInv, TypeOK, HandlesOwnRecords, ConsumedOnce, RecordsSound, StatusOf,
      Known, Lookup, Answers

LEMMA AnswerTyped ==
    ASSUME Next
    PROVE  answer' \in Answers
  BY DEF Next, RejectInput, Operation, Issue, Verify, Consume, Deny, Fail, Unknown,
     Answered, Answers

\* What one operation does, in the terms of the three kinds.
LEMMA OperationKind ==
    ASSUME IInv, NEW h \in Handles, Operation(h)
    PROVE  \/ Quiet
           \/ \E r \in Refs : Issued(h, r)
           \/ \E new \in Records : Updated(h, new)
  BY VerifyKind, ConsumeKind, DenyKind, FailKind, IssueKind DEF Operation

LEMMA NextKind ==
    ASSUME IInv, Next
    PROVE  \/ Quiet
           \/ \E h \in Handles, r \in Refs : Issued(h, r)
           \/ \E h \in Handles, new \in Records : Updated(h, new)
<1>1. CASE RejectInput
  BY <1>1 DEF RejectInput, Answered, Quiet
<1>2. CASE \E h \in Handles : Operation(h)
  BY <1>2, OperationKind
<1> QED
  BY <1>1, <1>2 DEF Next

LEMMA Inductive == IInv /\ [Next]_tokenVars => IInv'
<1> SUFFICES ASSUME IInv, [Next]_tokenVars PROVE IInv'
  OBVIOUS
<1>1. CASE Next
  BY <1>1, AnswerTyped, NextKind, QuietKeeps, IssuedKeeps, UpdatedKeeps
<1>2. CASE UNCHANGED tokenVars
  BY <1>2, QuietKeeps DEF tokenVars, Quiet, tokens, IInv, TypeOK
<1> QED
  BY <1>1, <1>2

LEMMA Invariance == Spec => []IInv
  BY Initially, Inductive, PTL DEF Spec

-----------------------------------------------------------------------------
\* Types are kept: handles, records, counters and answers.
THEOREM TypeCorrect == Spec => []TypeOK
<1>1. IInv => TypeOK
  BY DEF IInv
<1> QED
  BY <1>1, Invariance, PTL

\* No two tokens share a record, whatever refs they are issued under.
THEOREM OwnRecords == Spec => []HandlesOwnRecords
<1>1. IInv => HandlesOwnRecords
  BY DEF IInv
<1> QED
  BY <1>1, Invariance, PTL

\* A token answers consumedThisAttempt once, however often it is consumed.
THEOREM ConsumeOnce == Spec => []ConsumedOnce
<1>1. IInv => ConsumedOnce
  BY DEF IInv
<1> QED
  BY <1>1, Invariance, PTL

\* A consumed token was verified and was never denied and never failed.
THEOREM CleanConsumption == Spec => []ConsumedIsClean
<1>1. IInv => ConsumedIsClean
  BY DEF IInv, ConsumedIsClean, RecordsSound, SoundRecord
<1> QED
  BY <1>1, Invariance, PTL

\* No operation undoes a denial, a failure or a consumption.
THEOREM FinalOutcome == Spec => OutcomeIsFinal
<1> DEFINE Final ==
      \A r \in Refs : record[r] # None =>
        /\ record[r].stamps \cap {"denied", "failed"} # {}
              => record'[r].status \in {"permission-denied", "failed"}
        /\ record[r].status = "consumed" => record'[r].status = "consumed"
<1>1. ASSUME IInv, Next PROVE Final \/ UNCHANGED tokenVars
  <2>1. CASE Quiet
    BY <2>1, <1>1, TokenAssumption
    DEF Quiet, tokens, IInv, TypeOK, RecordsSound, SoundRecord, Records, Statuses
  <2>2. ASSUME NEW h \in Handles, NEW r \in Refs, Issued(h, r) PROVE Final
    BY <2>2, <1>1, TokenAssumption
    DEF Issued, IInv, TypeOK, RecordsSound, SoundRecord, Records, Statuses
  <2>3. ASSUME NEW h \in Handles, NEW new \in Records, Updated(h, new) PROVE Final
    <3>1. refOf[h] \in Refs /\ Lookup(h) = record[refOf[h]]
      BY <1>1, <2>3, KnownRecord DEF Updated
    <3> QED
      BY <2>3, <3>1, <1>1, TokenAssumption
      DEF Updated, MayBecome, IInv, TypeOK, RecordsSound, SoundRecord, Records, Statuses
  <2> QED
    BY <1>1, <2>1, <2>2, <2>3, NextKind
<1>2. IInv /\ [Next]_tokenVars => [Final]_tokenVars
  BY <1>1
<1> QED
  BY <1>2, Invariance, PTL DEF Spec, OutcomeIsFinal

-----------------------------------------------------------------------------
(* The boundary and the token flow                                          *)

CallsTyped ==
    /\ call \in [Callers -> Callbacks]
    /\ \A c \in Callers : call[c].pc \in {"verify", "consume"} => call[c].handle \in Handles

\* Acceptances are bounded by the consumptions the store has answered.
AcceptedWasFresh ==
    /\ accepted \in [Handles -> 0..2]
    /\ \A h \in Handles : accepted[h] <= fresh[h]

\* The inductive invariant.
BInv == IInv /\ CallsTyped /\ AcceptedWasFresh /\ lost \in Nat

\* What a step may do to the store: its invariant, and fresh answers only grow.
StoreStep == IInv' /\ \A h \in Handles : fresh[h] <= fresh'[h]

-----------------------------------------------------------------------------
LEMMA UpdatedGrows ==
    ASSUME IInv, NEW h \in Handles, NEW new \in Records, Updated(h, new), answer' \in Answers
    PROVE  StoreStep
<1>1. IInv'
  BY UpdatedKeeps
<1>2. \A g \in Handles : fresh[g] <= fresh'[g]
  BY KnownRecord DEF Updated, IInv, TypeOK
<1> QED
  BY <1>1, <1>2 DEF StoreStep

LEMMA OperationGrows ==
    ASSUME IInv, NEW h \in Handles, Operation(h)
    PROVE  StoreStep
<1>1. answer' \in Answers
  BY AnswerTyped DEF Next
<1>2. CASE Quiet
  <2>1. IInv'
    BY <1>1, <1>2, QuietKeeps
  <2>2. fresh' = fresh /\ fresh \in [Handles -> 0..2]
    BY <1>2 DEF Quiet, IInv, TypeOK
  <2> QED
    BY <2>1, <2>2 DEF StoreStep
<1>3. ASSUME NEW r \in Refs, Issued(h, r) PROVE StoreStep
  <2>1. IInv'
    BY <1>1, <1>3, IssuedKeeps
  <2>2. fresh' = fresh /\ fresh \in [Handles -> 0..2]
    BY <1>3 DEF Issued, IInv, TypeOK
  <2> QED
    BY <2>1, <2>2 DEF StoreStep
<1>4. ASSUME NEW new \in Records, Updated(h, new) PROVE StoreStep
  BY <1>1, <1>4, UpdatedGrows
<1> QED
  BY <1>2, <1>3, <1>4, OperationKind

LEMMA RejectGrows ==
    ASSUME IInv, RejectInput
    PROVE  StoreStep
<1>1. Quiet /\ answer' \in Answers
  BY DEF RejectInput, Answered, Quiet, Answers
<1>2. IInv'
  BY <1>1, QuietKeeps
<1> QED
  BY <1>1, <1>2 DEF StoreStep, Quiet, IInv, TypeOK

LEMMA UnchangedGrows ==
    ASSUME IInv, UNCHANGED tokenVars
    PROVE  StoreStep
  BY QuietKeeps DEF tokenVars, Quiet, tokens, StoreStep, IInv, TypeOK

\* A token that is verified and consumed in one step becomes consumed afresh.
LEMMA FlowGrows ==
    ASSUME IInv, NEW h \in Handles, RunFlow(h)
    PROVE  StoreStep /\ fresh[h] = 0 /\ fresh'[h] = 1
<1> DEFINE mid == VerifiedRecord(Lookup(h))
<1> DEFINE new == ConsumedRecord(mid)
<1>1. Known(h)
  BY DEF RunFlow, StatusOf
<1>2. Lookup(h).status \in {"issued", "verified"} /\ fresh[h] = 0
  BY <1>1, KnownRecord DEF RunFlow
<1>3. /\ new \in Records
      /\ SoundRecord(new)
      /\ new.status = "consumed"
      /\ new.attempts = new.duplicates + 1
  <2>1. mid \in Records /\ mid.stamps = {"verified"} /\ mid.attempts = mid.duplicates
    BY <1>1, <1>2, KnownRecord
    DEF VerifiedRecord, Marked, Records, SoundRecord, Statuses, Stages
  <2> HIDE DEF mid
  <2> QED
    BY <2>1
    DEF ConsumedRecord, Counted, Marked, Records, SoundRecord, Statuses, Stages, Permissions
<1>4. Lookup(h).stamps \cap {"denied", "failed"} = {}
  BY <1>1, <1>2, KnownRecord DEF SoundRecord
<1>5. fresh' = [fresh EXCEPT ![h] = 1] /\ answer' \in Answers
  BY <1>2 DEF RunFlow, IInv, TypeOK, Answers
<1>6. Updated(h, new)
  BY <1>1, <1>2, <1>3, <1>4, <1>5 DEF Updated, MayBecome, RunFlow, Write
<1> QED
  BY <1>2, <1>3, <1>5, <1>6, UpdatedGrows DEF IInv, TypeOK

\* An acceptance of a token the store consumed afresh keeps the bound.
LEMMA AcceptFresh ==
    ASSUME BInv, StoreStep, NEW h \in Handles, Accept(h), fresh[h] = 0, fresh'[h] = 1
    PROVE  AcceptedWasFresh'
<1>1. accepted[h] = 0
  BY DEF BInv, AcceptedWasFresh
<1>2. accepted' = [accepted EXCEPT ![h] = 1]
  BY <1>1 DEF Accept, BInv, AcceptedWasFresh
<1> QED
  BY <1>2 DEF BInv, AcceptedWasFresh, StoreStep, IInv, TypeOK

LEMMA AcceptNone ==
    ASSUME BInv, StoreStep, UNCHANGED accepted
    PROVE  AcceptedWasFresh'
  BY DEF BInv, AcceptedWasFresh, StoreStep, IInv, TypeOK

\* A decision ends a callback.
LEMMA DecideTyped ==
    ASSUME BInv, NEW c \in Callers, NEW d \in Decisions, Decide(c, d)
    PROVE  CallsTyped'
  BY DEF BInv, CallsTyped, Decide, Ended, Callbacks

LEMMA GotoTyped ==
    ASSUME BInv, NEW c \in Callers, NEW p \in {"verify", "consume"}, Goto(c, p),
           call[c].handle \in Handles
    PROVE  CallsTyped'
  BY DEF BInv, CallsTyped, Goto, Callbacks

-----------------------------------------------------------------------------
LEMMA CallbackKeeps ==
    ASSUME BInv, NEW c \in Callers, CallbackStep(c)
    PROVE  BInv'
<1> USE BoundaryAssumption
<1> DEFINE h == call[c].handle
<1>a. At(c, "verify") \/ At(c, "consume") => h \in Handles
  BY DEF At, BInv, CallsTyped
<1>1. CASE ReceiveInvalid(c)
  <2>1. StoreStep /\ AcceptedWasFresh'
    BY <1>1, UnchangedGrows, AcceptNone DEF ReceiveInvalid, BInv
  <2>2. CallsTyped'
    BY <1>1 DEF ReceiveInvalid, BInv, CallsTyped, Ended, Callbacks, Decisions
  <2> QED
    BY <1>1, <2>1, <2>2 DEF BInv, StoreStep, ReceiveInvalid
<1>2. ASSUME NEW g \in Handles \cup {None}, Receive(c, g) PROVE BInv'
  <2>1. StoreStep /\ AcceptedWasFresh'
    BY <1>2, UnchangedGrows, AcceptNone DEF Receive, BInv
  <2>2. CallsTyped'
    BY <1>2 DEF Receive, BInv, CallsTyped, Callbacks, Decisions
  <2> QED
    BY <1>2, <2>1, <2>2 DEF BInv, StoreStep, Receive
<1>3. CASE CheckPermission(c)
  <2>1. StoreStep /\ AcceptedWasFresh'
    BY <1>3, UnchangedGrows, AcceptNone DEF CheckPermission, BInv
  <2>2. h \in Handles \cup {None}
    BY DEF BInv, CallsTyped, Callbacks
  <2>3. CallsTyped'
    BY <1>3, <2>2, DecideTyped, GotoTyped DEF CheckPermission, Decisions
  <2> QED
    BY <1>3, <2>1, <2>3 DEF BInv, StoreStep, CheckPermission
<1>4. CASE VerifyToken(c)
  <2>1. h \in Handles /\ Operation(h)
    BY <1>4, <1>a DEF VerifyToken, Operation
  <2>2. StoreStep /\ AcceptedWasFresh'
    BY <1>4, <2>1, OperationGrows, AcceptNone DEF VerifyToken, BInv
  <2>3. CallsTyped'
    BY <1>4, <2>1, DecideTyped, GotoTyped DEF VerifyToken, Decisions
  <2> QED
    BY <1>4, <2>2, <2>3 DEF BInv, StoreStep, VerifyToken
<1>5. CASE VerifyRefused(c)
  <2>1. StoreStep /\ AcceptedWasFresh'
    BY <1>5, UnchangedGrows, AcceptNone DEF VerifyRefused, BInv
  <2>2. CallsTyped'
    BY <1>5, DecideTyped DEF VerifyRefused, Decisions
  <2> QED
    BY <1>5, <2>1, <2>2 DEF BInv, StoreStep, VerifyRefused
<1>6. CASE ConsumeToken(c)
  <2>1. h \in Handles /\ Consume(h, "allowed") /\ Operation(h)
    BY <1>6, <1>a DEF ConsumeToken, Operation, Permissions
  <2>2. StoreStep
    BY <2>1, OperationGrows DEF BInv
  <2>3. StatusOf(h) = "verified" => fresh[h] = 0 /\ fresh'[h] = 1
    <3> SUFFICES ASSUME StatusOf(h) = "verified" PROVE fresh[h] = 0 /\ fresh'[h] = 1
      OBVIOUS
    <3>1. Known(h) /\ fresh[h] = 0
      BY <2>1, KnownRecord DEF StatusOf, BInv
    <3> QED
      BY <2>1, <3>1 DEF Consume, Unknown, BInv, IInv, TypeOK
  <2>4. AcceptedWasFresh'
    BY <1>6, <2>1, <2>2, <2>3, AcceptFresh, AcceptNone DEF ConsumeToken
  <2>5. CallsTyped'
    BY <1>6, DecideTyped DEF ConsumeToken, Decisions
  <2> QED
    BY <1>6, <2>2, <2>4, <2>5 DEF BInv, StoreStep, ConsumeToken
<1>7. CASE ConsumeRefused(c)
  <2>1. StoreStep /\ AcceptedWasFresh'
    BY <1>7, UnchangedGrows, AcceptNone DEF ConsumeRefused, BInv
  <2>2. CallsTyped'
    BY <1>7, DecideTyped DEF ConsumeRefused, Decisions
  <2> QED
    BY <1>7, <2>1, <2>2 DEF BInv, StoreStep, ConsumeRefused
<1>8. CASE PortRejects(c)
  <2>1. h \in Handles /\ Operation(h)
    BY <1>8, <1>a DEF PortRejects, Operation, Permissions
  <2>2. StoreStep /\ AcceptedWasFresh'
    BY <1>8, <2>1, OperationGrows, AcceptNone DEF PortRejects, BInv
  <2>3. CallsTyped'
    BY <1>8, DecideTyped DEF PortRejects, Decisions
  <2> QED
    BY <1>8, <2>2, <2>3 DEF BInv, StoreStep, PortRejects
<1> QED
  BY <1>1, <1>2, <1>3, <1>4, <1>5, <1>6, <1>7, <1>8 DEF CallbackStep

LEMMA OthersKeep ==
    ASSUME BInv, NEW h \in Handles, RunFlow(h) \/ RunFlowFails(h) \/ HostStep(h)
    PROVE  BInv'
<1>1. CASE RunFlow(h)
  <2>1. StoreStep /\ fresh[h] = 0 /\ fresh'[h] = 1
    BY <1>1, FlowGrows DEF BInv
  <2>2. AcceptedWasFresh'
    BY <1>1, <2>1, AcceptFresh DEF RunFlow
  <2> QED
    BY <1>1, <2>1, <2>2 DEF BInv, StoreStep, RunFlow, CallsTyped
<1>2. CASE RunFlowFails(h)
  <2>1. UNCHANGED tokenVars \/ Operation(h)
    BY <1>2 DEF RunFlowFails, Operation, Permissions
  <2>2. StoreStep
    BY <2>1, OperationGrows, UnchangedGrows DEF BInv
  <2>3. AcceptedWasFresh'
    BY <1>2, <2>2, AcceptNone DEF RunFlowFails
  <2> QED
    BY <1>2, <2>2, <2>3 DEF BInv, StoreStep, RunFlowFails, CallsTyped
<1>3. CASE HostStep(h)
  <2>1. RejectInput \/ Operation(h)
    BY <1>3 DEF HostStep, Operation, Permissions
  <2>2. StoreStep
    BY <2>1, OperationGrows, RejectGrows DEF BInv
  <2>3. AcceptedWasFresh'
    BY <1>3, <2>2, AcceptNone DEF HostStep
  <2> QED
    BY <1>3, <2>2, <2>3 DEF BInv, StoreStep, HostStep, CallsTyped
<1> QED
  BY <1>1, <1>2, <1>3

LEMMA BoundaryInitially == BoundaryInit => BInv
<1> SUFFICES ASSUME BoundaryInit PROVE BInv
  OBVIOUS
<1>1. IInv
  BY Initially DEF BoundaryInit
<1> QED
  BY <1>1 DEF BoundaryInit, Init, BInv, CallsTyped, AcceptedWasFresh, Ended, Callbacks,
     Decisions

LEMMA BoundaryInductive == BInv /\ [BoundaryNext]_boundaryVars => BInv'
<1> SUFFICES ASSUME BInv, [BoundaryNext]_boundaryVars PROVE BInv'
  OBVIOUS
<1>1. CASE BoundaryNext
  BY <1>1, CallbackKeeps, OthersKeep DEF BoundaryNext
<1>2. CASE UNCHANGED boundaryVars
  <2>1. StoreStep /\ AcceptedWasFresh'
    BY <1>2, UnchangedGrows, AcceptNone DEF boundaryVars, BInv
  <2> QED
    BY <1>2, <2>1 DEF boundaryVars, BInv, StoreStep, CallsTyped
<1> QED
  BY <1>1, <1>2

LEMMA BoundaryInvariance == BoundarySpec => []BInv
  BY BoundaryInitially, BoundaryInductive, PTL DEF BoundarySpec

-----------------------------------------------------------------------------
\* The store, the callbacks and the histories keep their types.
THEOREM BoundaryTypeCorrect == BoundarySpec => []BoundaryTypeOK
<1>1. BInv => BoundaryTypeOK
  BY DEF BInv, BoundaryTypeOK, IInv, CallsTyped, AcceptedWasFresh
<1> QED
  BY <1>1, BoundaryInvariance, PTL

\* A token is accepted at most once, for any number of overlapping callbacks
\* and any number of lost port answers.
THEOREM AcceptOnce == BoundarySpec => []AcceptedOnce
<1>1. BInv => AcceptedOnce
  <2> SUFFICES ASSUME BInv, NEW h \in Handles PROVE accepted[h] <= 1
    BY DEF AcceptedOnce
  <2>1. fresh[h] \in {0, 1} /\ accepted[h] \in 0..2 /\ accepted[h] <= fresh[h]
    BY DEF BInv, AcceptedWasFresh, IInv, ConsumedOnce
  <2> QED
    BY <2>1
<1> QED
  BY <1>1, BoundaryInvariance, PTL

\* What was accepted is consumed, was verified, and was never denied or failed.
THEOREM AcceptConsumed == BoundarySpec => []AcceptedIsConsumed
<1>1. BInv => AcceptedIsConsumed
  <2> SUFFICES ASSUME BInv, NEW h \in Handles, accepted[h] > 0
               PROVE  StatusOf(h) = "consumed" /\ Lookup(h).stamps = {"verified", "consumed"}
    BY DEF AcceptedIsConsumed
  <2>1. fresh[h] # 0
    BY DEF BInv, AcceptedWasFresh, IInv, TypeOK
  <2>2. StatusOf(h) = "consumed"
    BY <2>1 DEF BInv, IInv, ConsumedOnce
  <2>3. Known(h)
    BY <2>2 DEF StatusOf
  <2> QED
    BY <2>2, <2>3, KnownRecord DEF BInv, SoundRecord
<1> QED
  BY <1>1, BoundaryInvariance, PTL
=============================================================================

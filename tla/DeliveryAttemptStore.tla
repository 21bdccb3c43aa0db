------------------------- MODULE DeliveryAttemptStore -------------------------
(***************************************************************************)
(* The delivery attempt store of the OpenClaw adapter,                      *)
(* storage/delivery-attempts/delivery-attempt-store.ts with the record      *)
(* constructors of delivery-attempts/delivery-attempt-records.ts.           *)
(*                                                                          *)
(* An attempt is registered once per idempotency key; the caller that       *)
(* registers it is told shouldExecuteDelivery, and later reports the        *)
(* provider's acknowledgement and the business result, which are records    *)
(* of their own and are copied into the attempt.  One action is one awaited *)
(* boundary call with the synchronous code that follows it; calls interleave*)
(* between them, and a call can be lost at any of them.                     *)
(*                                                                          *)
(* An operator marked "Faulty" is a variant with a bug, used by no          *)
(* specification; it shows that a property can fail.                        *)
(***************************************************************************)
EXTENDS Naturals

CONSTANTS
    AttemptRefs,    \* attempt references, given or derived from the key
    DeliveryRefs,   \* delivery references (operation refs)
    Keys,           \* idempotency keys
    Callers,        \* calls that can be in flight at the same time
    MaxAbandoned,   \* bound: calls lost between two awaits
    None            \* the undefined of the source

Retries    == {"not-evaluated", "eligible", "not-eligible"}
Executions == {"reserved", "provider-acknowledged", "provider-failed",
               "business-succeeded", "business-failed"}
Verdicts   == {"marked-delivered", "marked-failed"}

Attempts == [delivery : DeliveryRefs, key : Keys, execution : Executions,
             business : Verdicts \cup {"not-evaluated"}, retry : Retries]
Acks     == [accepted : BOOLEAN, retry : Retries]
Results  == [verdict : Verdicts, retry : Retries]

Pcs == {"idle",
        "regReadAttempt", "regReadIndex", "regReadIndexed",
        "regWriteAttempt", "regWriteIndex",
        "ackReadAttempt", "ackReadExisting", "ackWrite", "ackWriteAttempt",
        "bizReadAttempt", "bizReadExisting", "bizWrite", "bizWriteAttempt"}
Replies == {"none", "registered", "duplicate", "acknowledged", "evaluated", "threw"}

Calls == [pc : Pcs, ref : AttemptRefs \cup {None}, delivery : DeliveryRefs \cup {None},
          key : Keys \cup {None}, report : Acks \cup Results \cup {None},
          attempt : Attempts \cup {None}, reply : Replies]

ASSUME AttemptAssumption ==
    /\ MaxAbandoned \in Nat
    /\ None \notin AttemptRefs \cup DeliveryRefs \cup Keys
    /\ None \notin Attempts /\ None \notin Acks /\ None \notin Results

VARIABLES
    attempt,    \* the attempt record of each attemptRef
    ack,        \* its provider acknowledgement record
    business,   \* its business result record
    index,      \* the attemptRef each idempotency key is indexed under
    call,       \* what each caller is doing, with its local copies
    granted,    \* history: keys that were answered shouldExecuteDelivery, 0, 1 or 2 (more)
    overlapped, \* history: the refs and keys that two calls were in flight on at once
    abandoned   \* how many calls have been lost between two awaits

store == <<attempt, ack, business, index>>
vars  == <<attempt, ack, business, index, call, granted, overlapped, abandoned>>

At(c, p)   == call[c].pc = p
Goto(c, p) == call' = [call EXCEPT ![c].pc = p]

Started(p, r, d, k, rep) ==
    [pc |-> p, ref |-> r, delivery |-> d, key |-> k, report |-> rep,
     attempt |-> None, reply |-> "none"]
Ended(k, answer) ==
    [pc |-> "idle", ref |-> None, delivery |-> None, key |-> k, report |-> None,
     attempt |-> None, reply |-> answer]

\* A call on a ref and a key begins, maybe while another on one of them is in flight.
Reach(r, k) ==
    overlapped' = overlapped \cup
        ({r, k} \cap UNION {{call[c].ref, call[c].key} : c \in {b \in Callers : ~At(b, "idle")}})

\* The call ends; a caller that is to execute the delivery keeps its key.
Return(c, answer) ==
    call' = [call EXCEPT ![c] =
               Ended(IF answer = "registered" THEN call[c].key ELSE None, answer)]

Init ==
    /\ attempt = [r \in AttemptRefs |-> None]
    /\ ack = [r \in AttemptRefs |-> None]
    /\ business = [r \in AttemptRefs |-> None]
    /\ index = [k \in Keys |-> None]
    /\ call = [c \in Callers |-> Ended(None, "none")]
    /\ granted = [k \in Keys |-> 0]
    /\ overlapped = {}
    /\ abandoned = 0

\* An input the normalizers refuse: the call throws before any boundary call.
RejectInput(c) ==
    /\ At(c, "idle")
    /\ call' = [call EXCEPT ![c] = Ended(None, "threw")]
    /\ UNCHANGED <<store, granted, overlapped, abandoned>>

-----------------------------------------------------------------------------
(* registerAttempt                                                          *)

NewAttempt(d, k) ==
    [delivery |-> d, key |-> k, execution |-> "reserved",
     business |-> "not-evaluated", retry |-> "not-evaluated"]

BeginRegister(c, r, d, k) ==
    /\ At(c, "idle")
    /\ call' = [call EXCEPT ![c] = Started("regReadAttempt", r, d, k, None)]
    /\ Reach(r, k)
    /\ UNCHANGED <<store, granted, abandoned>>

RegReadAttempt(c) ==
    LET existing == attempt[call[c].ref] IN
    /\ At(c, "regReadAttempt")
    /\ \/ existing = None /\ Goto(c, "regReadIndex")
       \/ existing # None /\ existing.key # call[c].key /\ Return(c, "threw")
       \/ existing # None /\ existing.key = call[c].key /\ Return(c, "duplicate")
    /\ UNCHANGED <<store, granted, overlapped, abandoned>>

\* Faulty: an indexed key whose attempt has another ref is registered again.
RegReadIndexOwnRef(c) ==
    /\ At(c, "regReadIndex")
    /\ \/ index[call[c].key] # call[c].ref /\ Goto(c, "regWriteAttempt")
       \/ index[call[c].key] = call[c].ref /\ Goto(c, "regReadIndexed")
    /\ UNCHANGED <<store, granted, overlapped, abandoned>>

RegReadIndex(c) ==
    /\ At(c, "regReadIndex")
    /\ \/ index[call[c].key] = None /\ Goto(c, "regWriteAttempt")
       \/ /\ index[call[c].key] # None
          /\ call' = [call EXCEPT ![c].ref = index[call[c].key],
                                  ![c].pc = "regReadIndexed"]
    /\ UNCHANGED <<store, granted, overlapped, abandoned>>

\* The index names the attempt to answer with; a missing one is an error.
RegReadIndexed(c) ==
    /\ At(c, "regReadIndexed")
    /\ Return(c, IF attempt[call[c].ref] = None THEN "threw" ELSE "duplicate")
    /\ UNCHANGED <<store, granted, overlapped, abandoned>>

RegWriteAttempt(c) ==
    /\ At(c, "regWriteAttempt")
    /\ attempt' = [attempt EXCEPT ![call[c].ref] =
                     NewAttempt(call[c].delivery, call[c].key)]
    /\ Goto(c, "regWriteIndex")
    /\ UNCHANGED <<ack, business, index, granted, overlapped, abandoned>>

\* registrationStatus registered, shouldExecuteDelivery true.
RegWriteIndex(c) ==
    /\ At(c, "regWriteIndex")
    /\ index' = [index EXCEPT ![call[c].key] = call[c].ref]
    /\ granted' = [granted EXCEPT ![call[c].key] = IF @ = 0 THEN 1 ELSE 2]
    /\ Return(c, "registered")
    /\ UNCHANGED <<attempt, ack, business, overlapped, abandoned>>

-----------------------------------------------------------------------------
(* recordProviderAcknowledgement                                            *)

BeginAck(c, r, d, k, report) ==
    /\ At(c, "idle")
    /\ call' = [call EXCEPT ![c] = Started("ackReadAttempt", r, d, k, report)]
    /\ Reach(r, k)
    /\ UNCHANGED <<store, granted, abandoned>>

\* assertIdempotencyKeyMatchesAttempt: an unknown attempt is not checked.
KeyMatches(existing, k) == existing # None => existing.key = k

\* assertDeliveryRefMatchesAttempt: likewise.
DeliveryMatches(existing, d) == existing # None => existing.delivery = d

AckReadAttempt(c) ==
    LET existing == attempt[call[c].ref] IN
    /\ At(c, "ackReadAttempt")
    /\ \/ ~KeyMatches(existing, call[c].key) /\ Return(c, "threw")
       \/ /\ KeyMatches(existing, call[c].key)
          /\ call' = [call EXCEPT ![c].attempt = existing,
                                  ![c].pc = "ackReadExisting"]
    /\ UNCHANGED <<store, granted, overlapped, abandoned>>

\* Faulty: a second acknowledgement replaces the first.
AckReadExistingReplaces(c) ==
    /\ At(c, "ackReadExisting")
    /\ \/ /\ ~DeliveryMatches(call[c].attempt, call[c].delivery)
          /\ Return(c, "threw")
       \/ /\ DeliveryMatches(call[c].attempt, call[c].delivery)
          /\ Goto(c, "ackWrite")
    /\ UNCHANGED <<store, granted, overlapped, abandoned>>

AckReadExisting(c) ==
    /\ At(c, "ackReadExisting")
    /\ \/ ack[call[c].ref] # None /\ Return(c, "duplicate")
       \/ /\ ack[call[c].ref] = None
          /\ ~DeliveryMatches(call[c].attempt, call[c].delivery)
          /\ Return(c, "threw")
       \/ /\ ack[call[c].ref] = None
          /\ DeliveryMatches(call[c].attempt, call[c].delivery)
          /\ Goto(c, "ackWrite")
    /\ UNCHANGED <<store, granted, overlapped, abandoned>>

AckWrite(c) ==
    /\ At(c, "ackWrite")
    /\ ack' = [ack EXCEPT ![call[c].ref] = call[c].report]
    /\ \/ call[c].attempt = None /\ Return(c, "acknowledged")
       \/ call[c].attempt # None /\ Goto(c, "ackWriteAttempt")
    /\ UNCHANGED <<attempt, business, index, granted, overlapped, abandoned>>

\* The acknowledged attempt: whatever it said of the business is set back.
AttemptAfterAck(existing, report) ==
    [existing EXCEPT
        !.execution = IF report.accepted THEN "provider-acknowledged"
                                         ELSE "provider-failed",
        !.retry = report.retry,
        !.business = "not-evaluated"]

\* The copy updated is the one read before the acknowledgement was written.
AckWriteAttempt(c) ==
    /\ At(c, "ackWriteAttempt")
    /\ attempt' = [attempt EXCEPT ![call[c].ref] =
                     AttemptAfterAck(call[c].attempt, call[c].report)]
    /\ Return(c, "acknowledged")
    /\ UNCHANGED <<ack, business, index, granted, overlapped, abandoned>>

-----------------------------------------------------------------------------
(* recordBusinessResult                                                     *)

BeginResult(c, r, d, k, report) ==
    /\ At(c, "idle")
    /\ call' = [call EXCEPT ![c] = Started("bizReadAttempt", r, d, k, report)]
    /\ Reach(r, k)
    /\ UNCHANGED <<store, granted, abandoned>>

BizReadAttempt(c) ==
    LET existing == attempt[call[c].ref]
        matches == /\ KeyMatches(existing, call[c].key)
                   /\ DeliveryMatches(existing, call[c].delivery)
    IN
    /\ At(c, "bizReadAttempt")
    /\ \/ ~matches /\ Return(c, "threw")
       \/ /\ matches
          /\ call' = [call EXCEPT ![c].attempt = existing,
                                  ![c].pc = "bizReadExisting"]
    /\ UNCHANGED <<store, granted, overlapped, abandoned>>

BizReadExisting(c) ==
    /\ At(c, "bizReadExisting")
    /\ \/ business[call[c].ref] # None /\ Return(c, "duplicate")
       \/ business[call[c].ref] = None /\ Goto(c, "bizWrite")
    /\ UNCHANGED <<store, granted, overlapped, abandoned>>

BizWrite(c) ==
    /\ At(c, "bizWrite")
    /\ business' = [business EXCEPT ![call[c].ref] = call[c].report]
    /\ \/ call[c].attempt = None /\ Return(c, "evaluated")
       \/ call[c].attempt # None /\ Goto(c, "bizWriteAttempt")
    /\ UNCHANGED <<attempt, ack, index, granted, overlapped, abandoned>>

\* Faulty: the verdict is read the wrong way round.
AttemptAfterResultSwapped(existing, report) ==
    [existing EXCEPT
        !.execution = IF report.verdict = "marked-failed" THEN "business-succeeded"
                                                          ELSE "business-failed",
        !.retry = report.retry,
        !.business = report.verdict]

AttemptAfterResult(existing, report) ==
    [existing EXCEPT
        !.execution = IF report.verdict = "marked-delivered" THEN "business-succeeded"
                                                             ELSE "business-failed",
        !.retry = report.retry,
        !.business = report.verdict]

BizWriteAttempt(c) ==
    /\ At(c, "bizWriteAttempt")
    /\ attempt' = [attempt EXCEPT ![call[c].ref] =
                     AttemptAfterResult(call[c].attempt, call[c].report)]
    /\ Return(c, "evaluated")
    /\ UNCHANGED <<ack, business, index, granted, overlapped, abandoned>>

-----------------------------------------------------------------------------
\* The boundary rejects or the process stops: the rest of the call never runs.
Abandon(c) ==
    /\ ~At(c, "idle")
    /\ abandoned < MaxAbandoned
    /\ abandoned' = abandoned + 1
    /\ call' = [call EXCEPT ![c] = Ended(None, "threw")]
    /\ UNCHANGED <<store, granted, overlapped>>

\* A success is accepted and not eligible for retry; a failure may be either.
AckReports == [accepted : {TRUE}, retry : {"not-eligible"}]
                 \cup [accepted : {FALSE}, retry : {"eligible", "not-eligible"}]

\* The code takes any pair; these tell the copies of a report apart.
ResultReports == [verdict : {"marked-delivered"}, retry : {"not-eligible"}]
                    \cup [verdict : {"marked-failed"}, retry : {"eligible", "not-evaluated"}]

Begin(c) ==
    \/ RejectInput(c)
    \/ \E r \in AttemptRefs, d \in DeliveryRefs, k \in Keys :
          \/ BeginRegister(c, r, d, k)
          \/ \E report \in AckReports : BeginAck(c, r, d, k, report)
          \/ \E report \in ResultReports : BeginResult(c, r, d, k, report)

RegisterStep(c) ==
    \/ RegReadAttempt(c) \/ RegReadIndex(c) \/ RegReadIndexed(c)
    \/ RegWriteAttempt(c) \/ RegWriteIndex(c)

AckStep(c) ==
    \/ AckReadAttempt(c) \/ AckReadExisting(c) \/ AckWrite(c) \/ AckWriteAttempt(c)

ResultStep(c) ==
    \/ BizReadAttempt(c) \/ BizReadExisting(c) \/ BizWrite(c) \/ BizWriteAttempt(c)

Next == \E c \in Callers :
    Begin(c) \/ RegisterStep(c) \/ AckStep(c) \/ ResultStep(c) \/ Abandon(c)

Spec == Init /\ [][Next]_vars

-----------------------------------------------------------------------------
(* Properties                                                               *)

\* Every record and every call in flight has the shape its interface declares.
TypeOK ==
    /\ attempt \in [AttemptRefs -> Attempts \cup {None}]
    /\ ack \in [AttemptRefs -> Acks \cup {None}]
    /\ business \in [AttemptRefs -> Results \cup {None}]
    /\ index \in [Keys -> AttemptRefs \cup {None}]
    /\ call \in [Callers -> Calls]
    /\ granted \in [Keys -> 0..2]
    /\ overlapped \subseteq AttemptRefs \cup Keys
    /\ abandoned \in Nat

\* A provider acknowledgement is not a business success: an attempt says that
\* its delivery was evaluated only if a business result record is stored, and
\* that the provider answered only if an acknowledgement is, whatever calls
\* overlap or are lost.
StatusIsEvidenced ==
    \A r \in AttemptRefs : attempt[r] # None =>
        /\ (attempt[r].execution \in {"business-succeeded", "business-failed"}
              \/ attempt[r].business # "not-evaluated") => business[r] # None
        /\ attempt[r].execution \in {"provider-acknowledged", "provider-failed"}
              => ack[r] # None

\* Once a caller was told to execute the delivery of a key, the key is indexed
\* under a stored attempt for ever: after a restart the replay is recognised.
GrantIsDurable ==
    \A c \in Callers : call[c].reply = "registered" =>
        index[call[c].key] # None /\ attempt[index[call[c].key]] # None

\* shouldExecuteDelivery is answered at most once per idempotency key, whatever
\* attempt refs its callers use and although a call is lost between its two
\* writes: unless two calls with the key overlap.
GrantedOnce == \A k \in Keys \ overlapped : granted[k] <= 1

\* A delivery is handed out once, and never forgotten (registerDeliveryAttempt).
GrantsStand == GrantIsDurable /\ GrantedOnce

\* The first acknowledgement and the first business result of an attempt stand,
\* lost calls included: a replay is answered duplicate and changes no record,
\* unless two calls on the attempt overlap.
FirstEvidenceStands ==
    [][\A r \in AttemptRefs \ overlapped' :
          /\ ack[r] # None => ack'[r] = ack[r]
          /\ business[r] # None => business'[r] = business[r]]_vars

\* What an attempt says of its delivery is what the stored evidence says,
\* although evidence and attempt are two writes and a call may be lost between
\* them: unless two calls on the attempt overlap.
StatusMatchesEvidence ==
    \A r \in AttemptRefs \ overlapped : attempt[r] # None =>
        /\ attempt[r].execution = "provider-acknowledged" => ack[r].accepted
        /\ attempt[r].execution = "provider-failed" => ~ack[r].accepted
        /\ attempt[r].execution \in {"business-succeeded", "business-failed"} =>
              /\ attempt[r].business = business[r].verdict
              /\ attempt[r].execution = "business-succeeded"
                    <=> business[r].verdict = "marked-delivered"
              /\ attempt[r].retry = business[r].retry

\* An attempt says nothing that is not in evidence, and what is (recordProviderAcknowledgement,
\* recordBusinessResult).
EvidenceIsTold == StatusIsEvidenced /\ StatusMatchesEvidence
=============================================================================

--------------------------- MODULE CallbackBoundary ---------------------------
(***************************************************************************)
(* The callback boundary of the Telegram transport, callback-handler-port.ts*)
(* processCallbackBoundary, and the adapter's synchronous token flow,       *)
(* callbacks/callback-token-flow.ts, over the callback token record store   *)
(* (CallbackTokenRecords) as their token port.                              *)
(*                                                                          *)
(* A callback waits for the permission port, then for verifyToken, then for *)
(* consumeToken; callbacks interleave at these awaits, with each other, with*)
(* the synchronous flow and with the host's own use of the store.  A port   *)
(* may reject after its call took effect.                                   *)
(***************************************************************************)
EXTENDS CallbackTokenRecords

CONSTANTS
    Callers,        \* callbacks that can be in flight at the same time
    MaxLost         \* bound: port calls that take effect and reject

ASSUME BoundaryAssumption == MaxLost \in Nat /\ None \notin Handles

Refusals == {"permission-denied", "binding-not-found", "binding-disabled"}
Decisions == {"none", "invalid-payload", "acknowledged-only", "accepted", "duplicate-safe",
              "token-not-found", "token-context-mismatch", "token-expired",
              "token-consume-conflict", "failed-safe"} \cup Refusals

Callbacks == [pc : {"idle", "permission", "verify", "consume"},
              handle : Handles \cup {None}, decision : Decisions]

VARIABLES
    call,       \* each callback in flight: its token and, when it ended, its decision
    accepted,   \* history: callbacks and flows accepted per token, 0, 1 or 2 (more)
    lost        \* how many port calls took effect and rejected

boundaryVars == <<tokenVars, call, accepted, lost>>

At(c, p)   == call[c].pc = p
Goto(c, p) == call' = [call EXCEPT ![c].pc = p]

Ended(h, d) == [pc |-> "idle", handle |-> h, decision |-> d]

\* A callback that was told of a consumption keeps its token.
Decide(c, d) ==
    call' = [call EXCEPT ![c] =
               Ended(IF d \in {"accepted", "duplicate-safe"} THEN call[c].handle ELSE None, d)]

Accept(h) == accepted' = [accepted EXCEPT ![h] = IF @ = 0 THEN 1 ELSE 2]

BoundaryInit ==
    /\ Init
    /\ call = [c \in Callers |-> Ended(None, "none")]
    /\ accepted = [h \in Handles |-> 0]
    /\ lost = 0

-----------------------------------------------------------------------------
(* processCallbackBoundary                                                  *)

\* Callback data that is missing, unsafe or neither hz: nor action: is answered
\* before any port is called.
ReceiveInvalid(c) ==
    /\ At(c, "idle")
    /\ call' = [call EXCEPT ![c] = Ended(None, "invalid-payload")]
    /\ UNCHANGED <<tokenVars, accepted, lost>>

\* hz:<token> names a token, action:<ref> does not.
Receive(c, h) ==
    /\ At(c, "idle")
    /\ call' = [call EXCEPT ![c] = [pc |-> "permission", handle |-> h, decision |-> "none"]]
    /\ UNCHANGED <<tokenVars, accepted, lost>>

CheckPermission(c) ==
    /\ At(c, "permission")
    /\ \/ \E d \in Refusals \cup {"failed-safe"} : Decide(c, d)
       \/ call[c].handle = None /\ Decide(c, "acknowledged-only")
       \/ call[c].handle # None /\ Goto(c, "verify")
    /\ UNCHANGED <<tokenVars, accepted, lost>>

\* How the host's token port answers from the store.
ValidForVerify(h) == StatusOf(h) \in {"issued", "verified"}

VerifyToken(c) ==
    LET h == call[c].handle IN
    /\ At(c, "verify")
    /\ Verify(h)
    /\ \/ ValidForVerify(h) /\ Goto(c, "consume")
       \/ StatusOf(h) = "absent" /\ Decide(c, "token-not-found")
       \/ StatusOf(h) = "consumed" /\ Decide(c, "duplicate-safe")
       \/ StatusOf(h) \in {"permission-denied", "failed"} /\ Decide(c, "failed-safe")
    /\ UNCHANGED <<accepted, lost>>

\* The port refuses the context or the age of the token without touching it.
VerifyRefused(c) ==
    /\ At(c, "verify")
    /\ \E d \in {"token-context-mismatch", "token-expired", "failed-safe"} : Decide(c, d)
    /\ UNCHANGED <<tokenVars, accepted, lost>>

\* Faulty: an answer already-consumed is taken for a consumption.
ConsumeTokenTwice(c) ==
    LET h == call[c].handle IN
    /\ At(c, "consume")
    /\ Consume(h, "allowed")
    /\ \/ StatusOf(h) \in {"verified", "consumed"} /\ Decide(c, "accepted") /\ Accept(h)
       \/ /\ StatusOf(h) \in {"permission-denied", "failed"}
          /\ Decide(c, "token-consume-conflict")
          /\ UNCHANGED accepted
    /\ UNCHANGED lost

\* Only the answer consumed accepts the business action.
ConsumeToken(c) ==
    LET h == call[c].handle IN
    /\ At(c, "consume")
    /\ Consume(h, "allowed")
    /\ \/ StatusOf(h) = "verified" /\ Decide(c, "accepted") /\ Accept(h)
       \/ StatusOf(h) = "consumed" /\ Decide(c, "duplicate-safe") /\ UNCHANGED accepted
       \/ /\ StatusOf(h) \in {"permission-denied", "failed"}
          /\ Decide(c, "token-consume-conflict")
          /\ UNCHANGED accepted
    /\ UNCHANGED lost

ConsumeRefused(c) ==
    /\ At(c, "consume")
    /\ \E d \in {"token-context-mismatch", "token-expired", "failed-safe"} : Decide(c, d)
    /\ UNCHANGED <<tokenVars, accepted, lost>>

\* The port call took effect and rejected: safeError, nobody was accepted.
PortRejects(c) ==
    /\ lost < MaxLost
    /\ lost' = lost + 1
    /\ \/ At(c, "verify") /\ Verify(call[c].handle)
       \/ At(c, "consume") /\ Consume(call[c].handle, "allowed")
    /\ Decide(c, "failed-safe")
    /\ UNCHANGED accepted

-----------------------------------------------------------------------------
(* runOpenClawTelegramCallbackTokenFlow: permission, verify and consume in  *)
(* one synchronous call.                                                    *)

\* status token-consumed: the verifier answered verified and the consumer
\* consumed, each checked against the token of the payload.
RunFlow(h) ==
    /\ StatusOf(h) \in {"issued", "verified"}
    /\ Write(h, ConsumedRecord(VerifiedRecord(Lookup(h))))
    /\ answer' = "consumed"
    /\ fresh' = [fresh EXCEPT ![h] = IF @ = 0 THEN 1 ELSE 2]
    /\ Accept(h)
    /\ UNCHANGED <<call, lost>>

\* A denied permission, a failed verification or a consumer that throws: the
\* flow reports no acceptance; a verification that went well has happened.
RunFlowFails(h) ==
    /\ \/ UNCHANGED tokenVars
       \/ Verify(h)
       \/ StatusOf(h) = "consumed" /\ Consume(h, "allowed")
    /\ UNCHANGED <<call, accepted, lost>>

-----------------------------------------------------------------------------
\* The host issues tokens, and verifies, denies or fails them for reasons of
\* its own; a consumption it asks for with a denied permission is refused.
HostStep(h) ==
    /\ \/ RejectInput
       \/ \E r \in Refs : Issue(h, r)
       \/ Verify(h)
       \/ Consume(h, "denied")
       \/ \E p \in Permissions : Deny(h, p)
       \/ Fail(h)
    /\ UNCHANGED <<call, accepted, lost>>

CallbackStep(c) ==
    \/ ReceiveInvalid(c)
    \/ \E h \in Handles \cup {None} : Receive(c, h)
    \/ CheckPermission(c)
    \/ VerifyToken(c) \/ VerifyRefused(c)
    \/ ConsumeToken(c) \/ ConsumeRefused(c)
    \/ PortRejects(c)

BoundaryNext ==
    \/ \E c \in Callers : CallbackStep(c)
    \/ \E h \in Handles : RunFlow(h) \/ RunFlowFails(h) \/ HostStep(h)

BoundarySpec == BoundaryInit /\ [][BoundaryNext]_boundaryVars

-----------------------------------------------------------------------------
(* Properties                                                               *)

\* The callbacks in flight, the store and the histories keep their shape.
BoundaryTypeOK ==
    /\ TypeOK
    /\ call \in [Callers -> Callbacks]
    /\ accepted \in [Handles -> 0..2]
    /\ lost \in Nat

\* A token is accepted at most once, by one callback or by the flow, however
\* its duplicates overlap and although a port call may take effect and reject.
AcceptedOnce == \A h \in Handles : accepted[h] <= 1

\* An accepted token is consumed, and stays so: it was verified, never denied.
AcceptedIsConsumed ==
    \A h \in Handles : accepted[h] > 0 =>
        StatusOf(h) = "consumed" /\ Lookup(h).stamps = {"verified", "consumed"}
=============================================================================

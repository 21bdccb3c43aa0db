--------------------------- MODULE CallbackPipeline ---------------------------
(***************************************************************************)
(* The callback permission pipeline of the Telegram transport,              *)
(* callbacks/callback-permission-pipeline.ts, over the durable core action  *)
(* token store of the adapter, storage/core/durable-core-store-adapters.ts. *)
(*                                                                          *)
(* A callback waits for the permission port, for verifyToken (a get of the  *)
(* token record) and for consumeToken, which is consumeActionTokenRecord: a *)
(* get and then a put of the whole record.  Callbacks interleave at every   *)
(* await; a put may fail before or after it took effect.                    *)
(*                                                                          *)
(* The host joins the two: its token port answers verifyToken and           *)
(* consumeToken from the store's results, and it alone issues, verifies,    *)
(* expires and revokes records.  An operator marked "Faulty" is a variant   *)
(* with a bug, used by no specification; it shows that a property can fail. *)
(***************************************************************************)
EXTENDS Naturals

CONSTANTS
    Tokens,         \* action token record keys
    Callers,        \* callbacks that can be in flight at the same time
    MaxFailures,    \* bound: boundary calls that reject
    None            \* the undefined of the source

Statuses == {"issued", "verified", "consumed", "expired", "revoked"}
Open     == {"issued", "verified"}

ASSUME PipelineAssumption == MaxFailures \in Nat /\ None \notin Tokens \cup Statuses

NoPermission == {"permission-denied", "missing-binding", "disabled-binding"}
Decisions == {"none", "unsafe-payload-rejected", "unsupported-action", "provider-ack-only",
              "token-missing", "token-invalid", "token-expired", "token-context-mismatch",
              "duplicate-callback", "consume-conflict", "authorized-token-consumed",
              "failed-safe-redacted"} \cup NoPermission

Callbacks == [pc : {"idle", "permission", "verify", "consumeGet", "consumePut"},
              token : Tokens \cup {None}, decision : Decisions]

VARIABLES
    token,          \* the status of each action token record, None if there is none
    call,           \* each callback: its token, where it waits or how it was decided
    authorized,     \* history: authorized-token-consumed decisions per token, 0, 1 or 2 (more)
    overlapped,     \* history: the tokens that two callbacks were in flight on at once
    failures        \* how many boundary calls have rejected

vars == <<token, call, authorized, overlapped, failures>>

At(c, p)   == call[c].pc = p
Goto(c, p) == call' = [call EXCEPT ![c].pc = p] /\ UNCHANGED overlapped

Ended(t, d) == [pc |-> "idle", token |-> t, decision |-> d]

\* A callback that was told of a consumption keeps its token.
Decide(c, d) ==
    /\ call' = [call EXCEPT ![c] =
                  Ended(IF d \in {"authorized-token-consumed", "duplicate-callback"}
                        THEN call[c].token ELSE None, d)]
    /\ UNCHANGED overlapped

\* A callback on a token begins, maybe while another on it is in flight.
Reach(t) ==
    overlapped' = overlapped \cup
        (({t} \ {None}) \cap {call[c].token : c \in {b \in Callers : ~At(b, "idle")}})

Init ==
    /\ token = [t \in Tokens |-> None]
    /\ call = [c \in Callers |-> Ended(None, "none")]
    /\ authorized = [t \in Tokens |-> 0]
    /\ overlapped = {}
    /\ failures = 0

-----------------------------------------------------------------------------
(* processTelegramCallbackPermissionPipeline                                *)

\* parseCallbackData: data that is malformed or of no supported kind.
ReceiveRejected(c) ==
    /\ At(c, "idle")
    /\ \E d \in {"unsafe-payload-rejected", "unsupported-action"} :
          call' = [call EXCEPT ![c] = Ended(None, d)]
    /\ UNCHANGED <<token, authorized, overlapped, failures>>

\* hz:<token> and token:<token> name a token, action:<ref> does not.
Receive(c, t) ==
    /\ At(c, "idle")
    /\ call' = [call EXCEPT ![c] = [pc |-> "permission", token |-> t, decision |-> "none"]]
    /\ Reach(t)
    /\ UNCHANGED <<token, authorized, failures>>

CheckPermission(c) ==
    /\ At(c, "permission")
    /\ \/ \E d \in NoPermission \cup {"failed-safe-redacted"} : Decide(c, d)
       \/ call[c].token = None /\ Decide(c, "provider-ack-only")
       \/ call[c].token # None /\ Goto(c, "verify")
    /\ UNCHANGED <<token, authorized, failures>>

\* verifyToken reads the record; the port compares the expected context itself.
VerifyToken(c) ==
    LET status == token[call[c].token] IN
    /\ At(c, "verify")
    /\ \/ status \in Open /\ Goto(c, "consumeGet")
       \/ status \in Open /\ Decide(c, "token-context-mismatch")
       \/ status = None /\ Decide(c, "token-missing")
       \/ status = "consumed" /\ Decide(c, "duplicate-callback")
       \/ status = "expired" /\ Decide(c, "token-expired")
       \/ status = "revoked" /\ Decide(c, "token-invalid")
    /\ UNCHANGED <<token, authorized, failures>>

-----------------------------------------------------------------------------
(* consumeActionTokenRecord                                                 *)

\* The store answers conflict for a consumed, an expired and a revoked record
\* alike, and the port takes it for a replay or for a conflict.
ConsumeGet(c) ==
    LET status == token[call[c].token] IN
    /\ At(c, "consumeGet")
    /\ \/ status \in Open /\ Goto(c, "consumePut")
       \/ status = None /\ Decide(c, "token-missing")
       \/ status = "consumed" /\ Decide(c, "duplicate-callback")
       \/ status \in {"consumed", "expired", "revoked"} /\ Decide(c, "consume-conflict")
    /\ UNCHANGED <<token, authorized, failures>>

Consume(c) == token' = [token EXCEPT ![call[c].token] = "consumed"]

Authorize(c) ==
    authorized' = [authorized EXCEPT ![call[c].token] = IF @ = 0 THEN 1 ELSE 2]

\* Faulty: the record is put back as the copy that was read.
ConsumePutCopy(c) ==
    /\ At(c, "consumePut")
    /\ token' = [token EXCEPT ![call[c].token] = "verified"]
    /\ Authorize(c)
    /\ Decide(c, "authorized-token-consumed")
    /\ UNCHANGED failures

ConsumePut(c) ==
    /\ At(c, "consumePut")
    /\ Consume(c)
    /\ Authorize(c)
    /\ Decide(c, "authorized-token-consumed")
    /\ UNCHANGED failures

\* The put rejects, before or after it took effect: dependency-failed.
PutFails(c) ==
    /\ At(c, "consumePut")
    /\ failures < MaxFailures
    /\ failures' = failures + 1
    /\ Consume(c) \/ UNCHANGED token
    /\ Decide(c, "failed-safe-redacted")
    /\ UNCHANGED authorized

\* A read rejects, in verifyToken or in consumeToken.
GetFails(c) ==
    /\ At(c, "verify") \/ At(c, "consumeGet")
    /\ failures < MaxFailures
    /\ failures' = failures + 1
    /\ Decide(c, "failed-safe-redacted")
    /\ UNCHANGED <<token, authorized>>

-----------------------------------------------------------------------------
\* The host issues a token once, and expires or revokes one that is open.
HostPut(t) ==
    /\ \/ token[t] = None /\ token' = [token EXCEPT ![t] = "issued"]
       \/ token[t] = "issued" /\ token' = [token EXCEPT ![t] = "verified"]
       \/ \E s \in {"expired", "revoked"} :
             token[t] \in Open /\ token' = [token EXCEPT ![t] = s]
    /\ UNCHANGED <<call, authorized, overlapped, failures>>

CallbackStep(c) ==
    \/ ReceiveRejected(c)
    \/ \E t \in Tokens \cup {None} : Receive(c, t)
    \/ CheckPermission(c) \/ VerifyToken(c)
    \/ ConsumeGet(c) \/ ConsumePut(c) \/ PutFails(c) \/ GetFails(c)

Next == \/ \E c \in Callers : CallbackStep(c)
        \/ \E t \in Tokens : HostPut(t)

Spec == Init /\ [][Next]_vars

-----------------------------------------------------------------------------
(* Properties                                                               *)

\* Tokens, callbacks in flight and histories keep their shape.
TypeOK ==
    /\ token \in [Tokens -> Statuses \cup {None}]
    /\ call \in [Callers -> Callbacks]
    /\ authorized \in [Tokens -> 0..2]
    /\ overlapped \subseteq Tokens
    /\ failures \in Nat

\* Whoever was authorized, or told of a duplicate, left or found the record
\* consumed; no overlapping put, failed put or host update brings it back.
AuthorizedIsConsumed ==
    /\ \A t \in Tokens : authorized[t] > 0 => token[t] = "consumed"
    /\ \A c \in Callers : call[c].decision = "duplicate-callback"
                             => token[call[c].token] = "consumed"

\* One button press authorizes one action: a token is authorized at most once,
\* replays, failed puts and callbacks on other tokens included, unless two
\* callbacks on the token itself overlap.
AuthorizedOnce == \A t \in Tokens \ overlapped : authorized[t] <= 1

\* A token is authorized once and stays consumed, also over faults of the store
\* (callback-permission-pipeline.ts 884).
AuthorizationStands == AuthorizedIsConsumed /\ AuthorizedOnce

\* The same whatever overlaps: what the storage document asks of a consumption.
ConsumedOnceEver == \A t \in Tokens : authorized[t] <= 1
=============================================================================

---------------------- MODULE DurableCallbackTokenStore ----------------------
(***************************************************************************)
(* The durable callback token store of the OpenClaw adapter,                *)
(* storage/callbacks/durable-callback-token-store.ts.                       *)
(*                                                                          *)
(* It keeps one lifecycle record per callback token.  Each operation reads  *)
(* the record, decides, and writes a whole record: two awaited boundary     *)
(* calls, between which other operations run.  A boundary call may reject,  *)
(* a write before or after it took effect, and is then answered             *)
(* dependency-failed.                                                       *)
(*                                                                          *)
(* An operator marked "Faulty" is a variant with a bug, used by no          *)
(* specification; it shows that a property can fail.                        *)
(***************************************************************************)
EXTENDS Naturals

CONSTANTS
    Tokens,         \* callback token refs
    Keys,           \* idempotency keys
    Callers,        \* operations that can be in flight at the same time
    MaxFailures,    \* bound: boundary calls that reject
    None            \* the undefined and the null of the source

Statuses == {"verified", "consumed", "denied", "failed"}

\* Verification, permission, consumption, times and error follow the status.
Records == [status : Statuses, key : Keys \cup {None}]

Pcs     == {"idle", "verRead", "denRead", "conRead", "failRead", "write"}
Replies == {"none", "recorded", "duplicate", "existing", "conflict", "not-found",
            "deleted", "invalid-input", "dependency-failed"}

ASSUME CallbackStoreAssumption ==
    /\ MaxFailures \in Nat
    /\ None \notin Tokens \cup Keys
    /\ None \notin Records

VARIABLES
    record,     \* the lifecycle record of each token, None if there is none
    call,       \* each operation: its token, the record it is to write, its answer
    verified,   \* history: tokens a verified record was written for
    overlapped, \* history: the tokens that two operations were in flight on at once
    failures    \* how many boundary calls have rejected

vars == <<record, call, verified, overlapped, failures>>

Calls == [pc : Pcs, token : Tokens \cup {None}, fresh : Records \cup {None}, reply : Replies]

At(c, p) == call[c].pc = p

Started(p, t, fresh) == [pc |-> p, token |-> t, fresh |-> fresh, reply |-> "none"]
Ended(answer)        == [pc |-> "idle", token |-> None, fresh |-> None, reply |-> answer]

Return(c, answer) ==
    /\ call' = [call EXCEPT ![c] = Ended(answer)]
    /\ UNCHANGED overlapped

\* The read is behind the operation: it writes this record.
Write(c, fresh) ==
    /\ call' = [call EXCEPT ![c] = Started("write", call[c].token, fresh)]
    /\ UNCHANGED overlapped

\* An operation on a token begins, maybe while another on it is in flight.
Reach(t) == overlapped' = overlapped \cup ({t} \cap {call[c].token : c \in Callers})

Init ==
    /\ record = [t \in Tokens |-> None]
    /\ call = [c \in Callers |-> Ended("none")]
    /\ verified = {}
    /\ overlapped = {}
    /\ failures = 0

-----------------------------------------------------------------------------
\* An input the normalizers refuse never reaches the boundary.
RejectInput(c) ==
    /\ At(c, "idle")
    /\ Return(c, "invalid-input")
    /\ UNCHANGED <<record, verified, failures>>

\* The record to write is built from the input before the boundary is read;
\* of a consumption it is only the input.
Fresh(status, k) == [status |-> status, key |-> k]

Begin(c, p, status, t, k) ==
    /\ At(c, "idle")
    /\ call' = [call EXCEPT ![c] = Started(p, t, Fresh(status, k))]
    /\ Reach(t)
    /\ UNCHANGED <<record, verified, failures>>

BeginVerified(c, t, k) == Begin(c, "verRead", "verified", t, k)
BeginDenied(c, t, k)   == Begin(c, "denRead", "denied", t, k)
BeginConsumed(c, t, k) == Begin(c, "conRead", "consumed", t, k)
BeginFailed(c, t, k)   == Begin(c, "failRead", "failed", t, k)

Existing(c) == record[call[c].token]
Found(c, statuses) == Existing(c) # None /\ Existing(c).status \in statuses

ReadVerified(c) ==
    /\ At(c, "verRead")
    /\ \/ Existing(c) = None /\ Write(c, call[c].fresh)
       \/ Existing(c) # None /\ Return(c, "duplicate")
    /\ UNCHANGED <<record, verified, failures>>

ReadDenied(c) ==
    /\ At(c, "denRead")
    /\ \/ Found(c, {"consumed", "verified"}) /\ Return(c, "conflict")
       \/ Found(c, {"denied"}) /\ Return(c, "existing")
       \/ /\ Existing(c) = None \/ Found(c, {"failed"})
          /\ Write(c, call[c].fresh)
    /\ UNCHANGED <<record, verified, failures>>

\* Faulty: a token is consumed although nothing or a refusal is recorded.
ReadConsumedUnverified(c) ==
    /\ At(c, "conRead")
    /\ \/ Found(c, {"consumed"}) /\ Return(c, "existing")
       \/ ~Found(c, {"consumed"}) /\ Write(c, call[c].fresh)
    /\ UNCHANGED <<record, verified, failures>>

\* createConsumedRecord: the key of the verification stands if none is given.
ReadConsumed(c) ==
    LET k == call[c].fresh.key IN
    /\ At(c, "conRead")
    /\ \/ Existing(c) = None /\ Return(c, "not-found")
       \/ Found(c, {"consumed"}) /\ Return(c, "existing")
       \/ Found(c, {"denied", "failed"}) /\ Return(c, "conflict")
       \/ /\ Found(c, {"verified"})
          /\ Write(c, Fresh("consumed", IF k = None THEN Existing(c).key ELSE k))
    /\ UNCHANGED <<record, verified, failures>>

\* Faulty: a failure is recorded over whatever is there.
ReadFailedUnchecked(c) ==
    /\ At(c, "failRead")
    /\ Write(c, call[c].fresh)
    /\ UNCHANGED <<record, verified, failures>>

\* A verified, a denied and an earlier failed record are replaced.
ReadFailed(c) ==
    /\ At(c, "failRead")
    /\ \/ Found(c, {"consumed"}) /\ Return(c, "conflict")
       \/ ~Found(c, {"consumed"}) /\ Write(c, call[c].fresh)
    /\ UNCHANGED <<record, verified, failures>>

PutFresh(c) ==
    /\ record' = [record EXCEPT ![call[c].token] = call[c].fresh]
    /\ verified' = IF call[c].fresh.status = "verified"
                   THEN verified \cup {call[c].token} ELSE verified

WriteRecord(c) ==
    /\ At(c, "write")
    /\ PutFresh(c)
    /\ Return(c, "recorded")
    /\ UNCHANGED failures

\* One boundary call that nothing was read for.
Delete(c, t) ==
    /\ At(c, "idle")
    /\ Reach(t)
    /\ record' = [record EXCEPT ![t] = None]
    /\ call' = [call EXCEPT ![c] = Ended("deleted")]
    /\ UNCHANGED <<verified, failures>>

Fails ==
    /\ failures < MaxFailures
    /\ failures' = failures + 1

ReadFails(c) ==
    /\ call[c].pc \notin {"idle", "write"}
    /\ Fails
    /\ Return(c, "dependency-failed")
    /\ UNCHANGED <<record, verified>>

WriteFails(c) ==
    /\ At(c, "write")
    /\ Fails
    /\ PutFresh(c) \/ UNCHANGED <<record, verified>>
    /\ Return(c, "dependency-failed")

DeleteFails(c, t) ==
    /\ At(c, "idle")
    /\ Reach(t)
    /\ Fails
    /\ record' = [record EXCEPT ![t] = None] \/ UNCHANGED record
    /\ call' = [call EXCEPT ![c] = Ended("dependency-failed")]
    /\ UNCHANGED verified

Start(c) ==
    \/ RejectInput(c)
    \/ \E t \in Tokens :
          \/ Delete(c, t) \/ DeleteFails(c, t)
          \/ \E k \in Keys \cup {None} :
                \/ BeginVerified(c, t, k) \/ BeginDenied(c, t, k)
                \/ BeginConsumed(c, t, k) \/ BeginFailed(c, t, k)

Step(c) ==
    \/ ReadVerified(c) \/ ReadDenied(c) \/ ReadConsumed(c) \/ ReadFailed(c)
    \/ WriteRecord(c) \/ ReadFails(c) \/ WriteFails(c)

Next == \E c \in Callers : Start(c) \/ Step(c)

Spec == Init /\ [][Next]_vars

-----------------------------------------------------------------------------
(* Properties                                                               *)

\* Records and operations in flight have the shape their interfaces declare.
TypeOK ==
    /\ record \in [Tokens -> Records \cup {None}]
    /\ call \in [Callers -> Calls]
    /\ verified \subseteq Tokens
    /\ overlapped \subseteq Tokens
    /\ failures \in Nat

\* A consumed record reflects a verification: whatever operations overlap, fail
\* or delete, no token is recorded as consumed, or about to be, that was never
\* recorded as verified.
ConsumedAfterVerified ==
    /\ \A t \in Tokens : record[t] # None /\ record[t].status = "consumed" => t \in verified
    /\ \A c \in Callers : At(c, "write") /\ call[c].fresh.status = "consumed"
                             => call[c].token \in verified

\* A consumed token is never recorded as verified, denied or failed again, and
\* keeps the key of its first consumption, retries of rejected operations
\* included: unless two operations on the token overlap.  Only delete removes it.
ConsumedStands ==
    [][\A t \in Tokens \ overlapped' : record[t] # None /\ record[t].status = "consumed"
          => record'[t] \in {record[t], None}]_record

\* A token that was denied or failed is never verified or consumed until it is
\* deleted, unless operations on it overlap: a retry does not undo a refusal.
RefusalStands ==
    [][\A t \in Tokens \ overlapped' :
          /\ record[t] # None /\ record[t].status \in {"denied", "failed"}
          /\ record'[t] # None
          => record'[t].status \in {"denied", "failed"}]_record

\* A verified token is not turned into a denied one, unless operations on it
\* overlap.
VerifiedIsNotDenied ==
    [][\A t \in Tokens \ overlapped' :
          record[t] # None /\ record[t].status = "verified" /\ record'[t] # None
          => record'[t].status # "denied"]_record
=============================================================================

----------------------- MODULE InboundIdempotencyStore -----------------------
(***************************************************************************)
(* The inbound idempotency store of the OpenClaw adapter,                   *)
(* storage/inbound-idempotency/inbound-idempotency-store.ts with the record *)
(* constructors of inbound-idempotency/inbound-idempotency-records.ts.      *)
(*                                                                          *)
(* An inbound event is reserved before its command intent is dispatched.    *)
(* Each operation awaits a read of the record and then a write of a whole   *)
(* record; operations interleave between the two.  A duplicate writes too:  *)
(* it puts back the record it read with the time it was last seen.  A       *)
(* boundary call may reject, a write before or after it took effect.        *)
(*                                                                          *)
(* An operator marked "Faulty" is a variant with a bug, used by no          *)
(* specification; it shows that a property can fail.                        *)
(***************************************************************************)
EXTENDS Naturals

CONSTANTS
    Keys,           \* idempotency refs
    Events,         \* event refs
    Callers,        \* operations that can be in flight at the same time
    MaxFailures,    \* bound: boundary calls that reject
    None            \* the undefined and the null of the source

Statuses == {"reserved", "completed", "failed"}

\* firstSeenRef, fingerprint and channel stay with the event; lastSeenRef is
\* told apart by no property, the outcome refs follow the status.
Records == [event : Events, status : Statuses]

Pcs     == {"idle", "reserveRead", "reserveWrite", "seenWrite",
            "completeRead", "failRead", "settleWrite"}
Replies == {"none", "reserved", "duplicate", "settled", "conflict", "not-found",
            "invalid-input", "dependency-failed"}

Calls == [pc : Pcs, key : Keys \cup {None}, fresh : Records \cup {None}, reply : Replies]

ASSUME InboundAssumption ==
    /\ MaxFailures \in Nat
    /\ None \notin Keys /\ None \notin Records

VARIABLES
    record,     \* the record of each idempotency ref, None if there is none
    call,       \* each operation: its key, the record it is to write, its answer
    dispatched, \* history: shouldDispatchCommandIntent answers, 0, 1 or 2 (more)
    overlapped, \* history: the keys that two operations were in flight on at once
    failures    \* how many boundary calls have rejected

vars == <<record, call, dispatched, overlapped, failures>>

At(c, p) == call[c].pc = p

Started(p, k, fresh) == [pc |-> p, key |-> k, fresh |-> fresh, reply |-> "none"]
Ended(answer)        == [pc |-> "idle", key |-> None, fresh |-> None, reply |-> answer]

Return(c, answer) ==
    /\ call' = [call EXCEPT ![c] = Ended(answer)]
    /\ UNCHANGED overlapped

Write(c, p, fresh) ==
    /\ call' = [call EXCEPT ![c] = Started(p, call[c].key, fresh)]
    /\ UNCHANGED overlapped

\* An operation on a key begins, maybe while another on it is in flight.
Reach(k) == overlapped' = overlapped \cup ({k} \cap {call[c].key : c \in Callers})

Begin(c, p, k, fresh) ==
    /\ At(c, "idle")
    /\ call' = [call EXCEPT ![c] = Started(p, k, fresh)]
    /\ Reach(k)
    /\ UNCHANGED <<record, dispatched, failures>>

Init ==
    /\ record = [k \in Keys |-> None]
    /\ call = [c \in Callers |-> Ended("none")]
    /\ dispatched = [k \in Keys |-> 0]
    /\ overlapped = {}
    /\ failures = 0

Existing(c) == record[call[c].key]
Found(c, statuses) == Existing(c) # None /\ Existing(c).status \in statuses

\* createInboundIdempotencyRecord with status reserved.
NewRecord(e) == [event |-> e, status |-> "reserved"]

\* completeRecord and failRecord keep the event of the record they were given.
Settled(existing, outcome) == [event |-> existing.event, status |-> outcome]

\* An input the normalizers refuse never reaches the boundary.
RejectInput(c) ==
    /\ At(c, "idle")
    /\ Return(c, "invalid-input")
    /\ UNCHANGED <<record, dispatched, failures>>

-----------------------------------------------------------------------------
(* reserve                                                                  *)

BeginReserve(c, k, e) == Begin(c, "reserveRead", k, NewRecord(e))

\* Faulty: an event that failed before is reserved again.
ReserveReadRetries(c) ==
    /\ At(c, "reserveRead")
    /\ \/ Found(c, {"reserved", "completed"}) /\ Write(c, "seenWrite", Existing(c))
       \/ ~Found(c, {"reserved", "completed"}) /\ Write(c, "reserveWrite", call[c].fresh)
    /\ UNCHANGED <<record, dispatched, failures>>

ReserveRead(c) ==
    /\ At(c, "reserveRead")
    /\ \/ Existing(c) = None /\ Write(c, "reserveWrite", call[c].fresh)
       \/ Existing(c) # None /\ Write(c, "seenWrite", Existing(c))
    /\ UNCHANGED <<record, dispatched, failures>>

Put(c) == record' = [record EXCEPT ![call[c].key] = call[c].fresh]

\* shouldDispatchCommandIntent true.
ReserveWrite(c) ==
    /\ At(c, "reserveWrite")
    /\ Put(c)
    /\ dispatched' = [dispatched EXCEPT ![call[c].key] = IF @ = 0 THEN 1 ELSE 2]
    /\ Return(c, "reserved")
    /\ UNCHANGED failures

\* shouldDispatchCommandIntent false, with the record as it was read.
SeenWrite(c) ==
    /\ At(c, "seenWrite")
    /\ Put(c)
    /\ Return(c, "duplicate")
    /\ UNCHANGED <<dispatched, failures>>

-----------------------------------------------------------------------------
(* markCompleted, markFailed                                                *)

BeginComplete(c, k) == Begin(c, "completeRead", k, None)
BeginFail(c, k)     == Begin(c, "failRead", k, None)

CompleteRead(c) ==
    /\ At(c, "completeRead")
    /\ \/ Existing(c) = None /\ Return(c, "not-found")
       \/ Found(c, {"completed"}) /\ Return(c, "settled")
       \/ Found(c, {"failed"}) /\ Return(c, "conflict")
       \/ /\ Found(c, {"reserved"})
          /\ Write(c, "settleWrite", Settled(Existing(c), "completed"))
    /\ UNCHANGED <<record, dispatched, failures>>

\* Faulty: a completed record may fail.
FailReadAny(c) ==
    /\ At(c, "failRead")
    /\ \/ Existing(c) = None /\ Return(c, "not-found")
       \/ Existing(c) # None /\ Write(c, "settleWrite", Settled(Existing(c), "failed"))
    /\ UNCHANGED <<record, dispatched, failures>>

FailRead(c) ==
    /\ At(c, "failRead")
    /\ \/ Existing(c) = None /\ Return(c, "not-found")
       \/ Found(c, {"completed"}) /\ Return(c, "conflict")
       \/ Found(c, {"failed"}) /\ Return(c, "settled")
       \/ /\ Found(c, {"reserved"})
          /\ Write(c, "settleWrite", Settled(Existing(c), "failed"))
    /\ UNCHANGED <<record, dispatched, failures>>

SettleWrite(c) ==
    /\ At(c, "settleWrite")
    /\ Put(c)
    /\ Return(c, "settled")
    /\ UNCHANGED <<dispatched, failures>>

-----------------------------------------------------------------------------
Fails ==
    /\ failures < MaxFailures
    /\ failures' = failures + 1

Writing(c) == call[c].pc \in {"reserveWrite", "seenWrite", "settleWrite"}

ReadFails(c) ==
    /\ ~At(c, "idle") /\ ~Writing(c)
    /\ Fails
    /\ Return(c, "dependency-failed")
    /\ UNCHANGED <<record, dispatched>>

\* Faulty: an event whose reservation could not be written is dispatched.
WriteFailsDispatches(c) ==
    /\ Writing(c)
    /\ Fails
    /\ Put(c) \/ UNCHANGED record
    /\ dispatched' = [dispatched EXCEPT ![call[c].key] = IF @ = 0 THEN 1 ELSE 2]
    /\ Return(c, "reserved")

WriteFails(c) ==
    /\ Writing(c)
    /\ Fails
    /\ Put(c) \/ UNCHANGED record
    /\ Return(c, "dependency-failed")
    /\ UNCHANGED dispatched

Start(c) ==
    \/ RejectInput(c)
    \/ \E k \in Keys :
          \/ \E e \in Events : BeginReserve(c, k, e)
          \/ BeginComplete(c, k) \/ BeginFail(c, k)

Step(c) ==
    \/ ReserveRead(c) \/ ReserveWrite(c) \/ SeenWrite(c)
    \/ CompleteRead(c) \/ FailRead(c) \/ SettleWrite(c)
    \/ ReadFails(c) \/ WriteFails(c)

Next == \E c \in Callers : Start(c) \/ Step(c)

Spec == Init /\ [][Next]_vars

-----------------------------------------------------------------------------
(* Properties                                                               *)

\* Records and operations in flight have the shape their interfaces declare.
TypeOK ==
    /\ record \in [Keys -> Records \cup {None}]
    /\ call \in [Callers -> Calls]
    /\ dispatched \in [Keys -> 0..2]
    /\ overlapped \subseteq Keys
    /\ failures \in Nat

\* An event whose command intent may be dispatched has a stored record from
\* then on, whatever operations overlap or fail: after a restart it is
\* recognised as a duplicate.
DispatchIsRemembered == \A k \in Keys : dispatched[k] > 0 => record[k] # None

\* The command intent of a key is dispatched at most once, redelivered events,
\* rejected boundary calls and operations on other keys included: unless two
\* operations on the key itself overlap.
DispatchedOnce == \A k \in Keys \ overlapped : dispatched[k] <= 1

\* The store implements the ledger: a key is reserved for one caller, and its
\* outcome, a failure too, is final.
Ledger == INSTANCE IdempotencyLedger WITH
    Final <- {"completed", "failed"},
    status <- [k \in Keys |-> IF record[k] = None THEN "free" ELSE record[k].status],
    granted <- dispatched,
    contended <- overlapped

ImplementsLedger == Ledger!Spec
=============================================================================

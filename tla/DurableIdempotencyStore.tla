----------------------- MODULE DurableIdempotencyStore -----------------------
(***************************************************************************)
(* The durable idempotency store of the OpenClaw adapter,                   *)
(* storage/idempotency/durable-idempotency-store.ts.                        *)
(*                                                                          *)
(* A key is reserved, then marked completed or failed; a failed one may be  *)
(* completed or fail again, and a key can be deleted.  Each operation       *)
(* awaits a read of the record and then a write of a whole record, with     *)
(* other operations in between; a boundary call may reject, a write before  *)
(* or after it took effect.                                                 *)
(*                                                                          *)
(* An operator marked "Faulty" is a variant with a bug, used by no          *)
(* specification; it shows that a property can fail.                        *)
(***************************************************************************)
EXTENDS Naturals

CONSTANTS
    Keys,           \* idempotency keys
    Operations,     \* operation refs
    Callers,        \* store operations that can be in flight at the same time
    MaxFailures,    \* bound: boundary calls that reject
    None            \* the undefined and the null of the source

Statuses == {"pending", "completed", "failed"}

\* The operationRef stands for what a call adds to the record: result, failure,
\* correlation and times come with it.
Records == [status : Statuses, operation : Operations \cup {None}]

Pcs     == {"idle", "reserveRead", "completeRead", "failRead", "reserveWrite", "settleWrite"}
Replies == {"none", "reserved", "duplicate", "settled", "conflict", "not-found", "deleted",
            "invalid-input", "dependency-failed"}

\* fresh is the input of the call before its read, the record to write after it.
Calls == [pc : Pcs, key : Keys \cup {None}, fresh : Records \cup {None}, reply : Replies]

ASSUME IdempotencyAssumption ==
    /\ MaxFailures \in Nat
    /\ None \notin Keys \cup Operations /\ None \notin Records

VARIABLES
    record,     \* the record of each key, None if there is none
    call,       \* each store operation: its key, its record, its answer
    reserved,   \* history: reserved answers of a key since it was deleted, 0, 1 or 2 (more)
    overlapped, \* history: the keys that two operations were in flight on at once
    failures    \* how many boundary calls have rejected

vars == <<record, call, reserved, overlapped, failures>>

At(c, p) == call[c].pc = p

Started(p, k, fresh) == [pc |-> p, key |-> k, fresh |-> fresh, reply |-> "none"]
Ended(answer)        == [pc |-> "idle", key |-> None, fresh |-> None, reply |-> answer]

Return(c, answer) ==
    /\ call' = [call EXCEPT ![c] = Ended(answer)]
    /\ UNCHANGED overlapped

Write(c, p, fresh) ==
    /\ call' = [call EXCEPT ![c] = Started(p, call[c].key, fresh)]
    /\ UNCHANGED overlapped

Fresh(status, o) == [status |-> status, operation |-> o]

\* An operation on a key begins, maybe while another on it is in flight.
Reach(k) == overlapped' = overlapped \cup ({k} \cap {call[c].key : c \in Callers})

Begin(c, p, k, fresh) ==
    /\ At(c, "idle")
    /\ call' = [call EXCEPT ![c] = Started(p, k, fresh)]
    /\ Reach(k)
    /\ UNCHANGED <<record, reserved, failures>>

Init ==
    /\ record = [k \in Keys |-> None]
    /\ call = [c \in Callers |-> Ended("none")]
    /\ reserved = [k \in Keys |-> 0]
    /\ overlapped = {}
    /\ failures = 0

Existing(c) == record[call[c].key]
Found(c, statuses) == Existing(c) # None /\ Existing(c).status \in statuses

\* An input the normalizers refuse never reaches the boundary.
RejectInput(c) ==
    /\ At(c, "idle")
    /\ Return(c, "invalid-input")
    /\ UNCHANGED <<record, reserved, failures>>

-----------------------------------------------------------------------------
BeginReserve(c, k, o)  == Begin(c, "reserveRead", k, Fresh("pending", o))
BeginComplete(c, k, o) == Begin(c, "completeRead", k, Fresh("completed", o))
BeginFail(c, k, o)     == Begin(c, "failRead", k, Fresh("failed", o))

\* Faulty: a key whose operation failed is handed out again.
ReserveReadFailed(c) ==
    /\ At(c, "reserveRead")
    /\ \/ Found(c, {"pending", "completed"}) /\ Return(c, "duplicate")
       \/ ~Found(c, {"pending", "completed"}) /\ Write(c, "reserveWrite", call[c].fresh)
    /\ UNCHANGED <<record, reserved, failures>>

ReserveRead(c) ==
    /\ At(c, "reserveRead")
    /\ \/ Existing(c) = None /\ Write(c, "reserveWrite", call[c].fresh)
       \/ Existing(c) # None /\ Return(c, "duplicate")
    /\ UNCHANGED <<record, reserved, failures>>

\* createCompletedRecord and createFailedRecord: input.operationRef ?? existing.operationRef.
Settled(fresh, existing) ==
    IF fresh.operation = None THEN Fresh(fresh.status, existing.operation) ELSE fresh

CompleteRead(c) ==
    /\ At(c, "completeRead")
    /\ \/ Existing(c) = None /\ Return(c, "not-found")
       \/ Found(c, {"completed"}) /\ Return(c, "settled")
       \/ /\ Found(c, {"pending", "failed"})
          /\ Write(c, "settleWrite", Settled(call[c].fresh, Existing(c)))
    /\ UNCHANGED <<record, reserved, failures>>

\* A failure is recorded over an earlier one.
FailRead(c) ==
    /\ At(c, "failRead")
    /\ \/ Existing(c) = None /\ Return(c, "not-found")
       \/ Found(c, {"completed"}) /\ Return(c, "conflict")
       \/ /\ Found(c, {"pending", "failed"})
          /\ Write(c, "settleWrite", Settled(call[c].fresh, Existing(c)))
    /\ UNCHANGED <<record, reserved, failures>>

Put(c) == record' = [record EXCEPT ![call[c].key] = call[c].fresh]

\* Faulty: the pending record is lost and the caller told that the key is its own.
ReserveWriteLost(c) ==
    /\ At(c, "reserveWrite")
    /\ reserved' = [reserved EXCEPT ![call[c].key] = IF @ = 0 THEN 1 ELSE 2]
    /\ Return(c, "reserved")
    /\ UNCHANGED <<record, failures>>

ReserveWrite(c) ==
    /\ At(c, "reserveWrite")
    /\ Put(c)
    /\ reserved' = [reserved EXCEPT ![call[c].key] = IF @ = 0 THEN 1 ELSE 2]
    /\ Return(c, "reserved")
    /\ UNCHANGED failures

SettleWrite(c) ==
    /\ At(c, "settleWrite")
    /\ Put(c)
    /\ Return(c, "settled")
    /\ UNCHANGED <<reserved, failures>>

Forget(k) ==
    /\ record' = [record EXCEPT ![k] = None]
    /\ reserved' = [reserved EXCEPT ![k] = 0]

\* One boundary call that nothing was read for.
Delete(c, k) ==
    /\ At(c, "idle")
    /\ Reach(k)
    /\ Forget(k)
    /\ call' = [call EXCEPT ![c] = Ended("deleted")]
    /\ UNCHANGED failures

-----------------------------------------------------------------------------
Fails ==
    /\ failures < MaxFailures
    /\ failures' = failures + 1

ReadFails(c) ==
    /\ call[c].pc \in {"reserveRead", "completeRead", "failRead"}
    /\ Fails
    /\ Return(c, "dependency-failed")
    /\ UNCHANGED <<record, reserved>>

WriteFails(c) ==
    /\ call[c].pc \in {"reserveWrite", "settleWrite"}
    /\ Fails
    /\ Put(c) \/ UNCHANGED record
    /\ Return(c, "dependency-failed")
    /\ UNCHANGED reserved

DeleteFails(c, k) ==
    /\ At(c, "idle")
    /\ Reach(k)
    /\ Fails
    /\ Forget(k) \/ UNCHANGED <<record, reserved>>
    /\ call' = [call EXCEPT ![c] = Ended("dependency-failed")]

Start(c) ==
    \/ RejectInput(c)
    \/ \E k \in Keys :
          \/ Delete(c, k) \/ DeleteFails(c, k)
          \/ \E o \in Operations \cup {None} :
                BeginReserve(c, k, o) \/ BeginComplete(c, k, o) \/ BeginFail(c, k, o)

Step(c) ==
    \/ ReserveRead(c) \/ CompleteRead(c) \/ FailRead(c)
    \/ ReserveWrite(c) \/ SettleWrite(c) \/ ReadFails(c) \/ WriteFails(c)

Next == \E c \in Callers : Start(c) \/ Step(c)

Spec == Init /\ [][Next]_vars

-----------------------------------------------------------------------------
(* Properties                                                               *)

\* Records and operations in flight have the shape their interfaces declare.
TypeOK ==
    /\ record \in [Keys -> Records \cup {None}]
    /\ call \in [Callers -> Calls]
    /\ reserved \in [Keys -> 0..2]
    /\ overlapped \subseteq Keys
    /\ failures \in Nat

\* A key that was handed out has a stored record until it is deleted, whatever
\* operations overlap or fail: after a restart it is not handed out again.
ReservationIsRemembered == \A k \in Keys : reserved[k] > 0 => record[k] # None

\* The store implements the ledger: a key is reserved for one caller until it is
\* deleted, and only a completion is final.
Ledger == INSTANCE IdempotencyLedger WITH
    Final <- {"completed"},
    status <- [k \in Keys |-> IF record[k] = None THEN "free"
                              ELSE IF record[k].status = "pending" THEN "reserved"
                              ELSE record[k].status],
    granted <- reserved,
    contended <- overlapped

ImplementsLedger == Ledger!Spec
=============================================================================

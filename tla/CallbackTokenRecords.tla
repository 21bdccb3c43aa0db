------------------------- MODULE CallbackTokenRecords -------------------------
(***************************************************************************)
(* The lifecycle of a callback token: callback-tokens/records.ts and the    *)
(* record store storage/callback-tokens/fake-callback-token-record-store.ts *)
(* of the OpenClaw adapter.                                                 *)
(*                                                                          *)
(* A token is addressed by its opaque handle and kept under a public record *)
(* ref.  Every operation of the store is synchronous, so it is one action.  *)
(* Timestamps are kept as the set of stages that have one.                  *)
(***************************************************************************)
EXTENDS Naturals

CONSTANTS
    Handles,        \* opaque token handles
    Refs,           \* public record refs
    MaxConsumes,    \* bound: consumptions counted on one record
    None            \* the undefined of the source

Statuses    == {"issued", "verified", "consumed", "permission-denied", "failed"}
Stages      == {"verified", "consumed", "denied", "failed"}
Permissions == {"allowed", "denied"}

Records == [status : Statuses, permission : Permissions \cup {None},
            attempts : Nat, duplicates : Nat, stamps : SUBSET Stages]

Answers == {"none", "invalid-input", "not-found", "conflict", "threw",
            "issued", "already-issued", "verified", "already-verified",
            "consumed", "already-consumed", "permission-denied",
            "already-denied", "failed"}

ASSUME TokenAssumption ==
    /\ MaxConsumes \in Nat
    /\ None \notin Refs /\ None \notin Records /\ None \notin Permissions

VARIABLES
    refOf,      \* byTokenHandle: the record ref of each handle
    record,     \* byRecordRef: the record of each ref
    answer,     \* what the last call was answered
    fresh       \* history: consumedThisAttempt answers per handle, 0, 1 or 2 (more)

tokens    == <<refOf, record>>
tokenVars == <<refOf, record, answer, fresh>>

Init ==
    /\ refOf = [h \in Handles |-> None]
    /\ record = [r \in Refs |-> None]
    /\ answer = "none"
    /\ fresh = [h \in Handles |-> 0]

Lookup(h) == IF refOf[h] = None THEN None ELSE record[refOf[h]]
Known(h)  == Lookup(h) # None
StatusOf(h) == IF Known(h) THEN Lookup(h).status ELSE "absent"

Answered(a) == answer' = a /\ UNCHANGED <<tokens, fresh>>

Write(h, rec) ==
    /\ record' = [record EXCEPT ![refOf[h]] = rec]
    /\ UNCHANGED refOf

\* A handle, ref or timestamp the normalizers refuse: nothing is written.
RejectInput == Answered("invalid-input")

Unknown(h) == ~Known(h) /\ Answered("not-found")

-----------------------------------------------------------------------------
IssuedRecord ==
    [status |-> "issued", permission |-> None, attempts |-> 0, duplicates |-> 0,
     stamps |-> {}]

\* Faulty: a record ref in use is taken over by another handle.
IssueTakesRef(h, r) ==
    \/ Known(h) /\ Answered("already-issued")
    \/ /\ ~Known(h)
       /\ refOf' = [refOf EXCEPT ![h] = r]
       /\ record' = [record EXCEPT ![r] = IF @ = None THEN IssuedRecord ELSE @]
       /\ answer' = "issued"
       /\ UNCHANGED fresh

Issue(h, r) ==
    \/ Known(h) /\ Answered("already-issued")
    \/ ~Known(h) /\ record[r] # None /\ Answered("conflict")
    \/ /\ ~Known(h) /\ record[r] = None
       /\ refOf' = [refOf EXCEPT ![h] = r]
       /\ record' = [record EXCEPT ![r] = IssuedRecord]
       /\ answer' = "issued"
       /\ UNCHANGED fresh

-----------------------------------------------------------------------------
\* The record with a new status and decision, and the stage stamped.
Marked(rec, status, permission, stage) ==
    [status |-> status, permission |-> permission, attempts |-> rec.attempts,
     duplicates |-> rec.duplicates, stamps |-> rec.stamps \cup {stage}]

VerifiedRecord(rec) == Marked(rec, "verified", rec.permission, "verified")

Verify(h) ==
    \/ Unknown(h)
    \/ StatusOf(h) \in {"verified", "consumed"} /\ Answered("already-verified")
    \/ StatusOf(h) \in {"permission-denied", "failed"} /\ Answered("conflict")
    \/ /\ StatusOf(h) = "issued"
       /\ Write(h, VerifiedRecord(Lookup(h)))
       /\ answer' = "verified"
       /\ UNCHANGED fresh

-----------------------------------------------------------------------------
Counted(rec, attempts, duplicates) ==
    [status |-> rec.status, permission |-> rec.permission,
     attempts |-> rec.attempts + attempts,
     duplicates |-> rec.duplicates + duplicates, stamps |-> rec.stamps]

ConsumedRecord(rec) == Counted(Marked(rec, "consumed", "allowed", "consumed"), 1, 0)

\* Faulty: a replay is not counted as a duplicate.
ReplayedRecordUncounted(rec) == Counted(rec, 1, 0)

\* A replay of a consumed token is counted and changes nothing else.
ReplayedRecord(rec) == Counted(rec, 1, 1)

\* p is the status of the permission decision handed in.  The replay of a
\* consumed token is outside the try block: it throws what the mark throws.
Consume(h, p) ==
    \/ Unknown(h)
    \/ StatusOf(h) = "permission-denied" /\ Answered("permission-denied")
    \/ StatusOf(h) = "consumed" /\ p = "denied" /\ Answered("threw")
    \/ /\ StatusOf(h) = "consumed" /\ p = "allowed"
       /\ Lookup(h).attempts < MaxConsumes
       /\ Write(h, ReplayedRecord(Lookup(h)))
       /\ answer' = "already-consumed"
       /\ UNCHANGED fresh
    \/ StatusOf(h) \in {"issued", "failed"} /\ Answered("conflict")
    \/ StatusOf(h) = "verified" /\ p = "denied" /\ Answered("conflict")
    \/ /\ StatusOf(h) = "verified" /\ p = "allowed"
       /\ Write(h, ConsumedRecord(Lookup(h)))
       /\ answer' = "consumed"
       /\ fresh' = [fresh EXCEPT ![h] = IF @ = 0 THEN 1 ELSE 2]

-----------------------------------------------------------------------------
DeniedRecord(rec) == Marked(rec, "permission-denied", "denied", "denied")

Deny(h, p) ==
    \/ Unknown(h)
    \/ StatusOf(h) = "consumed" /\ Answered("conflict")
    \/ StatusOf(h) = "permission-denied" /\ Answered("already-denied")
    \/ /\ StatusOf(h) \in {"issued", "verified", "failed"} /\ p = "allowed"
       /\ Answered("invalid-input")
    \/ /\ StatusOf(h) \in {"issued", "verified", "failed"} /\ p = "denied"
       /\ Write(h, DeniedRecord(Lookup(h)))
       /\ answer' = "permission-denied"
       /\ UNCHANGED fresh

-----------------------------------------------------------------------------
FailedRecord(rec) == Marked(rec, "failed", rec.permission, "failed")

\* Faulty: a consumed token can still fail.
FailConsumed(h) ==
    \/ Unknown(h)
    \/ /\ Known(h)
       /\ Write(h, FailedRecord(Lookup(h)))
       /\ answer' = "failed"
       /\ UNCHANGED fresh

\* A failure always answers as fresh, from any state but consumed.
Fail(h) ==
    \/ Unknown(h)
    \/ StatusOf(h) = "consumed" /\ Answered("conflict")
    \/ /\ StatusOf(h) \in Statuses \ {"consumed"}
       /\ Write(h, FailedRecord(Lookup(h)))
       /\ answer' = "failed"
       /\ UNCHANGED fresh

-----------------------------------------------------------------------------
Operation(h) ==
    \/ \E r \in Refs : Issue(h, r)
    \/ Verify(h)
    \/ \E p \in Permissions : Consume(h, p) \/ Deny(h, p)
    \/ Fail(h)

Next == RejectInput \/ \E h \in Handles : Operation(h)

Spec == Init /\ [][Next]_tokenVars

-----------------------------------------------------------------------------
(* Properties                                                               *)

\* The handle index and the records have the shape their interfaces declare.
TypeOK ==
    /\ refOf \in [Handles -> Refs \cup {None}]
    /\ record \in [Refs -> Records \cup {None}]
    /\ answer \in Answers
    /\ fresh \in [Handles -> 0..2]

\* Each handle has a record of its own, and every record a handle: whatever is
\* done with one token leaves the others alone.
HandlesOwnRecords ==
    /\ \A h \in Handles : refOf[h] # None => record[refOf[h]] # None
    /\ \A r \in Refs : record[r] # None => \E h \in Handles : refOf[h] = r
    /\ \A g, h \in Handles : refOf[g] = refOf[h] /\ refOf[h] # None => g = h

\* consumedThisAttempt is answered once per token, exactly when its record is
\* consumed, and the counters of the record account for every replay.
ConsumedOnce ==
    \A h \in Handles :
        /\ fresh[h] = IF StatusOf(h) = "consumed" THEN 1 ELSE 0
        /\ Known(h) => Lookup(h).attempts = Lookup(h).duplicates + fresh[h]

\* A consumed token was verified, was never denied and never failed.
ConsumedIsClean ==
    \A r \in Refs : record[r] # None /\ record[r].status = "consumed" =>
        /\ record[r].stamps = {"verified", "consumed"}
        /\ record[r].permission = "allowed"

\* A token that was denied or failed can move between the two but never becomes
\* consumable again, and a consumed one stays consumed.
OutcomeIsFinal ==
    [][\A r \in Refs : record[r] # None =>
          /\ record[r].stamps \cap {"denied", "failed"} # {}
                => record'[r].status \in {"permission-denied", "failed"}
          /\ record[r].status = "consumed" => record'[r].status = "consumed"]_tokenVars
=============================================================================

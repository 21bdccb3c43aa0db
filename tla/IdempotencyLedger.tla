-------------------------- MODULE IdempotencyLedger --------------------------
(***************************************************************************)
(* What an idempotency store promises its caller, whatever records it keeps *)
(* and however many boundary calls an operation takes: a key is reserved    *)
(* for one caller, a reservation is settled, and a final outcome stands     *)
(* until the key is forgotten.                                              *)
(*                                                                          *)
(* Nothing is promised of a key once operations on it have overlapped.      *)
(*                                                                          *)
(* InboundIdempotencyStore and DurableIdempotencyStore implement it.        *)
(***************************************************************************)
EXTENDS Naturals

CONSTANTS
    Keys,       \* idempotency keys
    Final       \* the outcomes that stand, of those below

Outcomes == {"completed", "failed"}
Statuses == Outcomes \cup {"free", "reserved"}

VARIABLES
    status,     \* free, reserved, or the outcome of each key
    granted,    \* callers told that the key is theirs: 0, 1 or 2 (more)
    contended   \* the keys that operations overlapped on

vars == <<status, granted, contended>>

Init ==
    /\ status = [k \in Keys |-> "free"]
    /\ granted = [k \in Keys |-> 0]
    /\ contended = {}

\* The one caller that reserves a free key is told so, or its answer is lost.
Reserve(k) ==
    /\ status[k] = "free"
    /\ status' = [status EXCEPT ![k] = "reserved"]
    /\ granted' \in {[granted EXCEPT ![k] = 1], granted}
    /\ UNCHANGED contended

Settle(k) ==
    /\ status[k] \notin Final \cup {"free"}
    /\ \E outcome \in Outcomes : status' = [status EXCEPT ![k] = outcome]
    /\ UNCHANGED <<granted, contended>>

Forget(k) ==
    /\ status' = [status EXCEPT ![k] = "free"]
    /\ granted' = [granted EXCEPT ![k] = 0]
    /\ UNCHANGED contended

\* Whatever becomes of a contended key, no other key is touched.
Contend(k) ==
    /\ \E s \in Statuses : status' = [status EXCEPT ![k] = s]
    /\ \E n \in 0..2 : granted' = [granted EXCEPT ![k] = n]
    /\ contended' = contended \cup {k}

Next == \E k \in Keys : Reserve(k) \/ Settle(k) \/ Forget(k) \/ Contend(k)

Spec == Init /\ [][Next]_vars
=============================================================================

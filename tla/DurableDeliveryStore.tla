------------------------- MODULE DurableDeliveryStore -------------------------
(***************************************************************************)
(* The durable delivery store of the OpenClaw adapter,                      *)
(* packages/openclaw-adapter/src/storage/delivery/durable-delivery-store.ts *)
(*                                                                          *)
(* The store keeps four kinds of record behind an injected boundary whose   *)
(* read and write calls are awaited one by one: the attempt, the result and *)
(* the external message of a deliveryRef, and the index from an idempotency *)
(* key to a deliveryRef.  Nothing spans two boundary calls, so every await  *)
(* is a point where another call runs, or where this call is lost (the      *)
(* boundary rejects, or the process stops).  One action is one boundary     *)
(* call with the synchronous code that follows it.                          *)
(*                                                                          *)
(* An operator marked "Faulty" is a variant of the next one with a bug in   *)
(* it; no specification uses it.  It shows that a property can fail.        *)
(***************************************************************************)
EXTENDS Naturals

CONSTANTS
    DeliveryRefs,   \* delivery references (operation refs)
    Keys,           \* idempotency keys
    Targets,        \* delivery targets: channel, chat, thread, workspace, agent
    Callers,        \* calls that can be in flight at the same time
    MaxAbandoned,   \* bound: calls lost between two awaits
    None,           \* the undefined of the source
    Unreadable      \* a stored record the normalizers turn into undefined

Statuses == {"created", "delivered", "failed"}
Attempts == [key : Keys, status : Statuses, target : Targets]
Results  == {"success", "failure"}

Pcs == {"idle",
        "regReadAttempt", "regReadIndex", "regReadIndexed",
        "regWriteAttempt", "regWriteIndex",
        "resolveKey", "delReadAttempt", "delWriteResult", "delWriteExternal",
        "delWriteAttempt",
        "failWriteResult", "failReadAttempt", "failWriteAttempt"}
Replies == {"none", "created", "duplicate", "delivered", "failed", "threw"}
Outcomes == {"none", "delivered", "failed"}

Calls == [pc : Pcs, ref : DeliveryRefs \cup {None}, key : Keys \cup {None},
          target : Targets \cup {None}, outcome : Outcomes,
          attempt : Attempts \cup {None}, reply : Replies]

ASSUME DeliveryAssumption ==
    /\ MaxAbandoned \in Nat
    /\ None \notin DeliveryRefs /\ None \notin Keys /\ None \notin Targets
    /\ None \notin Attempts /\ None \notin Results
    /\ Unreadable \notin Attempts /\ Unreadable \notin DeliveryRefs
    /\ Unreadable # None

VARIABLES
    attempt,    \* the attempt record of each deliveryRef
    result,     \* the result record of each deliveryRef
    external,   \* the target of the external message record of each deliveryRef
    index,      \* the deliveryRef each idempotency key is indexed under
    call,       \* what each caller is doing, with its local copies
    overlapped, \* history: two calls have been in flight at the same time
    abandoned   \* how many calls have been lost between two awaits

store == <<attempt, result, external, index>>
vars  == <<attempt, result, external, index, call, overlapped, abandoned>>

\* A call at its first await, and a call that has answered rep.
Started(p, r, k, t, o) ==
    [pc |-> p, ref |-> r, key |-> k, target |-> t, outcome |-> o,
     attempt |-> None, reply |-> "none"]
Ended(r, k, rep) ==
    [pc |-> "idle", ref |-> r, key |-> k, target |-> None, outcome |-> "none",
     attempt |-> None, reply |-> rep]

-----------------------------------------------------------------------------
(* Reads: a record of another schema version or shape counts as absent.     *)

ReadAttempt(r) == IF attempt[r] = Unreadable THEN None ELSE attempt[r]
ReadIndex(k)   == IF index[k] = Unreadable THEN None ELSE index[k]

\* getResultByIdempotencyKey: index, then attempt, then result.
GetResultByIdempotencyKey(k) ==
    IF ReadIndex(k) = None \/ ReadAttempt(ReadIndex(k)) = None THEN None
    ELSE result[ReadIndex(k)]

At(c, p)   == call[c].pc = p
Goto(c, p) == call' = [call EXCEPT ![c].pc = p]

\* The call ends; its caller keeps the reply and the record it asked about.
Return(c, rep) ==
    call' = [call EXCEPT ![c] = Ended(call[c].ref, call[c].key, rep)]

\* A store that is empty, or left by a release whose attempt or index records
\* this one cannot read.
Init ==
    /\ attempt \in [DeliveryRefs -> {None, Unreadable}]
    /\ index \in [Keys -> {None, Unreadable} \cup
                     {r \in DeliveryRefs : attempt[r] = Unreadable}]
    /\ result = [r \in DeliveryRefs |-> None]
    /\ external = [r \in DeliveryRefs |-> None]
    /\ call = [c \in Callers |-> Ended(None, None, "none")]
    /\ overlapped = FALSE
    /\ abandoned = 0

\* A call begins, maybe while another is in flight.
Reach == overlapped' = (overlapped \/ \E c \in Callers : ~At(c, "idle"))

\* An input the normalizers refuse: the call throws before any boundary call.
RejectInput(c) ==
    /\ At(c, "idle")
    /\ call' = [call EXCEPT ![c] = Ended(None, None, "threw")]
    /\ UNCHANGED <<store, overlapped, abandoned>>

-----------------------------------------------------------------------------
(* registerAttempt                                                          *)

BeginRegister(c, r, k, t) ==
    /\ At(c, "idle")
    /\ call' = [call EXCEPT ![c] = Started("regReadAttempt", r, k, t, "none")]
    /\ Reach
    /\ UNCHANGED <<store, abandoned>>

\* Faulty: the duplicate test on the deliveryRef is missing.
RegReadAttemptUnchecked(c) ==
    /\ At(c, "regReadAttempt")
    /\ Goto(c, "regReadIndex")
    /\ UNCHANGED <<store, overlapped, abandoned>>

RegReadAttempt(c) ==
    LET existing == ReadAttempt(call[c].ref) IN
    /\ At(c, "regReadAttempt")
    /\ \/ existing = None /\ Goto(c, "regReadIndex")
       \/ existing # None /\ existing.key # call[c].key /\ Return(c, "threw")
       \/ existing # None /\ existing.key = call[c].key /\ Return(c, "duplicate")
    /\ UNCHANGED <<store, overlapped, abandoned>>

\* Faulty: the index is claimed before the attempt is written.
RegReadIndexClaims(c) ==
    LET owner == ReadIndex(call[c].key) IN
    /\ At(c, "regReadIndex")
    /\ \/ /\ owner = None /\ Goto(c, "regWriteAttempt")
          /\ index' = [index EXCEPT ![call[c].key] = call[c].ref]
       \/ owner \notin {None, call[c].ref} /\ Return(c, "threw") /\ UNCHANGED index
       \/ owner = call[c].ref /\ Goto(c, "regReadIndexed") /\ UNCHANGED index
    /\ UNCHANGED <<attempt, result, external, overlapped, abandoned>>

RegReadIndex(c) ==
    LET owner == ReadIndex(call[c].key) IN
    /\ At(c, "regReadIndex")
    /\ \/ owner = None /\ Goto(c, "regWriteAttempt")
       \/ owner \notin {None, call[c].ref} /\ Return(c, "threw")
       \/ owner = call[c].ref /\ Goto(c, "regReadIndexed")
    /\ UNCHANGED <<store, overlapped, abandoned>>

RegReadIndexed(c) ==
    /\ At(c, "regReadIndexed")
    /\ \/ ReadAttempt(call[c].ref) = None /\ Goto(c, "regWriteAttempt")
       \/ ReadAttempt(call[c].ref) # None /\ Return(c, "duplicate")
    /\ UNCHANGED <<store, overlapped, abandoned>>

\* Faulty: answers before the index is written.
RegWriteAttemptAnswers(c) ==
    /\ At(c, "regWriteAttempt")
    /\ attempt' = [attempt EXCEPT ![call[c].ref] =
                     [key |-> call[c].key, status |-> "created",
                      target |-> call[c].target]]
    /\ Return(c, "created")
    /\ UNCHANGED <<result, external, index, overlapped, abandoned>>

RegWriteAttempt(c) ==
    /\ At(c, "regWriteAttempt")
    /\ attempt' = [attempt EXCEPT ![call[c].ref] =
                     [key |-> call[c].key, status |-> "created",
                      target |-> call[c].target]]
    /\ Goto(c, "regWriteIndex")
    /\ UNCHANGED <<result, external, index, overlapped, abandoned>>

RegWriteIndex(c) ==
    /\ At(c, "regWriteIndex")
    /\ index' = [index EXCEPT ![call[c].key] = call[c].ref]
    /\ Return(c, "created")
    /\ UNCHANGED <<attempt, result, external, overlapped, abandoned>>

-----------------------------------------------------------------------------
(* markDelivered and markFailed, called directly or by recordPumpDecision.  *)

\* The first await of a mark once the idempotency key is known.
AfterKey(outcome) ==
    IF outcome = "delivered" THEN "delReadAttempt" ELSE "failWriteResult"

\* recordPumpDecision: the kind of the decision picks the mark.
BeginMark(c, r, k, outcome, t) ==
    /\ At(c, "idle")
    /\ call' = [call EXCEPT ![c] =
                  Started(IF k = None THEN "resolveKey" ELSE AfterKey(outcome),
                          r, k, t, outcome)]
    /\ Reach
    /\ UNCHANGED <<store, abandoned>>

ResolveKey(c) ==
    LET existing == ReadAttempt(call[c].ref) IN
    /\ At(c, "resolveKey")
    /\ \/ existing = None /\ Return(c, "threw")
       \/ /\ existing # None
          /\ call' = [call EXCEPT ![c].key = existing.key,
                                  ![c].pc = AfterKey(call[c].outcome)]
    /\ UNCHANGED <<store, overlapped, abandoned>>

\* The external message must name the target the attempt was registered for.
SameTarget(actual, expected) == actual = expected

DelReadAttempt(c) ==
    LET existing == ReadAttempt(call[c].ref) IN
    /\ At(c, "delReadAttempt")
    /\ \/ /\ existing # None
          /\ ~SameTarget(call[c].target, existing.target)
          /\ Return(c, "threw")
       \/ /\ existing # None => SameTarget(call[c].target, existing.target)
          /\ call' = [call EXCEPT ![c].attempt = existing,
                                  ![c].pc = "delWriteResult"]
    /\ UNCHANGED <<store, overlapped, abandoned>>

\* Faulty: the attempt is updated before the external message is stored.
DelWriteResultOnly(c) ==
    /\ At(c, "delWriteResult")
    /\ result' = [result EXCEPT ![call[c].ref] = "success"]
    /\ \/ call[c].attempt = None /\ Goto(c, "delWriteExternal")
       \/ call[c].attempt # None /\ Goto(c, "delWriteAttempt")
    /\ UNCHANGED <<attempt, external, index, overlapped, abandoned>>

DelWriteResult(c) ==
    /\ At(c, "delWriteResult")
    /\ result' = [result EXCEPT ![call[c].ref] = "success"]
    /\ Goto(c, "delWriteExternal")
    /\ UNCHANGED <<attempt, external, index, overlapped, abandoned>>

DelWriteExternal(c) ==
    /\ At(c, "delWriteExternal")
    /\ external' = [external EXCEPT ![call[c].ref] = call[c].target]
    /\ \/ call[c].attempt = None /\ Return(c, "delivered")
       \/ call[c].attempt # None /\ Goto(c, "delWriteAttempt")
    /\ UNCHANGED <<attempt, result, index, overlapped, abandoned>>

\* The copy written is the one read before the result was written.
DelWriteAttempt(c) ==
    /\ At(c, "delWriteAttempt")
    /\ attempt' = [attempt EXCEPT ![call[c].ref] =
                     [call[c].attempt EXCEPT !.status = "delivered"]]
    /\ Return(c, "delivered")
    /\ UNCHANGED <<result, external, index, overlapped, abandoned>>

FailWriteResult(c) ==
    /\ At(c, "failWriteResult")
    /\ result' = [result EXCEPT ![call[c].ref] = "failure"]
    /\ Goto(c, "failReadAttempt")
    /\ UNCHANGED <<attempt, external, index, overlapped, abandoned>>

\* Faulty: a delivered attempt keeps its status, its result does not.
FailReadAttemptKeeps(c) ==
    LET existing == ReadAttempt(call[c].ref) IN
    /\ At(c, "failReadAttempt")
    /\ \/ existing = None /\ Return(c, "failed")
       \/ existing # None /\ existing.status = "delivered" /\ Return(c, "failed")
       \/ /\ existing # None /\ existing.status # "delivered"
          /\ call' = [call EXCEPT ![c].attempt = existing,
                                  ![c].pc = "failWriteAttempt"]
    /\ UNCHANGED <<store, overlapped, abandoned>>

FailReadAttempt(c) ==
    LET existing == ReadAttempt(call[c].ref) IN
    /\ At(c, "failReadAttempt")
    /\ \/ existing = None /\ Return(c, "failed")
       \/ /\ existing # None
          /\ call' = [call EXCEPT ![c].attempt = existing,
                                  ![c].pc = "failWriteAttempt"]
    /\ UNCHANGED <<store, overlapped, abandoned>>

FailWriteAttempt(c) ==
    /\ At(c, "failWriteAttempt")
    /\ attempt' = [attempt EXCEPT ![call[c].ref] =
                     [call[c].attempt EXCEPT !.status = "failed"]]
    /\ Return(c, "failed")
    /\ UNCHANGED <<result, external, index, overlapped, abandoned>>

-----------------------------------------------------------------------------
\* The boundary rejects or the process stops: the rest of the call never runs.
Abandon(c) ==
    /\ ~At(c, "idle")
    /\ abandoned < MaxAbandoned
    /\ abandoned' = abandoned + 1
    /\ call' = [call EXCEPT ![c] = Ended(None, None, "threw")]
    /\ UNCHANGED <<store, overlapped>>

Begin(c) ==
    \/ RejectInput(c)
    \/ \E r \in DeliveryRefs, k \in Keys, t \in Targets : BeginRegister(c, r, k, t)
    \/ \E r \in DeliveryRefs, k \in Keys \cup {None}, t \in Targets :
          BeginMark(c, r, k, "delivered", t)
    \/ \E r \in DeliveryRefs, k \in Keys \cup {None} :
          BeginMark(c, r, k, "failed", None)

RegisterStep(c) ==
    \/ RegReadAttempt(c) \/ RegReadIndex(c) \/ RegReadIndexed(c)
    \/ RegWriteAttempt(c) \/ RegWriteIndex(c)

MarkStep(c) ==
    \/ ResolveKey(c)
    \/ DelReadAttempt(c) \/ DelWriteResult(c) \/ DelWriteExternal(c)
    \/ DelWriteAttempt(c)
    \/ FailWriteResult(c) \/ FailReadAttempt(c) \/ FailWriteAttempt(c)

Next == \E c \in Callers :
    Begin(c) \/ RegisterStep(c) \/ MarkStep(c) \/ Abandon(c)

Spec == Init /\ [][Next]_vars

-----------------------------------------------------------------------------
(* Properties                                                               *)

\* Every record and every call in flight has the shape its interface declares.
TypeOK ==
    /\ attempt \in [DeliveryRefs -> Attempts \cup {None, Unreadable}]
    /\ result \in [DeliveryRefs -> Results \cup {None}]
    /\ external \in [DeliveryRefs -> Targets \cup {None}]
    /\ index \in [Keys -> DeliveryRefs \cup {None, Unreadable}]
    /\ call \in [Callers -> Calls]
    /\ overlapped \in BOOLEAN
    /\ abandoned \in Nat

\* getAttemptByIdempotencyKey never follows an index to a deliveryRef that was
\* never registered, whatever interleaving or crash: registerAttempt writes
\* the attempt before its index.
IndexNeverDangles ==
    \A k \in Keys : ReadIndex(k) # None => attempt[ReadIndex(k)] # None

\* An attempt that says delivered has its success evidence on disk already:
\* markDelivered writes the result and the external message first, and no
\* later call removes either of them.
DeliveredIsEvidenced ==
    \A r \in DeliveryRefs :
        (ReadAttempt(r) # None /\ attempt[r].status = "delivered")
            => external[r] # None /\ result[r] # None

\* What a caller was told survives a crash: after registerAttempt answered
\* created the key is indexed and the attempt readable; after a mark answered,
\* its result (and the message ref of a delivery) is stored.
ReplyIsDurable ==
    \A c \in Callers :
        /\ call[c].reply = "created" => /\ ReadIndex(call[c].key) # None
                                        /\ ReadAttempt(call[c].ref) # None
        /\ call[c].reply = "delivered" => /\ result[call[c].ref] # None
                                          /\ external[call[c].ref] # None
        /\ call[c].reply = "failed" => result[call[c].ref] # None

Quiet == \A c \in Callers : At(c, "idle")

\* An attempt once registered keeps its key and target for ever and never goes
\* back to created, lost calls included: the duplicate test of registerAttempt
\* protects a settled delivery, as long as no two calls overlap.
AttemptNeverReregistered ==
    [][~overlapped' =>
          \A r \in DeliveryRefs : ReadAttempt(r) # None =>
              /\ attempt'[r].key = attempt[r].key
              /\ attempt'[r].target = attempt[r].target
              /\ attempt[r].status # "created" => attempt'[r].status # "created"]_vars

\* No two calls have overlapped, none was lost, and none is running.
Settled == ~overlapped /\ abandoned = 0 /\ Quiet

\* A settled attempt agrees with its result record, although the two records
\* are written by separate awaits and later marks overwrite earlier ones.
SettledAgreement ==
    Settled =>
        \A r \in DeliveryRefs : ReadAttempt(r) # None =>
            /\ attempt[r].status = "delivered" => result[r] = "success"
            /\ attempt[r].status = "failed" => result[r] = "failure"

\* The idempotency key of every attempt leads back to it and to its result, so
\* no two attempts share a key.
RegisteredIsIndexed ==
    Settled =>
        \A r \in DeliveryRefs : ReadAttempt(r) # None =>
            /\ ReadIndex(attempt[r].key) = r
            /\ GetResultByIdempotencyKey(attempt[r].key) = result[r]

\* What calls that do not overlap and are not lost leave behind fits together: results with
\* attempts, and keys with both.
SettledStoreAgrees == SettledAgreement /\ RegisteredIsIndexed

\* An idempotency key belongs to one delivery, as the documentation asks of a
\* durable store (idempotency uniqueness); a registration lost between its
\* attempt and its index breaks it.
IdempotencyUniqueness ==
    \A r, s \in DeliveryRefs :
        (ReadAttempt(r) # None /\ ReadAttempt(s) # None
            /\ attempt[r].key = attempt[s].key) => r = s
=============================================================================

----------------------------- MODULE TopicBindings -----------------------------
(***************************************************************************)
(* The bindings of Telegram topics to OpenClaw sessions.                    *)
(*                                                                          *)
(* The record store, storage/topic-bindings/topic-binding-record-store.ts,  *)
(* keeps versioned records behind a port the host gives, one for a binding  *)
(* ref and at most one for a topic.  An upsert awaits two reads, by ref and *)
(* by topic, and then a write; upserts and deletes interleave between them. *)
(* The port keeps the records by ref and an index of the refs by topic, as  *)
(* the testkit's port does, and refuses to bind a topic twice.              *)
(*                                                                          *)
(* The snapshot store, storage/topic-binding/durable-topic-binding-store.ts *)
(* keeps one unversioned snapshot for a topic and is synchronous.           *)
(*                                                                          *)
(* An operator marked "Faulty" is a variant with a bug, used by no          *)
(* specification; it shows that a property can fail.                        *)
(***************************************************************************)
EXTENDS Naturals, Functions, TLC

CONSTANTS
    TopicKeys,          \* channel, chat and thread of a topic
    TopicRefs,          \* binding refs
    DeterministicRef,   \* the ref of a topic bound without one; ':' and '~' are one in it
    TopicInputs,        \* the upserts the host may ask for
    TopicCallers,       \* upserts that can be in flight at the same time
    TopicIds,           \* topic ids as they are written, with the spaces around them
    Trimmed,            \* a topic id without them
    SessionIds,         \* what a snapshot says of its topic
    UnsafeSessionIds,   \* of those, the ones the durable store does not keep
    MaxTopicFailures    \* bound: port calls that reject

ASSUME TopicAssumption ==
    /\ DeterministicRef \in [TopicKeys -> TopicRefs]
    /\ Trimmed \in [TopicIds -> TopicIds]
    /\ \A t \in TopicIds : Trimmed[Trimmed[t]] = Trimmed[t]
    /\ UnsafeSessionIds \subseteq SessionIds
    /\ MaxTopicFailures \in Nat

\* target, status, times and display are the detail of a record.
TopicRecord == [ref : TopicRefs, key : TopicKeys, version : Nat \ {0}, detail : Nat]

\* An input names its ref or leaves it out, and has a version from 1 or none, 0.
TopicRecordInput ==
    [ref : SUBSET TopicRefs, key : TopicKeys, version : Nat, detail : Nat, sound : BOOLEAN]

ASSUME TopicInputAssumption == TopicInputs \subseteq TopicRecordInput

VARIABLES
    topicRecords,       \* port: the record of each binding ref that has one
    topicIndex,         \* port: the ref of each topic that is bound
    topicCall,          \* each upsert: where it is, its candidate, what it read by ref
    topicOverlapped,    \* history: refs that two upserts were in flight on at once
    topicSnapshots,     \* snapshot store: what each topic id is bound to
    topicAnswered,      \* history: the last snapshot that was answered for each topic id
    topicFailures       \* how many port calls have rejected

topicVars == <<topicRecords, topicIndex, topicCall, topicOverlapped,
               topicSnapshots, topicAnswered, topicFailures>>

topicStoreVars    == <<topicRecords, topicIndex, topicCall, topicOverlapped>>
topicSnapshotVars == <<topicSnapshots, topicAnswered>>

Without(f, k) == Restrict(f, DOMAIN f \ {k})
With(f, k, v) == [x \in DOMAIN f \cup {k} |-> IF x = k THEN v ELSE f[x]]

TopicBindingsInit ==
    /\ topicRecords = <<>>
    /\ topicIndex = <<>>
    /\ topicCall = [c \in TopicCallers |-> [pc |-> "idle", reply |-> "none"]]
    /\ topicOverlapped = {}
    /\ topicSnapshots = <<>>
    /\ topicAnswered = <<>>
    /\ topicFailures = 0

-----------------------------------------------------------------------------
(* The record store                                                         *)

\* createTopicBindingRecord: an input without a ref gets the one made of its topic.
CreateTopicBindingRecord(input) ==
    [ref     |-> IF input.ref = {} THEN DeterministicRef[input.key]
                 ELSE CHOOSE r \in input.ref : TRUE,
     key     |-> input.key,
     version |-> IF input.version = 0 THEN 1 ELSE input.version,
     detail  |-> input.detail]

\* The port's reads: a set with the record, or the empty set for null.
ByBindingRef(r) == {topicRecords[s] : s \in DOMAIN topicRecords \cap {r}}
ByBindingKey(k) ==
    UNION {ByBindingRef(topicIndex[j]) : j \in DOMAIN topicIndex \cap {k}}

TopicInFlight(c) == topicCall[c].pc # "idle"

ReturnUpsert(c, reply) ==
    topicCall' = [topicCall EXCEPT ![c] = [pc |-> "idle", reply |-> reply]]

\* A malformed ref, key, status, version or text, or a field of an unsafe name.
UnsoundTopicInput(input) == ~input.sound

BeginUpsert(c, input) ==
    LET candidate == CreateTopicBindingRecord(input)
        onRef == {d \in TopicCallers : TopicInFlight(d) /\ topicCall[d].candidate.ref = candidate.ref}
    IN /\ ~TopicInFlight(c)
       /\ \/ /\ UnsoundTopicInput(input)
             /\ ReturnUpsert(c, "type-error")
             /\ UNCHANGED topicOverlapped
          \/ /\ ~UnsoundTopicInput(input)
             /\ topicCall' = [topicCall EXCEPT ![c] =
                                [pc |-> "readByRef", candidate |-> candidate, byRef |-> {}]]
             /\ topicOverlapped' =
                  IF onRef = {} THEN topicOverlapped ELSE topicOverlapped \cup {candidate.ref}
       /\ UNCHANGED <<topicRecords, topicIndex, topicFailures>>

ReadByRef(c) ==
    /\ topicCall[c].pc = "readByRef"
    /\ topicCall' = [topicCall EXCEPT ![c].pc = "readByKey",
                                      ![c].byRef = ByBindingRef(topicCall[c].candidate.ref)]
    /\ UNCHANGED <<topicRecords, topicIndex, topicOverlapped, topicFailures>>

\* Faulty: a stale version is written.
UpsertDecisionIgnoresVersion(candidate, byRef, byKey) ==
    IF \E r \in byKey : r.ref # candidate.ref THEN "binding-key-conflict"
    ELSE IF \E r \in byRef : r.key # candidate.key THEN "binding-key-conflict"
    ELSE IF candidate \in byRef THEN "replayed"
    ELSE "write"

\* What an upsert does with what it read by ref and by topic.
UpsertDecision(candidate, byRef, byKey) ==
    IF \E r \in byKey : r.ref # candidate.ref THEN "binding-key-conflict"
    ELSE IF \E r \in byRef : r.key # candidate.key THEN "binding-key-conflict"
    ELSE IF candidate \in byRef THEN "replayed"
    ELSE IF \E r \in byRef : candidate.version <= r.version THEN "stale-version"
    ELSE "write"

ReadByKey(c) ==
    /\ topicCall[c].pc = "readByKey"
    /\ LET decision == UpsertDecision(topicCall[c].candidate, topicCall[c].byRef,
                                      ByBindingKey(topicCall[c].candidate.key))
       IN \/ decision = "write" /\ topicCall' = [topicCall EXCEPT ![c].pc = "put"]
          \/ decision # "write" /\ ReturnUpsert(c, decision)
    /\ UNCHANGED <<topicRecords, topicIndex, topicOverlapped, topicFailures>>

\* Faulty: the port binds a topic again.
BoundToAnotherRebinds(candidate) == FALSE

\* The port's put throws for a topic that is bound to another ref.
BoundToAnother(candidate) ==
    \E k \in DOMAIN topicIndex \cap {candidate.key} : topicIndex[k] # candidate.ref

PutTopicRecord(candidate) ==
    /\ topicRecords' = With(topicRecords, candidate.ref, candidate)
    /\ topicIndex' = With(topicIndex, candidate.key, candidate.ref)

Upserted(byRef) == IF byRef = {} THEN "created" ELSE "updated"

PutBinding(c) ==
    /\ topicCall[c].pc = "put"
    /\ LET candidate == topicCall[c].candidate
       IN \/ /\ BoundToAnother(candidate)
             /\ ReturnUpsert(c, "rejected")
             /\ UNCHANGED <<topicRecords, topicIndex>>
          \/ /\ ~BoundToAnother(candidate)
             /\ PutTopicRecord(candidate)
             /\ ReturnUpsert(c, Upserted(topicCall[c].byRef))
    /\ UNCHANGED <<topicOverlapped, topicFailures>>

\* A port call rejects, a write before or after it took effect, and the upsert with it.
UpsertCallRejects(c) ==
    /\ TopicInFlight(c)
    /\ topicFailures < MaxTopicFailures
    /\ topicFailures' = topicFailures + 1
    /\ \/ UNCHANGED <<topicRecords, topicIndex>>
       \/ /\ topicCall[c].pc = "put" /\ ~BoundToAnother(topicCall[c].candidate)
          /\ PutTopicRecord(topicCall[c].candidate)
    /\ ReturnUpsert(c, "rejected")
    /\ UNCHANGED topicOverlapped

\* The index entry that goes is that of the topic the record names.
DeleteByBindingRef(r) ==
    /\ r \in DOMAIN topicRecords
    /\ topicRecords' = Without(topicRecords, r)
    /\ topicIndex' = Without(topicIndex, topicRecords[r].key)
    /\ UNCHANGED <<topicCall, topicOverlapped, topicFailures>>

-----------------------------------------------------------------------------
(* The snapshot store                                                       *)

\* The key of a record is made of trimmed ids, each escaped, so that no two are alike.
SerializeTopicBindingKey(t) == Trimmed[t]

\* A text of the snapshot holds the name of a protected field: the store throws.
UnsafeSnapshot(s) == s \in UnsafeSessionIds

PutSnapshot(t, s) ==
    topicSnapshots' = With(topicSnapshots, SerializeTopicBindingKey(t), s)

UpsertSnapshot(t, s) ==
    /\ ~UnsafeSnapshot(s)
    /\ PutSnapshot(t, s)
    /\ \/ topicAnswered' = With(topicAnswered, Trimmed[t], s) /\ UNCHANGED topicFailures
       \/ \* the put throws after it took effect: nothing is known of the topic
          /\ topicFailures < MaxTopicFailures
          /\ topicFailures' = topicFailures + 1
          /\ topicAnswered' = Without(topicAnswered, Trimmed[t])

\* get: the record of the key, whose own ids make that key, else it throws.
SnapshotOf(t) == topicSnapshots[SerializeTopicBindingKey(t)]
IsBound(t)    == SerializeTopicBindingKey(t) \in DOMAIN topicSnapshots

DeleteSnapshot(t) ==
    /\ IsBound(t)
    /\ topicSnapshots' = Without(topicSnapshots, SerializeTopicBindingKey(t))
    /\ topicAnswered' = Without(topicAnswered, Trimmed[t])
    /\ UNCHANGED topicFailures

-----------------------------------------------------------------------------
TopicRecordsNext ==
    /\ \/ \E c \in TopicCallers :
            \/ \E input \in TopicInputs : BeginUpsert(c, input)
            \/ ReadByRef(c) \/ ReadByKey(c) \/ PutBinding(c) \/ UpsertCallRejects(c)
       \/ \E r \in TopicRefs : DeleteByBindingRef(r)
    /\ UNCHANGED topicSnapshotVars

TopicSnapshotsNext ==
    /\ \E t \in TopicIds :
        \/ \E s \in SessionIds : UpsertSnapshot(t, s)
        \/ DeleteSnapshot(t)
    /\ UNCHANGED topicStoreVars

TopicBindingsNext == TopicRecordsNext \/ TopicSnapshotsNext

TopicBindingsSpec == TopicBindingsInit /\ [][TopicBindingsNext]_topicVars

-----------------------------------------------------------------------------
(* What upserts that overlap may and may not break.  The port's own check    *)
(* is what keeps a topic from being bound twice: the store's two reads are   *)
(* both passed by two upserts of one topic that begin together.              *)

\* No topic is ever bound by two records, whatever upserts and deletes overlap: the index
\* names the one record of every topic that has one (put and deleteByBindingRef of the port).
TopicsAreBoundOnce ==
    \A r \in DOMAIN topicRecords :
        LET key == topicRecords[r].key
        IN key \in DOMAIN topicIndex /\ topicIndex[key] = r

\* A topic of the index is the topic of the record it names, so that the topic can be bound
\* again once that record is deleted, but for refs that overlapping upserts moved.
IndexedTopicsAreBound ==
    \A k \in DOMAIN topicIndex :
        \/ topicIndex[k] \in topicOverlapped
        \/ topicIndex[k] \in DOMAIN topicRecords /\ topicRecords[topicIndex[k]].key = k

TopicIndexAgrees == TopicsAreBoundOnce /\ IndexedTopicsAreBound

\* A version that was read never overwrites a later one, but for overlapping upserts of the
\* binding, which both write what they decided on (upsert, stale-version).
TopicVersionsGrow ==
    [][\A r \in DOMAIN topicRecords \cap DOMAIN topicRecords' :
            \/ r \in topicOverlapped
            \/ topicRecords'[r] = topicRecords[r]
            \/ topicRecords'[r].version > topicRecords[r].version]_topicVars

\* What the snapshot store last answered of a topic is what every way of writing the id of
\* the topic now finds (upsert, get, delete).
AnsweredSnapshotsAreFound ==
    \A t \in TopicIds :
        Trimmed[t] \in DOMAIN topicAnswered =>
            IsBound(t) /\ SnapshotOf(t) = topicAnswered[Trimmed[t]]

\* What either store keeps of a topic is found by the topic.
TopicsAreFound == TopicIndexAgrees /\ AnsweredSnapshotsAreFound
=============================================================================

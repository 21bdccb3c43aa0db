---------------------- MODULE MCInboundIdempotencyStore ----------------------
(***************************************************************************)
(* Instances of InboundIdempotencyStore, TopicBindings and RuntimeModes for *)
(* TLC: what the adapter keeps of inbound events and of the topics they     *)
(* come from, and how a mode to receive them is started.                    *)
(***************************************************************************)
EXTENDS InboundIdempotencyStore, TopicBindings, RuntimeModes

VARIABLE part       \* which of the modules, and of their stores, a behaviour is about

Interchangeable ==
    Permutations(Keys) \cup Permutations(Events) \cup Permutations(Callers)
    \cup Permutations(TopicCallers)

TopicInput(refs, key, version, detail) ==
    [ref |-> refs, key |-> key, version |-> version, detail |-> detail, sound |-> TRUE]

\* Two refs for one topic, two versions of a binding, two details of a version; and a topic
\* bound without a ref, whose ref is that of the other topic.
MCTopicInputs ==
    {TopicInput({"ref1"}, "topic1", 1, 1), TopicInput({"ref1"}, "topic1", 2, 1),
     TopicInput({"ref1"}, "topic1", 2, 2), TopicInput({"ref2"}, "topic1", 1, 1),
     TopicInput({}, "topic2", 0, 1), [TopicInput({}, "topic2", 0, 1) EXCEPT !.sound = FALSE]}
MCDeterministicRef == [k \in TopicKeys |-> "ref1"]
MCTrimmed == [t \in TopicIds |-> IF t = "id1 " THEN "id1" ELSE t]

\* Two gates of a mode are changed: they block it in the same way, or one is found before the other.
ChangedGates ==
    {{"operator", "redaction"}, {"runtime-mode", "injected-port"}, {"real-edge", "safe-output"}, {"operator", "real-edge"}}

MCInit ==
    /\ Init /\ TopicBindingsInit /\ ModesInit
    /\ part \in {{"events"}, {"records"}, {"snapshots"}} \cup ChangedGates
    /\ part \notin ChangedGates => modeIntent = "descriptor-only" /\ modePosture = "fake-inert" /\ modeGates["operator"] = "open"
MCNext ==
    /\ \/ part = {"events"} /\ Next /\ UNCHANGED <<topicVars, modeVars>>
       \/ part = {"records"} /\ TopicRecordsNext /\ UNCHANGED <<vars, modeVars>>
       \/ part = {"snapshots"} /\ TopicSnapshotsNext /\ UNCHANGED <<vars, modeVars>>
       \/ part \in ChangedGates /\ ModesNext(part) /\ UNCHANGED <<vars, topicVars>>
    /\ UNCHANGED part
MCSpec == MCInit /\ [][MCNext]_<<vars, topicVars, modeVars, part>>
=============================================================================

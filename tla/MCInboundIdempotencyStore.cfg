SPECIFICATION MCSpec
CONSTANTS
    Keys = {k1, k2}
    Events = {e1, e2}
    Callers = {c1, c2}
    MaxFailures = 2
    None = None
    TopicKeys = {"topic1", "topic2"}
    TopicRefs = {"ref1", "ref2"}
    DeterministicRef <- MCDeterministicRef
    TopicInputs <- MCTopicInputs
    TopicCallers = {d1, d2}
    TopicIds = {"id1", "id1 ", "id2"}
    Trimmed <- MCTrimmed
    SessionIds = {"session1", "session2", "secret"}
    UnsafeSessionIds = {"secret"}
    MaxTopicFailures = 1
SYMMETRY Interchangeable
INVARIANTS DispatchIsRemembered DispatchedOnce TopicsAreFound LifecycleIsEarned
PROPERTIES ImplementsLedger TopicVersionsGrow

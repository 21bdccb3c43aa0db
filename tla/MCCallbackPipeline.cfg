SPECIFICATION MCSpec
CONSTANTS
    Tokens = {t1, t2}
    Callers = {c1, c2}
    MaxFailures = 2
    None = None
    CommandEvents <- MCCommandEvents
    EventOf <- MCEventOf
    CommandSets <- MCCommandSets
    LongNames = {"long"}
    DispatchRefs = {d1}
    MaxCommands = 64
    MaxAliases = 1
    MaxGiven = 3
    IdOf <- MCIdOf
    TextOf <- MCTextOf
    InUpdates <- MCInUpdates
    UpdateOf <- MCUpdateOf
    Envelopes <- MCEnvelopes
    EnvelopeOf <- MCEnvelopeOf
    RouteBindingOf <- MCRouteBindingOf
    BindingLists <- MCBindingLists
    CommandLists <- MCCommandLists
    MaxHandedOver = 2
SYMMETRY Interchangeable
INVARIANTS AuthorizationStands CommandAnswersAreTrue 
    AcknowledgedIsKept RoutersAgree ActedOnOnce

SPECIFICATION MCSpec
CONSTANTS
    Tokens = {t1}
    Callers = {c1, c2}
    MaxFailures = 0
    None = None
    CommandEvents = {}
    EventOf <- MCEventOf
    CommandSets = {}
    LongNames = {}
    DispatchRefs = {}
    MaxCommands = 64
    MaxAliases = 1
    MaxGiven = 1
    IdOf <- MCIdOf
    TextOf <- MCTextOf
    InUpdates = {}
    UpdateOf <- MCUpdateOf
    Envelopes = {}
    EnvelopeOf <- MCEnvelopeOf
    RouteBindingOf <- MCRouteBindingOf
    BindingLists <- MCBindingLists
    CommandLists <- MCCommandLists
    MaxHandedOver = 1
SYMMETRY Interchangeable
INVARIANT ConsumedOnceEver

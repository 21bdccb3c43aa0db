SPECIFICATION MCSpec
CONSTANTS
    Tokens = {t1, t2}
    Keys = {k1}
    Callers = {c1, c2}
    MaxFailures = 1
    None = None
    SafeRefs = {r1, r2}
    HostRecords <- MCHostRecords
    MaxStateCalls = 5
SYMMETRY Interchangeable
INVARIANTS ConsumedAfterVerified EffectsAreSignalledOnce StateIndexIsSound
PROPERTIES ConsumedStands 

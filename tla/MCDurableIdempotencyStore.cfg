SPECIFICATION MCSpec
CONSTANTS
    Keys = {k1, k2}
    Operations = {o1}
    Callers = {c1, c2}
    MaxFailures = 1
    None = None
    CoreKeys = {"r1", "r2"}
    CoreCallers = {a1, a2}
    CoreOwners = {"w1"}
    CoreLimits = {1}
    CoreRecords <- MCCoreRecords
    MaxCoreFaults = 1
SYMMETRY Interchangeable
INVARIANTS ReservationIsRemembered CoreAnswersAreTrue
PROPERTIES ImplementsLedger OnlyOverlapsOverwrite

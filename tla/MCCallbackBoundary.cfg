SPECIFICATION BoundarySpec
CONSTANTS
    Handles = {h1, h2}
    Refs = {r1, r2}
    Callers = {c1, c2}
    MaxConsumes = 2
    MaxLost = 1
    None = None
SYMMETRY Interchangeable
INVARIANTS HandlesOwnRecords ConsumedOnce AcceptedOnce AcceptedIsConsumed 
PROPERTY OutcomeIsFinal

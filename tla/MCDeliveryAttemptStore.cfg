SPECIFICATION MCSpec
CONSTANTS
    AttemptRefs = {a1, a2}
    DeliveryRefs = {d1, d2}
    Keys = {k1, k2}
    Callers = {c1, c2}
    MaxAbandoned = 1
    None = None
SYMMETRY Interchangeable
INVARIANTS EvidenceIsTold GrantsStand 
PROPERTY FirstEvidenceStands

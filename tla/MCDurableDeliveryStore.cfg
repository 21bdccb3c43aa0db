SPECIFICATION MCSpec
CONSTANTS
    DeliveryRefs = {r1, r2}
    Keys = {k1, k2}
    Targets = {t1, t2}
    Callers = {c1, c2}
    MaxAbandoned = 1
    None = None
    Unreadable = Unreadable
SYMMETRY Interchangeable
INVARIANTS IndexNeverDangles DeliveredIsEvidenced ReplyIsDurable SettledStoreAgrees 
PROPERTY AttemptNeverReregistered

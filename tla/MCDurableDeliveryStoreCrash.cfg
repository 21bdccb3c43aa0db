SPECIFICATION MCSpec
CONSTANTS
    DeliveryRefs = {r1, r2}
    Keys = {k1}
    Targets = {t1}
    Callers = {c1}
    MaxAbandoned = 1
    None = None
    Unreadable = Unreadable
INVARIANT IdempotencyUniqueness

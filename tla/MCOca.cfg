SPECIFICATION MCSpec
CONSTANTS
    SessionRefs = {s1, s2}
    SessionKeys = {k1, k2}
    SessionDetails = {d1, d2}
    UnshownDetails = {d2}
    CreateInputs <- MCCreateInputs
    MaxListLimit = 2
    PanelSize = 1
    OcaRequests <- MCRequests
    Checksum <- MCChecksum
    MaxRuns = 2
    BridgeCallers = {c1}
    BridgeInputs <- MCBridgeInputs
    EvaluationContexts <- MCEvaluationContexts
    PermissionGrants <- MCPermissionGrants
    ComposedChoices <- MCComposedChoices
SYMMETRY Interchangeable
INVARIANTS SessionsAreSound EffectsWereGranted ApprovalsAreTrue 
PROPERTY EndedSessionsStayEnded

SPECIFICATION MCSpec
CONSTANTS
    ToolRefs <- MCToolRefs
    CapabilityRefs = {oca}
    BindingLists <- MCBindingLists
    MaxRevision = 6
    None = None
    Messages = {m1}
    OutboundRequests <- MCOutboundRequests
    OptionSets <- MCOptionSets
    MaxFaults = 2
    MaxChanges = 1
INVARIANT MissingBindingIsNotReady
CHECK_DEADLOCK FALSE

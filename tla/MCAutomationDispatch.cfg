SPECIFICATION MCSpec
CONSTANTS
    MaxTasks = 3
    MaxRetries = 2
    MaxRequests = 3
    MaxRevision = 1
    Items = {i1}
    Dispatches = {d1, d2}
    Builds = {b1, b2}
    Workers = {w1}
    Lanes = {hermes}
    Cancels = {c1}
    Reviews = {v1, v2}
    Delays = {0}
    Tables = {invoices}
    AGENT_WRITE_PROHIBITED = {invoices}
    Priority <- MCPriority
    Lane <- MCLane
    Serves <- MCServes
INVARIANTS
    UnapprovedNeverRuns
    GateInv
    DispatchInv
PROPERTIES
    GateRefinesDocket
    CancelUndoneOnlyByReader
    DispatchIsFinal
    DispatchedRefreshedOnlyByReader
SYMMETRY MCSymmetry
CHECK_DEADLOCK FALSE

SPECIFICATION GateSpec
CONSTANTS
    MaxTasks = 1
    MaxRetries = 2
    MaxRequests = 1
    Reviews = {v1, v2}
    Workers = {w1}
    Lanes = {hermes}
    Cancels = {}
    Delays = {0}
    Tables = {invoices}
    AGENT_WRITE_PROHIBITED = {invoices}
    Priority <- MCPriority
    Lane <- MCLane
    Serves <- MCServes
INVARIANTS
    RejectedStopsTask
CHECK_DEADLOCK FALSE

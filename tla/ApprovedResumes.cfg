SPECIFICATION FairGateSpec
CONSTANTS
    MaxTasks = 1
    MaxRetries = 2
    MaxRequests = 1
    Reviews = {v1}
    Workers = {w1}
    Lanes = {hermes}
    Cancels = {}
    Delays = {0}
    Tables = {invoices}
    AGENT_WRITE_PROHIBITED = {invoices}
    Priority <- MCPriority
    Lane <- MCLane
    Serves <- MCServes
PROPERTIES
    ApprovedResumes
CHECK_DEADLOCK FALSE

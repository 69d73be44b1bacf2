SPECIFICATION QueueSpec
CONSTANTS
    MaxTasks = 1
    MaxRetries = 2
    Workers = {w1}
    Lanes = {hermes}
    Cancels = {c1}
    Delays = {0}
    Tables = {invoices}
    AGENT_WRITE_PROHIBITED = {invoices}
    Priority <- MCPriority
    Lane <- MCLane
    Serves <- MCServes
PROPERTIES
    FinishedIsFinal
CHECK_DEADLOCK FALSE

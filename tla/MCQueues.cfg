SPECIFICATION MCSpec
CONSTANTS
    MaxTasks = 3
    MaxRetries = 2
    Workers = {w1, w2}
    Lanes = {hermes}
    Cancels = {c1}
    Delays = {0, 1}
    Tables = {staged_records, invoices}
    AGENT_WRITE_PROHIBITED = {invoices}
    Priority <- MCPriority
    Lane <- MCLane
    Serves <- MCServes
    Slots = {t1, t2, t3}
    Urgencies = {1, 5}
    Retries = 2
    Postpones = {0, 1}
    Agents = {a1, a2}
    Companies = {m1}
    Checksums = {k1}
    MaxRaws = 1
    MaxStaged = 2
    Uploads = {u1}
    Processors = {p1}
    MaxTaskRetries = 1
    MaxFaults = 1
    Reviewers = {v1, v2}
INVARIANTS
    SingleHolder
    AttemptAccounting
    ReviewTypeOK
    RejectedLeavesTrail
    MatchedIsDecided
PROPERTIES
    CancelUndoneOnlyByHolder
    QueueRefinesLedger
    OnlyUrgencyStarves
    RejectionUndoneKnowingly
CHECK_DEADLOCK FALSE

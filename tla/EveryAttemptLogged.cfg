SPECIFICATION SyncSpec
CONSTANTS
    Providers = {"quickbooks"}
    Schemas = {{"quickbooks"}}
    SyncJobs = {j1}
    Page = 1
    SyncRetries = 1
    ForeignItems = {}
    MaxFeed = 1
    MaxTx = 3
INVARIANT
    EveryAttemptLogged
CHECK_DEADLOCK FALSE

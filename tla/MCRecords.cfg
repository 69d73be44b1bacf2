SPECIFICATION MCSpec
CONSTANTS
    Providers = {"plaid", "quickbooks"}
    Schemas = {{"quickbooks"}, {"plaid", "quickbooks"}}
    SyncJobs = {r1, r2}
    Page = 1
    SyncRetries = 1
    ForeignItems = {2}
    MaxFeed = 2
    MaxTx = 4
    Callers = {c1, c2, c3}
    Script = 2
    MaxAnswers = 4
    MaxCompletes = 2
    Sources = {s1}
    Syntheses = {n1}
    Indexers = {r1, r2}
    Blank = {3}
    MaxVersion = 3
    MaxDocs = 3
INVARIANTS
    NothingSkipped
    SyncInv
    InterviewInv
    KnowledgeInv
SYMMETRY
    MCSymmetry
CHECK_DEADLOCK FALSE

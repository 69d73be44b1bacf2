SPECIFICATION MCSpec
CONSTANTS
    Loops = {r1, r2}
    Fires <- MCFires
    Window = 2
    Sessions = {q1, q2}
    MaxOpsTime = 4
    MaxRuns = 2
    Proposals = {1}
    MaxActions = 2
    MaxTurns = 3
    MaxMails = 2
    MailOutcomes = {"sent", "failed", "skipped"}
    Sends = {r1, r2}
    Requests = {q1, q2}
    Decisions = {d1}
    Addbacks = {a1}
    Evidence = {f1}
    Analysts = {r1, r2}
    Handlers = {q1, q2}
    MaxAudit = 3
INVARIANTS
    FireAnsweredOnce
    OpsInv
    CooInv
    ConversationInv
    DecisionsInv
PROPERTY
    CooRefinesDocket
SYMMETRY
    MCSymmetry
CHECK_DEADLOCK FALSE

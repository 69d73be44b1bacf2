SPECIFICATION MCSpec
CONSTANTS
    Loops = {r1}
    Fires <- MCFires
    Window = 2
    Sessions = {q1, q2}
    MaxOpsTime = 4
    MaxRuns = 2
    Proposals = {0}
    MaxActions = 1
    MaxTurns = 1
    MaxMails = 1
    MailOutcomes = {"sent"}
    Sends = {q1}
    Requests = {q1}
    Decisions = {d1}
    Addbacks = {a1}
    Evidence = {}
    Analysts = {q1}
    Handlers = {q1}
    MaxAudit = 1
INVARIANT
    NeverFiredAgain
CHECK_DEADLOCK FALSE

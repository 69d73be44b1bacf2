SPECIFICATION MCSpec
CONSTANTS
    Companies = {c1, c2}
    Checksums = {k1}
    MaxRaws = 2
    MaxStaged = 3
    Uploads = {u1, u2}
    Processors = {p1, p2}
    MaxTaskRetries = 1
    MaxFaults = 2
    Sources = {f1, f2}
    MonitorRuns = {r1, r2}
    Deciders = {v1, v2}
    Opinions = {"concerns"}
    MaxLost = 1
    MaxOverlaps = 1
    MaxPulls = 2
INVARIANTS
    IngestionInv
    StagedPerDelivery
    MonTypeOK
PROPERTIES
    MessagesWorkedOff
    NoSecondDiagnosis
    MonRefinesDocket
    FailuresDiagnosed
CHECK_DEADLOCK FALSE

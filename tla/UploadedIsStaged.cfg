SPECIFICATION FairIngestionSpec
CONSTANTS
    Companies = {c1}
    Checksums = {k1}
    MaxRaws = 1
    MaxStaged = 1
    Uploads = {u1}
    Processors = {p1}
    MaxTaskRetries = 1
    MaxFaults = 0
PROPERTIES
    UploadedIsStaged
CHECK_DEADLOCK FALSE

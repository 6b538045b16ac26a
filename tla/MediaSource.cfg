SPECIFICATION Spec
CONSTANTS
    Jobs = {j1}
    Targets = {t1}
    Workers = {w1, w2}
    NoJob = NoJob
    NoFile = NoFile
    NoRun = NoRun
    NoCheck = NoCheck
    StorageRetries = 1
    MaxAttempts = 3
INVARIANT SourceKept


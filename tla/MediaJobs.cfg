SPECIFICATION FairSpec
CONSTANTS
    Jobs = {j1}
    Targets = {t1, t2}
    Workers = {w1, w2}
    NoJob = NoJob
    NoFile = NoFile
    NoRun = NoRun
    NoCheck = NoCheck
    StorageRetries = 1
    MaxAttempts = 3
INVARIANTS TypeOK ReadyIsLatest PublishedExists AttemptsBounded 
PROPERTIES  UploadAnswered

SPECIFICATION FairSpec
CONSTANTS
    Notices = {n1}
    Devices = {d1, d2}
    Workers = {w1, w2}
    NoJob = NoJob
    MaxRetries = 2
    MaxFaults = 2
INVARIANTS TypeOK NoOverlap RepeatsNeedExcuses MarkerMeansReached
 

CONSTANTS
    k1 = k1
    k2 = k2
    j1 = j1
    j2 = j2
    s1 = s1
    s2 = s2
    Cookers <- MCCookers
    Jobs <- MCJobs
    Shards <- MCShards
    Kinds = {"records", "tvs"}
    NoShard = NoShard
    MaxEpoch = 2
    BatchSecs = 2
    Ranges <- MCRanges
    Amounts = {1}
    MaxInfos = 1
    MaxRecords = 2
    MaxCalls = 2
    MaxRepeats = 1
    None = None
SYMMETRY Actors
SPECIFICATION Spec
CHECK_DEADLOCK FALSE
INVARIANTS
    NothingCountedTwice
    NothingLostAlone
PROPERTIES
    SettledBatchIsSummarised

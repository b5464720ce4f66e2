CONSTANTS
    w1 = w1
    w2 = w2
    e1 = e1
    e2 = e2
    c1 = c1
    Workers <- MCWorkers
    Events <- MCEvents
    Channels <- MCChannels
    Situations <- MCSituations
    NoChannel = NoChannel
    UnavailableRetries = 2
    RecordRetryLimit = 2
    MaxChanges = 1
    MaxDeaths = 1
    None = None
    Missing = Missing
    Torn = Torn
SPECIFICATION Spec
CHECK_DEADLOCK FALSE
INVARIANTS
    StartupListGoverns
    FormsAreKept
    OkMeansTriedEverywhere
PROPERTIES
    EveryRequestAnswered

CONSTANTS
    e1 = e1
    c1 = c1
    Channels <- MCChannels
    MaxVersion = 3
    MaxCrashes = 1
    NoList = NoList
    Missing = Missing
    Torn = Torn
    Events <- MCEvents
    NoChannel = NoChannel
    Kinds <- MCKinds
    Envs <- MCEnvs
    MaxAttempts = 2
    NoTopic = NoTopic
SPECIFICATION Spec
PROPERTIES
    ImplementsDelivery
    SentByLoadedList
    ConfirmedRefreshEnforced

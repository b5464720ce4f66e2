CONSTANTS
    e1 = e1
    c1 = c1
    Events <- MCEvents
    Channels <- MCChannels
    NoChannel = NoChannel
    Kinds <- MCKinds
    Envs <- MCEnvs
    MaxAttempts = 3
    MaxCrashes = 1
    NoTopic = NoTopic
SPECIFICATION FairSpec
INVARIANTS
    OkMeansDelivered
    PartialDeliveryIsPrefix
    TopicsAgreeOnOrder
PROPERTIES
    NoSendAfterAnswer
    EveryPostAnswered
    NothingSensitiveInClear

CONSTANTS
    e1 = e1
    c1 = c1
    Events <- MCEvents
    Channels <- MCChannels
    NoChannel = NoChannel
    Kinds <- MCKinds
    Envs <- MCEnvs
    MaxAttempts = 1
    MaxCrashes = 1
    NoTopic = NoTopic
SPECIFICATION Spec
INVARIANT
    TopicsFailIndependently

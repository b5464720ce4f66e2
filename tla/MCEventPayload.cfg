CONSTANTS
    Inputs <- MCInputs
    ChannelIds = {"7"}
    Envs <- MCEnvs
SPECIFICATION PayloadSpec
CHECK_DEADLOCK FALSE
INVARIANTS
    EventDataSurvives
    ChannelHidden
    OnlyChannelHidden
    ChannelDataComplete
    MatchesLegacy
PROPERTIES
    ImplementsDelivery

CONSTANTS
    c1 = c1
    c2 = c2
    Channels <- MCChannels
    MaxVersion = 3
    MaxCrashes = 2
    NoList = NoList
    Missing = Missing
    Torn = Torn
SPECIFICATION FairSpec
INVARIANTS
    TypeOK
    OnlyGenuineLists
    ServingHasList
    FileNotAhead
    StampTellsLoaded
PROPERTIES
    NoRollback
    RefreshIsFresh
    ImplementsView
    StartupServes

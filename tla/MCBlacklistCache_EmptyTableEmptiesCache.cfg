CONSTANTS
    c1 = c1
    c2 = c2
    Channels <- MCChannels
    MaxVersion = 3
    MaxCrashes = 2
    NoList = NoList
    Missing = Missing
    Torn = Torn
SPECIFICATION Spec
PROPERTY
    EmptyTableEmptiesCache

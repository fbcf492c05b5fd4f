SPECIFICATION FairSpec
CONSTANTS
    Points = {1, 2}
    PollClass <- MCPollClass
    ClassInterval = 2
    Intervals = {1}
    Keepalive = 1
    PerRequest = 1
    MaxLag = 2
    MaxChanges = 2
INVARIANTS
    ReadsBounded
PROPERTIES
    KeepsGrid
    KeepsAlive
    EveryPointRead

SPECIFICATION FairSpec
CONSTANTS
    Paths <- AllPaths
    Cap = 2
    Chunk = 2
    BodyTotal = 2
    UpTotal = 3
    DownTotal = 4
    EarlyData = TRUE
\* a connection ends
CHECK_DEADLOCK FALSE
PROPERTY PeersRely
INVARIANT NoHole
INVARIANT PageIsAlone
INVARIANT EndsComplete
PROPERTY ConnectionEnds

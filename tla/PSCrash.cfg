SPECIFICATION FairSpec
CONSTANTS
    p1 = p1
    p2 = p2
    Producer = {p1, p2}
    BufferSize = 2
    MinBuffer = 1
    MaxMessages = 4
    MaxRestarts = 2
INVARIANT TypeOK
INVARIANT DepthTracksDatabase
INVARIANT BufferIsPrefix
INVARIANT AcceptedIsStored
INVARIANT FirstComeFirstServed
PROPERTY KeepsDurability
PROPERTY StoredIsBuffered
CHECK_DEADLOCK FALSE

CONSTANTS
    Starts = {0, 3}
    Lengths = {2, 3}
    BlockUnits = 2
    FifoBlocks = 3
    Cached = {{}, {0}}
    Fresh = Fresh
    None = None
SPECIFICATION FairSpec
INVARIANT ReadIsCurrent
PROPERTIES
    ImplementsStream
    TrackGoesOnLater

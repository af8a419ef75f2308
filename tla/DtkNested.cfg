CONSTANTS
    Starts = {0}
    Lengths = {2}
    BlockUnits = 2
    FifoBlocks = 2
    Cached = {{0}}
    Fresh = Fresh
    None = None
SPECIFICATION FairSpec
PROPERTY TrackGoesOn

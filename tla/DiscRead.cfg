CONSTANTS
    Setups <- Games
    Granule = 2
    Sector = 4
    Block = 8
    Word = 64
    ApploaderAt = 2
    Lengths = {0, 2, 4, 6}
    None = None
SPECIFICATION FairSpec
INVARIANTS
    ReadIsOverlay
PROPERTIES
    EveryReadEnds

CONSTANTS
    Setups <- Games
    Granule = 4
    Sector = 4
    Block = 8
    Word = 128
    ApploaderAt = 4
    Lengths = {0, 4, 8}
    None = None
    Own = Own
SPECIFICATION WkfSpec
INVARIANTS
    MemoryIntact
    PieceOnItsWay

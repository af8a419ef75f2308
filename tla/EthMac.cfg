CONSTANTS
    Users = {u1}
    LastPage = 4
    MaxPages = 2
    ChipRoom = 2
    FifoSize = 2
    Masks = {{"RI"}, {"RI", "TI"}}
    Eth = Eth
    None = None
    Mixed = Mixed
SPECIFICATION Spec
INVARIANTS
    FramesIntact
    NoFrameStranded
    FrameSentOnce

CONSTANTS
    dvd = dvd
    dtk = dtk
    Clients = {dvd, dtk}
    Streamers = {}
    Users = {u1}
    QueueSize = 3
    Files = {f1}
    Length <- DtkLength
    Positions = {0}
    RingSize = 4
    MaxSequence = 2
    MaxFaults = 2
    Bba = Bba
    None = None
SPECIFICATION FairSpec
INVARIANTS
    NullNeverRead
    AlarmSetOnce
PROPERTY EveryReadEnds
CHECK_DEADLOCK FALSE

CONSTANTS
    dvd = dvd
    dtk = dtk
    Clients = {dvd, dtk}
    Streamers = {dvd, dtk}
    Users = {u1}
    QueueSize = 3
    Files = {f1, f2}
    Length <- DtkLength
    Positions = {0}
    RingSize = 2
    MaxSequence = 3
    MaxFaults = 2
    Bba = Bba
    None = None
SPECIFICATION Spec
INVARIANTS
    BufferIsFile
    NoReadForgotten
    BusHeldByCoroutine
    ShortFirst
CHECK_DEADLOCK FALSE

CONSTANTS
    dvd = dvd
    dtk = dtk
    carda = carda
    Clients = {dvd, dtk}
    Users = {u1, u2}
    QueueSize = 3
    LastSector = 3
    Region <- DtkRegion
    MaxCount <- DtkMaxCount
    Writers = {}
    Streamers = {dtk}
    Seekers = {dvd}
    Vals = {0, 1, 2, 3}
    Payloads = {}
    InitDisk <- Distinct
    Sd = Sd
    None = None
    Error = Error
SPECIFICATION Spec
INVARIANTS
    NeverRefused
    ShortFirst

CONSTANTS
    dvd = dvd
    dtk = dtk
    carda = carda
    Clients = {dvd, carda}
    Users = {u1}
    QueueSize = 4
    LastSector = 3
    Region <- CardRegion
    MaxCount <- CardMaxCount
    Writers = {carda}
    Streamers = {}
    Seekers = {dvd}
    Vals = {0, 1, 2, 3, 4}
    Payloads = {4}
    InitDisk <- Distinct
    Sd = Sd
    None = None
    Error = Error
SPECIFICATION FairSpec
INVARIANTS
    TypeOK
    NoLostWakeup
    StreamAgrees
    BusExclusive
    CacheFresh
PROPERTIES
    ImplementsService
    EveryTransferEnds

CONSTANTS
    dvd = dvd
    carda = carda
    Clients = {dvd, carda}
    Users = {u1}
    QueueSize = 4
    LastSector = 4
    Region <- CardRegion
    MaxCount <- CardMaxCount
    Writers = {carda}
    Streamers = {}
    Seekers = {dvd}
    CountMod = 4
    DriveMod = 4
    Vals = {0, 1, 2, 3, 4, 5}
    Payloads = {5}
    InitDisk <- Distinct
    Ata = Ata
    None = None
    Error = Error
SPECIFICATION FairSpec
INVARIANTS
    DriveAgrees
    SingleServed
PROPERTIES
    ImplementsService
    EveryTransferEnds

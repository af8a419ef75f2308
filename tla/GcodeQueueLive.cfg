CONSTANTS
    carda = carda
    cardb = cardb
    dtk = dtk
    Cards = {carda, cardb}
    Streamers = {dtk}
    QueueSize = 4
    Builds <- LiveBuilds
    LastDisc = 1
    LastPart = 2
    Layout <- SmallLayout
    Sectors = {0, 1, 2}
    CardSectors <- OneSector
    Vals = {0, 1, 2, 3, 4}
    Payloads <- OnePayload
    InitMedia <- Distinct
    InitFlags = {"second", "igr"}
    Dvd = Dvd
    Apploader = Apploader
    OnDisc = OnDisc
    None = None
    Error = Error
SPECIFICATION FairSpec
PROPERTIES
    CoverCloses
    EveryCommandEnds

CONSTANTS
    Erased = Erased
    Junk = Junk
    NoSum = NoSum
    small = small
    medium = medium
    large = large
    Images = {small, medium, large}
    ImgLen <- Lengths
    AppUnits = 4
    BackupUnits = 4
    SectorUnits = 2
    ChunkUnits = 1
    HasBackup = FALSE
    LinkRoom = 2
SPECIFICATION SessionSpec

PROPERTIES AcknowledgedImageIsStored

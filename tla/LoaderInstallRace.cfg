CONSTANTS
    Erased = Erased
    Junk = Junk
    NoSum = NoSum
    small = small
    large = large
    Images = {small, large}
    ImgLen <- TwoAndThree
    AppUnits = 2
    BackupUnits = 3
    SectorUnits = 1
    ChunkUnits = 1
    HasBackup = TRUE
SPECIFICATION Spec
PROPERTIES ImageAlwaysLeft

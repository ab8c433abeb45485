CONSTANTS
    Erased = Erased
    Junk = Junk
    NoSum = NoSum
    small = small
    large = large
    Images = {small, large}
    ImgLen <- ThreeAndFour
    AppUnits = 4
    BackupUnits = 4
    SectorUnits = 2
    ChunkUnits = 1
    HasBackup = FALSE
SPECIFICATION Spec
INVARIANTS ImageRuns

CONSTANTS
    Erased = Erased
    Junk = Junk
    NoSum = NoSum
    small = small
    medium = medium
    large = large
    Images = {small, medium, large}
    ImgLen <- Lengths
    AppUnits = 4
    BackupUnits = 4
    SectorUnits = 2
    ChunkUnits = 1
    HasBackup = FALSE
    LinkRoom = 2
    Cells = 2
    IndexRange = 4
    FrameCount = 3
    MaxUnits = 6
    FrameLens = {1, 2, 4}
    Ours = {1, 3}
    LbSize = 3
    ReadMax = 2
    MaxDamage = 2
    Noise = Noise
    ChipBlocks = 3
    BlockUnits = 1
    WriteLens = {7, 20, 36}
    AnyPlace = FALSE
SPECIFICATION MCSpec
INVARIANTS DownloadTypeOK NeverLost SentPrefixIsStored BoardKeepsUp FifoIsArrived HandledOnce WritesStore
PROPERTIES SteadySessionNotRefused EventuallyRuns FramesArrive

CONSTANTS
    Erased = Erased
    Junk = Junk
    ChipBlocks = 3
    BlockUnits = 1
    WriteLens = {7, 20, 36}
    AnyPlace = TRUE
SPECIFICATION drvSpec
INVARIANTS WritesStore

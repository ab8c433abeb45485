CONSTANTS
    Erased = Erased
    Junk = Junk
    setting = setting
    events = events
    Normal = {setting}
    Queue = {events}
    Values = {v1, v2}
    Order <- ListOrder
    SecTabSize <- TwoEach
    Slots = 2
    PartSectors = 4
    IndexMod = 6
    AppendTears = FALSE
SYMMETRY ValueSymmetry
SPECIFICATION LogSpec
INVARIANTS TypeOK HistoryNewestFirst SectorsApart
PROPERTIES SavedIsReadable Implements

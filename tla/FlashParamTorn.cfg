CONSTANTS
    Erased = Erased
    Junk = Junk
    setting = setting
    events = events
    Normal = {}
    Queue = {events}
    Values = {v1, v2}
    Order <- JustOne
    SecTabSize <- TwoSectors
    Slots = 2
    PartSectors = 2
    IndexMod = 6
    AppendTears = TRUE
SPECIFICATION LogSpec
PROPERTIES SavedIsReadable

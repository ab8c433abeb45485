CONSTANTS
    MaxMsgNum = 3
    NoMsg = 0
    MaxFrames = 6
    Invalid = {3}
    MaxRetrain = 2
    MaxDrops = 2
    IrqInEnqueue = FALSE
    BusPrompt = TRUE
    CellCount = 5
    Srcs = {a, b}
    NULL = NULL
    EMPT = EMPT
    NORM = NORM
    MessageLen = 2
    MaxSent = 4
    MainSender = a
    Boards = {1, 2, 3}
    CastFini = 3
    MastTime = 2
    MaxAddr = 4
    MaxSwitches = 3
    MaxFaults = 1
SPECIFICATION MCSpec
INVARIANTS CanTypeOK RingIsWaiting NoneSkipped CellsKept ReadInOrder
PROPERTIES InOrder StuckFlagRecovers AllButTheLatest AddressesSettle
CHECK_DEADLOCK FALSE

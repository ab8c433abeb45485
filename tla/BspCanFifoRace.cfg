CONSTANTS
    MaxMsgNum = 3
    NoMsg = 0
    MaxFrames = 5
    Invalid = {}
    MaxRetrain = 1
    MaxDrops = 0
    IrqInEnqueue = TRUE
    BusPrompt = TRUE
SPECIFICATION Spec
INVARIANTS RingIsWaiting
CHECK_DEADLOCK FALSE

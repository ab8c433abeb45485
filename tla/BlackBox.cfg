CONSTANTS
    Erased = Erased
    Junk = Junk
    IndexBlocks = 2
    BlockWords = 2
    DataBlocks = 4
    BlockUnits = 3
    RecUnits = 2
    LookBack = 3
    WordTears = FALSE
    MaxSaves = 9
    MaxFails = 2
    Capacity = 3
    MaxIndex = 5
    UPLOAD_RETRY_COUNT = 1
    PageSizes = {1, 2}
    BBOX_PAGE_SIZE_MAX = 2
    MaxCommands = 3
    HeadCnt = 3
    TailCnt = 1
    MaxSamples = 6
    MaxReports = 2
    Before = 2
    After = 2
    MaxTaken = 9
    log = log
    other = other
    Items <- mItems
    Priority <- mPriority
    def_interval <- mInterval
    force_mark = {other}
    SendTime = 1
    MaxTime = 2
    NoItem = NoItem
    x_log_mod_push_cmd = log
    max_log_num = 3
    BatchLen = 2
    IndexMod = 8
    Intervals = {2}
    MaxLogs = 4
    MaxNotSaved = 1
    MaxLost = 1
    MaxUnderWay = 2
    MaxCalls = 1
    TypeCnt = 2
    Week = 2
    PushPause = 2
    SeqNumbers = 3
    NoDay = NoDay
    LinkRoom = 2
    MaxDay = 1
    MaxRestarts = 1
SPECIFICATION MCSpec
INVARIANTS RecordsTypeOK NothingForgotten NoImpostor LossPerFailure EndIsTrue
    PassedIsHeard
PROPERTIES SessionEnds SeriousInOrder ErrorEnds RecordingComplete AllLogsReach
CHECK_DEADLOCK FALSE

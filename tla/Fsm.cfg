CONSTANTS
    Fsms <- Chain
    States <- TwoStates
    Parent <- InOneAnother
    InitState <- FromZero
    FSM_NO_PARENT = FSM_NO_PARENT
    FSM_SUSPEND_STATE = FSM_SUSPEND_STATE
    Slow = {}
SPECIFICATION fsmSpec
INVARIANTS ChildFollowsParent
CHECK_DEADLOCK FALSE

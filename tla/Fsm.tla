-------------------------------- MODULE Fsm --------------------------------
(* Hierarchical state machines (fsm.c).  A machine may belong to one state *)
(* of another: it runs while its parent is in that state, is suspended     *)
(* when the parent leaves it and resumed when it comes back.  An event     *)
(* only marks what is to change; the task that runs the machines, parents  *)
(* before children, makes the changes and calls the states' functions.     *)
EXTENDS Integers, SequencesExt

CONSTANTS
    Fsms,           \* the machines, by fsm_id: numbers
    States,         \* the registered states of each, numbers
    Parent,         \* <<parent_fsm_id, parent_state_id>>, or FSM_NO_PARENT
    InitState,      \* one of a machine's own states
    FSM_NO_PARENT, FSM_SUSPEND_STATE,
    Slow            \* machines whose run time may pass later than the others'

VARIABLE fsm

fsmVars == <<fsm>>

(* The machines a list holds: those of a state, or those without a parent. *)
List(parent) == SetToSortSeq({m \in Fsms : Parent[m] = parent}, <)
Children(m, state) == List(<<m, state>>)

(* fsm_core_init; the current state is 0 until the first run. *)
fsmInit ==
    fsm = [m \in Fsms |->
        [cur_state |-> 0, last_state |-> 0, next_state |-> InitState[m],
         state_is_change |-> TRUE, fsm_is_ready |-> FALSE]]
-----------------------------------------------------------------------------
ChangeTo(f, m, state) ==
    [f EXCEPT ![m].next_state = state, ![m].state_is_change = TRUE]

RECURSIVE fsm_suspend_all(_, _), fsm_resume_all(_, _)
fsm_suspend_all(f, list) ==
    FoldLeft(LAMBDA g, m :
               fsm_suspend_all(ChangeTo(g, m, FSM_SUSPEND_STATE),
                               Children(m, g[m].cur_state)),
             f, list)

Resumed(f, m) ==
    IF f[m].state_is_change THEN f
    ELSE ChangeTo(f, m, IF f[m].fsm_is_ready THEN f[m].last_state ELSE InitState[m])
fsm_resume_all(f, list) ==
    FoldLeft(LAMBDA g, m : fsm_resume_all(Resumed(g, m), Children(m, g[m].cur_state)),
             f, list)

(* fsm_send_event, when the condition function of the current state asks   *)
(* for another one. *)
fsm_event_send(f, m, state) ==
    fsm_resume_all(fsm_suspend_all(ChangeTo(f, m, state),
                                   Children(m, f[m].cur_state)),
                   Children(m, state))

(* An event makes sense to a machine that has run, is in one of its states *)
(* and whose parent is not about to change.                                *)
ParentChanges(f, m) ==
    Parent[m] # FSM_NO_PARENT /\ f[Parent[m][1]].state_is_change
Takes(f, m, state) ==
    /\ f[m].fsm_is_ready /\ f[m].cur_state \in States[m] /\ ~ParentChanges(f, m)
    /\ state \in States[m] \ {f[m].cur_state}
-----------------------------------------------------------------------------
(* __fsm_rule_handle for a list.  "due" are the machines whose run time    *)
(* has passed.  A machine that changes runs the machines of the state it   *)
(* leaves, one that stays those of its state.                              *)
Entered(f, m) ==
    [f EXCEPT ![m] = [@ EXCEPT !.state_is_change = FALSE,
                               !.last_state = f[m].cur_state,
                               !.cur_state = f[m].next_state]]

RECURSIVE fsm_rule_handle(_, _, _)
Handled(f, m, due) ==
    LET own == Children(m, f[m].cur_state)
        g == IF ~f[m].state_is_change THEN fsm_rule_handle(f, own, due)
             ELSE IF f[m].fsm_is_ready THEN fsm_rule_handle(Entered(f, m), own, due)
             ELSE Entered(f, m)
    IN IF m \in due THEN [g EXCEPT ![m].fsm_is_ready = TRUE] ELSE f
fsm_rule_handle(f, list, due) ==
    FoldLeft(LAMBDA g, m : Handled(g, m, due), f, list)

fsm_core_run ==
    \E late \in SUBSET Slow :
        fsm' = fsm_rule_handle(fsm, List(FSM_NO_PARENT), Fsms \ late)

SendEvent ==
    \E m \in Fsms : \E state \in States[m] :
        /\ Takes(fsm, m, state)
        /\ fsm' = fsm_event_send(fsm, m, state)

(* fsm_reset_state: where a suspended machine goes on when it is resumed. *)
fsm_reset_state ==
    \E m \in Fsms : \E state \in States[m] :
        /\ fsm[m].cur_state = FSM_SUSPEND_STATE /\ ~ParentChanges(fsm, m)
        /\ fsm' = ChangeTo(fsm, m, state)

fsmNext == fsm_core_run \/ SendEvent \/ fsm_reset_state
fsmSpec == fsmInit /\ [][fsmNext]_fsmVars
-----------------------------------------------------------------------------
fsmTypeOK ==
    \A m \in Fsms :
        /\ fsm[m].cur_state \in States[m] \union {0, FSM_SUSPEND_STATE}
        /\ fsm[m].last_state \in States[m] \union {0, FSM_SUSPEND_STATE}
        /\ fsm[m].next_state \in States[m] \union {FSM_SUSPEND_STATE}
        /\ fsm[m].state_is_change \in BOOLEAN
        /\ fsm[m].fsm_is_ready \in BOOLEAN

(* __fsm_suspend_all suspends all machines under a list, __fsm_resume_all  *)
(* resumes those that were: with nothing left to change, a machine that    *)
(* has run is in a state of its own exactly when its parent is in the      *)
(* state it belongs to.                                                    *)
ChildFollowsParent ==
    \A m \in Fsms :
        /\ Parent[m] # FSM_NO_PARENT /\ fsm[m].fsm_is_ready
        /\ ~fsm[m].state_is_change /\ ~ParentChanges(fsm, m)
        => (fsm[m].cur_state \in States[m]
              <=> fsm[Parent[m][1]].cur_state = Parent[m][2])
=============================================================================

------------------------------- MODULE MCFsm -------------------------------
(* Three machines, each a child of the one before in its state 0.  They    *)
(* all run every time, and events come only when nothing else is pending   *)
(* for the machine's parent.                                               *)
EXTENDS Fsm

Chain == {1, 2, 3}
TwoStates == [m \in Chain |-> {0, 1}]
InOneAnother == [m \in Chain |-> IF m = 1 THEN FSM_NO_PARENT ELSE <<m - 1, 0>>]
FromZero == [m \in Chain |-> 0]
=============================================================================

-------------------------- MODULE FlashParamStore ---------------------------
(* FlashParam implements ParamStore.  The history a parameter has at any    *)
(* moment is the one a power-up would find in the flash, Stored(p): log     *)
(* records it, and adds nothing to the behaviour.                           *)
EXTENDS FlashParam

VARIABLE log

Logs == [p \in Params |-> Stored(p)]

LogInit == Init /\ log = Logs
LogNext == Next /\ log' = Logs'
LogSpec == LogInit /\ [][LogNext]_<<vars, log>>

(* The manager keeps the promise of ParamStore: after any power failure a   *)
(* normal parameter has its old or its new value, and a queue has lost at   *)
(* most the values of the one sector that was being erased.                 *)
Store == INSTANCE ParamStore WITH
            Keep <- [p \in Params |-> IF p \in Normal THEN SecTabSize[p] - 1
                                      ELSE (SecTabSize[p] - 1) * Slots]
Implements == Store!Spec
=============================================================================

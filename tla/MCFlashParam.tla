---------------------------- MODULE MCFlashParam ----------------------------
(* FlashParam with a normal and a queue parameter of two sectors each, or   *)
(* with the queue alone.                                                    *)
EXTENDS FlashParamStore, TLC

CONSTANTS
    setting, events     \* a normal and a queue parameter

ValueSymmetry == Permutations(Values)

ListOrder    == [p \in {setting, events} |-> IF p = events THEN 1 ELSE 2]
TwoEach      == [p \in {setting, events} |-> 2]
TwoSectors   == [p \in {events} |-> 2]
JustOne      == [p \in {events} |-> 1]
=============================================================================

------------------------------ MODULE MCLoader ------------------------------
(* Loader on small flash, with two images of different lengths.             *)
EXTENDS Loader

CONSTANTS
    small, large    \* the two images

TwoAndThree  == [i \in {small, large} |-> IF i = small THEN 2 ELSE 3]
ThreeAndFour == [i \in {small, large} |-> IF i = small THEN 3 ELSE 4]
=============================================================================

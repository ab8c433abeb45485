----------------------------- MODULE MCUpgrade ------------------------------
(* The board of this build, which has no backup partition, with two images  *)
(* it can take and one it cannot.                                           *)
EXTENDS Upgrade

CONSTANTS
    small, medium, large    \* the images

Lengths == [i \in {small, medium, large} |->
              CASE i = small -> 2 [] i = medium -> 3 [] i = large -> 5]
=============================================================================

------------------------------ MODULE MCBspCan ------------------------------
(* BspCan with a ring for two frames and a few frames, one of them invalid. *)
EXTENDS BspCan
=============================================================================

----------------------------- MODULE MCBspFlash -----------------------------
(* BspFlash with a chip of a few units. *)
EXTENDS BspFlash
=============================================================================

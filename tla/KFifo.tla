------------------------------- MODULE KFifo --------------------------------
(* The byte ring kfifo.c: a power of two of cells, and a write and a read   *)
(* index that only count up, as unsigned numbers.  An interrupt pushes and  *)
(* the main loop pulls, without a lock, so a pull is given in two steps:    *)
(* the copy, and the index moving on.                                       *)
EXTENDS Integers, Sequences

CONSTANTS
    Cells,          \* cells of the ring
    IndexRange      \* indices are counted modulo this (2^32)

ASSUME CellsAssumption ==
    /\ Cells \in Nat \ {0} /\ IndexRange \in Nat \ {0}
    /\ \E n \in 2..IndexRange : IndexRange = n * Cells

Index == 0..(IndexRange - 1)

kfifo_get_data_len(f) == (f.w - f.r) % IndexRange

(* Mutant: what lies at the start of the ring is copied over the first of  *)
(* what lies at its end.                                                   *)
PeekOver(f, n) ==
    [k \in 1..n |-> LET tail == Cells - (f.r % Cells)
                    IN  f.buf[(f.r + k - 1 + (IF k + tail <= n THEN tail ELSE 0))
                              % Cells]]

(* The units a pull of n would copy. *)
Peek(f, n) == [k \in 1..n |-> f.buf[(f.r + k - 1) % Cells]]

(* kfifo_push_in of one unit: a full ring takes nothing. *)
kfifo_push_in(f, unit) ==
    IF kfifo_get_data_len(f) < Cells
    THEN [f EXCEPT !.buf[f.w % Cells] = unit, !.w = (@ + 1) % IndexRange]
    ELSE f

(* Mutant: the read index moves on by one too few. *)
kfifo_pulled_short(f, n) == [f EXCEPT !.r = (@ + n - 1) % IndexRange]

(* The end of kfifo_pull_out of n units. *)
kfifo_pulled(f, n) == [f EXCEPT !.r = (@ + n) % IndexRange]

=============================================================================

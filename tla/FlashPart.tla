----------------------------- MODULE FlashPart -----------------------------
(* NOR flash as the partition layer (flash_part.c) offers it to its        *)
(* clients.  A partition is a function from unit addresses, relative to    *)
(* its start, to cells.  What a unit is (a download block, a parameter     *)
(* slot) is chosen by the client; the cell says whose data the unit holds. *)
EXTENDS Integers

CONSTANTS
    Erased,     \* a unit that reads as all ones
    Junk        \* a unit whose bits are no client's data

ASSUME CellKinds == Erased # Junk

(* A partition is checked before every access: an access that would run    *)
(* past its end is refused and changes nothing.                            *)
Fits(part, offset, len) == offset >= 0 /\ offset + len - 1 \in DOMAIN part

(* Programming can only clear bits: fresh flash takes the data, data that  *)
(* is already there stays, and any other overwrite mixes the two.          *)
Program(old, new) ==
    IF old = Erased \/ old = new THEN new ELSE Junk

flash_part_erase_len(part, offset, len) ==
    IF Fits(part, offset, len)
    THEN [u \in DOMAIN part |->
            IF u \in offset..(offset + len - 1) THEN Erased ELSE part[u]]
    ELSE part

(* data[u] is the cell to be stored at address u. *)
flash_part_write(part, offset, len, data) ==
    IF Fits(part, offset, len)
    THEN [u \in DOMAIN part |->
            IF u \in offset..(offset + len - 1)
            THEN Program(part[u], data[u]) ELSE part[u]]
    ELSE part

(* Power fails while the units in touched are being erased or programmed:  *)
(* they end up blank or with bits that are nobody's data.                  *)
Torn(part, touched) ==
    {[u \in DOMAIN part |-> IF u \in touched THEN c ELSE part[u]] :
        c \in {Erased, Junk}}
=============================================================================

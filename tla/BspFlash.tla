------------------------------ MODULE BspFlash ------------------------------
(* The flash driver of the LKS32MC45x, bsp_flash.c.  The chip is erased in  *)
(* blocks and programmed in units of four words; bsp_flash_write cuts a     *)
(* write into units and keeps what it programs next in WD_32, which has the *)
(* caller's bytes and is blank where nothing is to be programmed.  Every    *)
(* byte to be stored is told apart: a byte stands for the address its       *)
(* caller wants it at.  Callers write from the address of a word on         *)
(* (flash_param.c aligns to words), any number of bytes, where the chip is  *)
(* erased; they erase from the beginning of a block on.                     *)
EXTENDS FlashPart

CONSTANTS
    ChipBlocks,     \* blocks of the chip
    BlockUnits,     \* units of a block
    WriteLens,      \* how many bytes callers write or erase
    AnyPlace        \* callers write at any word, or only where Tidy says

Unit  == 16         \* bytes the chip programs at once
Word  == 4
Block == Unit * BlockUnits     \* FLASH_BLOCK_SIZE
Bytes == 0..(Block * ChipBlocks - 1)

ASSUME ChipAssumption ==
    /\ ChipBlocks \in 1..256 /\ BlockUnits \in Nat \ {0}
    /\ WriteLens \subseteq Nat \ {0}
    /\ AnyPlace \in BOOLEAN
    /\ Erased \notin Int /\ Junk \notin Int

VARIABLES
    chip,           \* the bytes of the chip
    asked,          \* the addresses at which callers have asked for a byte
    phase,          \* of bsp_flash_write: "idle", "head" or "units"
    addr, len,      \* what it was called with
    taken,          \* how far pbuf has advanced: write_len is len - taken
    write_cnt,
    write_addr,
    WD_32

drvVars == <<chip, asked, phase, addr, len, taken, write_cnt, write_addr, WD_32>>

ByteCells == Bytes \cup {Erased, Junk}
DEF_DATA  == [b \in 0..(Unit - 1) |-> Erased]

(* Type correctness. *)
drvTypeOK ==
    /\ chip \in [Bytes -> ByteCells]
    /\ asked \subseteq Bytes
    /\ phase \in {"idle", "head", "units"}
    /\ addr \in Bytes /\ len \in WriteLens \cup {0} /\ taken \in 0..len
    /\ write_cnt \in Nat
    /\ write_addr \in Nat
    /\ WD_32 \in [0..(Unit - 1) -> ByteCells]
-----------------------------------------------------------------------------
(* FLASH_Program, of the chip's library: the unit that address a lies in    *)
(* takes the bytes of data; a byte of all ones changes nothing.             *)
FLASH_Program(a, data) ==
    [b \in Bytes |->
        IF b \div Unit = a \div Unit /\ data[b % Unit] # Erased
        THEN Program(chip[b], data[b % Unit]) ELSE chip[b]]

(* Mutant: the last word is copied whole. *)
FilledWhole(first) ==
    [b \in 0..(Unit - 1) |->
        IF b >= first /\ taken + (b - first) - (b % Word) < len
        THEN addr + taken + (b - first) ELSE WD_32[b]]

(* Bytes first.. of WD_32 take what is left of the caller's data.           *)
Filled(first) ==
    [b \in 0..(Unit - 1) |->
        IF b >= first /\ taken + (b - first) < len
        THEN addr + taken + (b - first) ELSE WD_32[b]]

(* The last word with room for all that is left ends the call.              *)
LastOne(first) == len - taken <= Unit - first
-----------------------------------------------------------------------------
(* A write that begins or ends with a unit, or lies within one. *)
Tidy(a, l) ==
    a % Unit = 0 \/ (a + l) % Unit = 0 \/ (a % Unit) + l <= Unit

(* bsp_flash_write is called. *)
Called(a, l) ==
    /\ phase = "idle"
    /\ a % Word = 0 /\ (AnyPlace \/ Tidy(a, l))
    /\ a..(a + l - 1) \subseteq Bytes \ asked
    /\ asked' = asked \cup (a..(a + l - 1))
    /\ addr' = a /\ len' = l /\ taken' = 0
    /\ write_cnt' = ((a % Unit) + Unit - 1) \div Unit
                    + (l - (a % Unit) + Unit - 1) \div Unit
    /\ write_addr' = a
    /\ WD_32' = DEF_DATA
    /\ phase' = IF a % Unit # 0 THEN "head" ELSE "units"
    /\ UNCHANGED chip

(* A unit was programmed and data is left; the call goes on with the next   *)
(* one unless none is left by the count made at its beginning.              *)
GoOn ==
    /\ write_cnt' = write_cnt - 1
    /\ write_addr' = (write_addr - (write_addr % Unit)) + Unit
    /\ phase' = IF write_cnt = 1 THEN "idle" ELSE "units"

(* The call returns with all data programmed. *)
Return(first) ==
    /\ phase' = "idle" /\ WD_32' = Filled(first)
    /\ UNCHANGED <<taken, write_cnt, write_addr>>

(* The first unit of a write that begins inside one.  What is read from the *)
(* chip is or-ed into words of all ones, and so never matters.  WD_32 keeps *)
(* what it was filled with.                                                 *)
FirstUnit ==
    LET first == addr % Unit
    IN  /\ phase = "head"
        /\ chip' = FLASH_Program(addr, Filled(first))
        /\ \/ LastOne(first) /\ Return(first)
           \/ /\ ~LastOne(first) /\ GoOn
              /\ taken' = Unit - first
              /\ WD_32' = Filled(first)
        /\ UNCHANGED <<asked, addr, len>>

(* One more unit, from its beginning. *)
NextUnit ==
    /\ phase = "units"
    /\ chip' = FLASH_Program(write_addr, Filled(0))
    /\ \/ LastOne(0) /\ Return(0)
       \/ /\ ~LastOne(0) /\ GoOn
          /\ taken' = taken + Unit
          /\ WD_32' = DEF_DATA
    /\ UNCHANGED <<asked, addr, len>>

(* FLASH_EraseSector, of the chip's library, for the blocks from the one    *)
(* address a begins on.                                                     *)
EraseSectors(a, blocks) ==
    [b \in Bytes |-> IF b \in a..(a + blocks * Block - 1) THEN Erased ELSE chip[b]]

(* bsp_flash_erase: a block of which less is to be erased is erased whole.  *)
(* A range that goes past the end of the chip is refused.  The blocks after *)
(* the first are counted in eight bits: the chip has no more (FLASH_SIZE).  *)
(* No caller begins inside a block, so that branch is left out.             *)
bsp_flash_erase(a, l) ==
    /\ phase = "idle"
    /\ a % Block = 0
    /\ a + l - 1 \in Bytes
    /\ chip' = EraseSectors(a, (((l - 1) \div Block) % 256) + 1)
    /\ asked' = {b \in asked : b \div Block \notin {c \div Block : c \in a..(a + l - 1)}}
    /\ UNCHANGED <<phase, addr, len, taken, write_cnt, write_addr, WD_32>>
-----------------------------------------------------------------------------
drvInit ==
    /\ chip = [b \in Bytes |-> Erased]
    /\ asked = {}
    /\ phase = "idle"
    /\ addr = 0 /\ len = 0 /\ taken = 0
    /\ write_cnt = 0 /\ write_addr = 0
    /\ WD_32 = DEF_DATA

drvNext ==
    \/ \E a \in Bytes, l \in WriteLens : Called(a, l)
    \/ FirstUnit
    \/ NextUnit
    \/ \E a \in Bytes, l \in WriteLens : bsp_flash_erase(a, l)

drvSpec == drvInit /\ [][drvNext]_drvVars
-----------------------------------------------------------------------------
(* What every client of the driver relies on: when a write has returned,    *)
(* the chip holds the bytes that were asked for since their blocks were     *)
(* erased, each at its address, and nothing anywhere else; so a neighbour   *)
(* can still be written.  It fails when a write is counted short, shifts a  *)
(* byte, or leaves bytes of one unit in the next, or when an erase takes a  *)
(* block too few or too many.                                               *)
WritesStore ==
    phase = "idle" =>
        \A b \in Bytes : chip[b] = IF b \in asked THEN b ELSE Erased
=============================================================================

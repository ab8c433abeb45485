------------------------------ MODULE BlackBox ------------------------------
(* The store of the black box (xf_bbox.c): a partition of NOR flash split  *)
(* into an area of index words and an area of records, each a ring.  A     *)
(* record is saved by writing its index word and then its data; after a    *)
(* restart the next index is found again from what is in flash.  Power     *)
(* may fail between and inside any two flash operations.                   *)
EXTENDS FlashPart, FiniteSetsExt

CONSTANTS
    IndexBlocks,    \* sectors of the index area
    BlockWords,     \* index words in a sector
    DataBlocks,     \* sectors of the data area
    BlockUnits,     \* units in a sector of the data area
    RecUnits,       \* units of a record (data_len)
    LookBack,       \* how far the search for the last record goes back
    WordTears,      \* may power fail inside the programming of one word?
    MaxSaves,       \* bound: records saved in a behaviour
    MaxFails        \* bound: power failures inside a flash operation

index_cnt == IndexBlocks * BlockWords
data_size == DataBlocks * BlockUnits
data_cnt  == data_size \div RecUnits

ASSUME Geometry ==
    /\ IndexBlocks \in 1..4 /\ BlockWords \in Nat \ {0, 1}
    /\ {DataBlocks, BlockUnits, RecUnits, MaxSaves} \subseteq Nat \ {0}
    /\ RecUnits <= BlockUnits /\ MaxFails \in Nat /\ LookBack \in Nat
    /\ WordTears \in BOOLEAN

VARIABLES
    words,          \* the index area
    dat,            \* the data area
    index,          \* the next index to be written (RAM)
    data_act_cnt,   \* how many records there are (RAM)
    step,           \* the flash operation under way
    saves,          \* records begun so far: a record's identity
    kept,           \* the record last stored under each index
    erased,         \* records begun before the last erase command
    fails           \* power failures inside a flash operation so far

bbVars == <<words, dat, index, data_act_cnt, step, saves, kept, erased, fails>>
ram    == <<index, data_act_cnt>>

Records == [idx : 0..MaxSaves, id : 1..MaxSaves]
(* Erased flash reads as no index and as no record (FLASH_ERASE_VAL), and  *)
(* neither do mixed bits.                                                  *)
ASSUME NoData == {Erased, Junk} \cap (Nat \union Records) = {}
Steps   == {"off", "idle", "index_erase", "index_write", "prev_erase",
            "next_erase", "cur_erase", "data_write", "cmd_erase"}

(* What the flash operations of a save touch. *)
WordBlock(w) == LET b == w \div BlockWords
                IN (b * BlockWords)..(b * BlockWords + BlockWords - 1)
DataBlock(b) == (b * BlockUnits)..(b * BlockUnits + BlockUnits - 1)
WordSlot == index % index_cnt
AtWordBlockStart == WordSlot % BlockWords = 0
PreviousBlock == WordBlock(IF WordSlot > 0 THEN WordSlot - BlockWords
                           ELSE index_cnt - BlockWords)
LastWritten == (index - 1) % index_cnt
RecordUnits(i) == LET s == (i % data_cnt) * RecUnits IN s..(s + RecUnits - 1)
RecordStart == (index % data_cnt) * RecUnits
(* Mutant: a record that ends with its sector does not reach the next one. *)
ReachesLate == RecordStart \div BlockUnits
                 # (RecordStart + RecUnits - 1) \div BlockUnits
ReachesNext == RecordStart \div BlockUnits
                 # (RecordStart + RecUnits) \div BlockUnits
NextBlock == DataBlock((RecordStart \div BlockUnits + 1) % DataBlocks)
(* Mutant: the sector is erased for every record. *)
AlwaysAtStart == TRUE
AtDataBlockStart == RecordStart % BlockUnits = 0

ErasedIn(area, us) == [u \in DOMAIN area |->
                         IF u \in us THEN Erased ELSE area[u]]
ProgrammedIn(area, us, c) == [u \in DOMAIN area |->
                         IF u \in us THEN Program(area[u], c) ELSE area[u]]
-----------------------------------------------------------------------------
(* __bbox_flash_data_read: the checksum of a record agrees when all of it  *)
(* was programmed by one save.                                             *)
Sound(area, i) ==
    /\ area[Min(RecordUnits(i))] \in Records
    /\ \A u \in RecordUnits(i) : area[u] = area[Min(RecordUnits(i))]
ReadAt(area, i) == area[Min(RecordUnits(i))]

__bbox_flash_data_read_safe(i) ==
    i < index /\ i >= index - data_act_cnt /\ Sound(dat, i)

(* __bbox_max_index_calc: the sector whose first word is the largest valid *)
(* index, and in it the last word before the first blank or invalid one.   *)
IndexValid(area, w) == area[w] \in Nat /\ area[w] % index_cnt = w
UsedBlocks(area) ==
    {b \in 0..(IndexBlocks - 1) :
        area[b * BlockWords] # Erased \/ area[b * BlockWords + 1] # Erased}
BlockIndex(area) ==
    LET heads == {b \in UsedBlocks(area) : IndexValid(area, b * BlockWords)}
    IN IF heads = {} THEN 0
       ELSE CHOOSE b \in heads : \A c \in heads :
                area[c * BlockWords] <= area[b * BlockWords]
Run(area) ==
    {w \in WordBlock(BlockIndex(area) * BlockWords) :
        \A v \in (BlockIndex(area) * BlockWords)..w : IndexValid(area, v)}
__bbox_max_index_calc(area) ==
    IF Run(area) = {} THEN 0 ELSE area[Max(Run(area))]
SpareBlocks(area) ==
    IF Cardinality(UsedBlocks(area)) > 1
    THEN UsedBlocks(area) \ {BlockIndex(area)} ELSE {}

(* Mutant: saving goes on at the last record found, not behind it. *)
SearchStopsAt(area, max_index) ==
    LET min_index == IF max_index > LookBack THEN max_index - LookBack ELSE 0
        found == {i \in (min_index + 1)..max_index : Sound(area, i)}
    IN IF found = {} THEN min_index ELSE Max(found)

(* __bbox_data_search_by_index: back from the largest index to the first   *)
(* record that can be read, but never as far as min_index.                 *)
__bbox_data_search_by_index(area, max_index) ==
    LET min_index == IF max_index > LookBack THEN max_index - LookBack ELSE 0
        found == {i \in (min_index + 1)..max_index : Sound(area, i)}
    IN IF found = {} THEN min_index ELSE Max(found) + 1
-----------------------------------------------------------------------------
bbInit ==
    /\ words = [w \in 0..(index_cnt - 1) |-> Erased]
    /\ dat = [u \in 0..(data_size - 1) |-> Erased]
    /\ index = 0 /\ data_act_cnt = 0
    /\ step = "off" /\ saves = 0 /\ fails = 0 
    /\ kept = [i \in 0..MaxSaves |-> 0] /\ erased = 0

(* __bbox_data_init *)
Start ==
    /\ step = "off"
    /\ words' = ErasedIn(words,
                    UNION {WordBlock(b * BlockWords) : b \in SpareBlocks(words)})
    /\ index' = __bbox_data_search_by_index(dat, __bbox_max_index_calc(words))
    /\ data_act_cnt' = IF index' >= data_cnt THEN data_cnt ELSE index'
    /\ step' = "idle"
    /\ UNCHANGED <<dat, saves, kept, erased, fails>>

(* Power fails while the search erases the spare sectors one by one. *)
StartCut ==
    /\ step = "off" /\ fails < MaxFails
    /\ \E b \in SpareBlocks(words) :
         LET before == {c \in SpareBlocks(words) : c < b}
             done == UNION {WordBlock(c * BlockWords) : c \in before}
         IN words' \in Torn(ErasedIn(words, done), WordBlock(b * BlockWords))
    /\ fails' = fails + 1
    /\ UNCHANGED <<dat, ram, step, saves, kept, erased>>

(* A save begins: __bbox_flash_index_write, then __bbox_flash_data_write. *)
Save ==
    /\ step = "idle" /\ saves < MaxSaves
    /\ saves' = saves + 1
    /\ step' = IF AtWordBlockStart THEN "index_erase" ELSE "index_write"
    /\ UNCHANGED <<words, dat, ram, kept, erased, fails>>

IndexErase ==
    /\ step = "index_erase"
    /\ words' = ErasedIn(words, WordBlock(WordSlot))
    /\ step' = "index_write"
    /\ UNCHANGED <<dat, ram, saves, kept, erased, fails>>

DataStep == IF ReachesNext THEN "next_erase"
            ELSE IF AtDataBlockStart THEN "cur_erase" ELSE "data_write"

IndexWrite ==
    /\ step = "index_write"
    /\ words' = ProgrammedIn(words, {WordSlot}, index)
    /\ step' = IF AtWordBlockStart THEN "prev_erase" ELSE DataStep
    /\ UNCHANGED <<dat, ram, saves, kept, erased, fails>>

PrevErase ==
    /\ step = "prev_erase"
    /\ words' = ErasedIn(words, PreviousBlock)
    /\ step' = DataStep
    /\ UNCHANGED <<dat, ram, saves, kept, erased, fails>>

NextErase ==
    /\ step = "next_erase"
    /\ dat' = ErasedIn(dat, NextBlock)
    /\ step' = IF AtDataBlockStart THEN "cur_erase" ELSE "data_write"
    /\ UNCHANGED <<words, ram, saves, kept, erased, fails>>

CurErase ==
    /\ step = "cur_erase"
    /\ dat' = ErasedIn(dat, DataBlock(RecordStart \div BlockUnits))
    /\ step' = "data_write"
    /\ UNCHANGED <<words, ram, saves, kept, erased, fails>>

DataWrite ==
    /\ step = "data_write"
    /\ dat' = ProgrammedIn(dat, RecordUnits(index), [idx |-> index, id |-> saves])
    /\ data_act_cnt' = IF data_act_cnt < data_cnt THEN data_act_cnt + 1
                       ELSE IF index < data_cnt THEN index ELSE data_act_cnt
    /\ index' = index + 1
    /\ kept' = [kept EXCEPT ![index] = saves]
    /\ step' = "idle"
    /\ UNCHANGED <<words, saves, erased, fails>>

(* bbox_record_cmd_act, CMD_REC_ERASE: only the index is erased. *)
EraseCommand ==
    /\ step = "idle" /\ index # 0
    /\ step' = "cmd_erase"
    /\ UNCHANGED <<words, dat, ram, saves, kept, erased, fails>>

CurIndexErase ==
    /\ step = "cmd_erase"
    /\ words' = ErasedIn(words, WordBlock(LastWritten))
    /\ index' = 0 /\ data_act_cnt' = 0
    /\ erased' = saves /\ step' = "idle"
    /\ UNCHANGED <<dat, saves, kept, fails>>

(* The units the operation under way has in its hands. *)
WordsTouched ==
    CASE step = "index_erase" -> WordBlock(WordSlot)
      [] step = "index_write" -> IF WordTears THEN {WordSlot} ELSE {}
      [] step = "prev_erase"  -> PreviousBlock
      [] step = "cmd_erase"   -> WordBlock(LastWritten)
      [] OTHER -> {}
DataTouched ==
    CASE step = "next_erase" -> NextBlock
      [] step = "cur_erase"  -> DataBlock(RecordStart \div BlockUnits)
      [] step = "data_write" -> RecordUnits(index)
      [] OTHER -> {}

(* Power fails before the operation, or in it.  What the erase command     *)
(* has touched is no longer wanted.                                        *)
PowerFails ==
    /\ step # "off" /\ (step # "idle" => fails < MaxFails)
    /\ words' \in {words} \union Torn(words, WordsTouched)
    /\ dat' \in {dat} \union Torn(dat, DataTouched)
    /\ erased' = IF step = "cmd_erase" /\ words' # words THEN saves ELSE erased
    /\ index' = 0 /\ data_act_cnt' = 0
    /\ step' = "off"
    /\ fails' = IF step = "idle" THEN fails ELSE fails + 1
    /\ UNCHANGED <<saves, kept>>

bbNext ==
    \/ Start \/ StartCut \/ PowerFails
    \/ Save \/ IndexErase \/ IndexWrite \/ PrevErase
    \/ NextErase \/ CurErase \/ DataWrite
    \/ EraseCommand \/ CurIndexErase

bbSpec == bbInit /\ [][bbNext]_bbVars
-----------------------------------------------------------------------------
(* Both areas hold what the code writes there, and the RAM counters stay   *)
(* in the range of the ring.                                               *)
bbTypeOK ==
    /\ words \in [0..(index_cnt - 1) -> (0..MaxSaves) \union {Erased, Junk}]
    /\ dat \in [0..(data_size - 1) -> Records \union {Erased, Junk}]
    /\ index \in 0..MaxSaves /\ data_act_cnt \in 0..data_cnt
    /\ data_act_cnt <= index
    /\ step \in Steps /\ saves \in 0..MaxSaves /\ fails \in 0..MaxFails
    /\ kept \in [0..MaxSaves -> 0..MaxSaves] /\ erased \in 0..MaxSaves

(* The index found at start is past every record that was stored since the *)
(* last erase command, however often power went between two operations and *)
(* wherever it failed inside one, if it did so once: saving goes on behind *)
(* the last record (__bbox_data_init).  A failure after the head word of a *)
(* sector leaves that word alone; the save that begins again erases it,    *)
(* and a second failure there forgets the log.  The record with index 0 is *)
(* never looked at by __bbox_data_search_by_index.                         *)
Stored(i) == /\ kept[i] > erased
             /\ Sound(dat, i) /\ ReadAt(dat, i).id = kept[i]
NothingForgotten ==
    step = "idle" /\ fails <= 1 =>
      \A i \in 1..MaxSaves : Stored(i) => i < index

(* A record that is read back under an index inside the window             *)
(* (__bbox_flash_data_read_safe, which tests the checksum but not the      *)
(* index in the record) is the one last stored under that index, not what  *)
(* an earlier lap of the ring or an erased log has left there.             *)
NoImpostor ==
    step = "idle" =>
      \A i \in 0..MaxSaves : __bbox_flash_data_read_safe(i) =>
         ReadAt(dat, i) = [idx |-> i, id |-> kept[i]]

(* A sector's worth of the oldest records goes with each erase ahead; of   *)
(* the others each power failure costs at most one.                        *)
SlotsOfBlock == (BlockUnits + RecUnits - 2) \div RecUnits + 1
Lost == {i \in 0..MaxSaves :
            /\ kept[i] > erased /\ i < index
            /\ i + data_cnt >= index + SlotsOfBlock
            /\ ~Stored(i)}
LossPerFailure == step = "idle" => Cardinality(Lost) <= fails
=============================================================================

--------------------------- MODULE BspFlashProofs ---------------------------
(* A chip of any size: writes that begin or end with a unit, or lie in one, *)
(* store what they are given and nothing else, and erasing takes the blocks *)
(* it is to take.                                                           *)
EXTENDS BspFlash, Arithmetic, TLAPS

(* Clients write only where Tidy says. *)
TidyClients == ~AnyPlace

(* The bytes of the running write that are not programmed yet. *)
Pending == IF phase = "idle" THEN {} ELSE (addr + taken)..(addr + len - 1)

ChipIs ==
    \A b \in Bytes : chip[b] = IF b \in asked /\ b \notin Pending THEN b ELSE Erased

(* A running write has something left. *)
Running ==
    phase # "idle" =>
        /\ taken < len
        /\ addr..(addr + len - 1) \subseteq asked

(* Before the first unit of a write that begins inside one. *)
AtHead ==
    phase = "head" =>
        /\ taken = 0 /\ WD_32 = DEF_DATA
        /\ write_addr = addr
        /\ addr % Unit # 0 /\ Tidy(addr, len)
        /\ write_cnt = 1 + ((len - (addr % Unit) + Unit - 1) \div Unit)

(* Before a whole unit: the count covers what is left, and bytes that are   *)
(* still in WD_32 will all be overwritten.                                  *)
AtUnit ==
    phase = "units" =>
        /\ write_addr = addr + taken /\ write_addr % Unit = 0
        /\ write_cnt * Unit >= len - taken
        /\ WD_32 = DEF_DATA \/ len - taken >= Unit

DriverInv == drvTypeOK /\ ChipIs /\ Running /\ AtHead /\ AtUnit
-----------------------------------------------------------------------------
(* Sizes *)

LEMMA Sizes ==
    /\ Block \in Nat \ {0}
    /\ Block * ChipBlocks \in Nat \ {0}
    /\ Bytes \subseteq Nat
    /\ 0 \in Bytes
    /\ Unit = 16 /\ Word = 4
<1>1. Block \in Nat \ {0}
  BY ChipAssumption DEF Block, Unit
<1>2. Block * ChipBlocks \in Nat \ {0}
  BY <1>1, ChipAssumption
<1>3. Bytes = 0..(Block * ChipBlocks - 1)
  BY DEF Bytes
<1> QED BY <1>1, <1>2, <1>3 DEF Unit, Word

(* A byte is in the unit of an address if it is in the sixteen bytes from   *)
(* the beginning of that unit on.                                           *)
LEMMA SameUnit ==
    ASSUME NEW a \in Nat, NEW b \in Nat
    PROVE  /\ b \div 16 = a \div 16 <=> b \in (a - (a % 16))..(a - (a % 16) + 15)
           /\ b \div 16 = a \div 16 => b % 16 = b - (a - (a % 16))
<1>1. /\ a = 16 * (a \div 16) + (a % 16) /\ a % 16 \in 0..15 /\ a \div 16 \in Int
      /\ b = 16 * (b \div 16) + (b % 16) /\ b % 16 \in 0..15 /\ b \div 16 \in Int
  OBVIOUS
<1> QED BY <1>1

(* A write on erased bytes leaves each of them the byte that is meant for   *)
(* it, up to the end of the unit, and does not touch the others.            *)
LEMMA UnitProgrammed ==
    ASSUME DriverInv, phase # "idle",
           NEW first \in 0..15, NEW a \in Nat,
           a - (a % 16) = addr + taken - first,
           WD_32 = DEF_DATA \/ (first = 0 /\ len - taken >= 16)
    PROVE  \A b \in Bytes :
             FLASH_Program(a, Filled(first))[b] =
                IF b \in Pending /\ b <= addr + taken - first + 15
                THEN b ELSE chip[b]
<1> DEFINE base == addr + taken - first
<1>0. /\ addr \in Nat /\ taken \in Nat /\ len \in Nat /\ base \in Int
      /\ Pending = (addr + taken)..(addr + len - 1)
      /\ WD_32 \in [0..15 -> ByteCells]
  BY Sizes, ChipAssumption DEF DriverInv, drvTypeOK, Pending
<1> TAKE b \in Bytes
<1>1. b \in Nat /\ b % 16 \in 0..15
  BY Sizes
<1>2. FLASH_Program(a, Filled(first))[b] =
        IF b \div 16 = a \div 16 /\ Filled(first)[b % 16] # Erased
        THEN Program(chip[b], Filled(first)[b % 16]) ELSE chip[b]
  BY Sizes DEF FLASH_Program
<1>3. Filled(first)[b % 16] =
        IF b % 16 >= first /\ taken + ((b % 16) - first) < len
        THEN addr + taken + ((b % 16) - first) ELSE WD_32[b % 16]
  BY <1>1, Sizes DEF Filled
<1>4. CASE b \div 16 # a \div 16
  <2>1. b \notin base..(base + 15)
    BY <1>1, <1>4, SameUnit
  <2>2. ~(b \in Pending /\ b <= base + 15)
    BY <1>0, <1>1, <2>1
  <2> QED BY <1>2, <1>4, <2>2
<1>5. CASE b \div 16 = a \div 16
  <2>1. b \in base..(base + 15) /\ b % 16 = b - base
    BY <1>1, <1>5, SameUnit
  <2>2. CASE b \in Pending
    <3>1. Filled(first)[b % 16] = b
      BY <1>0, <1>1, <1>3, <2>1, <2>2, SMTT(20)
    <3>2. chip[b] = Erased
      BY <2>2 DEF DriverInv, ChipIs
    <3>3. b # Erased
      BY <1>1, ChipAssumption
    <3> QED BY <1>0, <1>1, <1>2, <1>5, <2>1, <2>2, <3>1, <3>2, <3>3 DEF Program
  <2>3. CASE b \notin Pending
    <3>1. Filled(first)[b % 16] = WD_32[b % 16]
      BY <1>0, <1>1, <1>3, <2>1, <2>3, SMTT(20)
    <3>2. WD_32 = DEF_DATA
      BY <1>0, <1>1, <2>1, <2>3
    <3>3. Filled(first)[b % 16] = Erased
      BY <1>1, <3>1, <3>2, Sizes DEF DEF_DATA
    <3> QED BY <1>2, <2>3, <3>3
  <2> QED BY <2>2, <2>3
<1> QED BY <1>4, <1>5

(* What a unit leaves is well typed. *)
LEMMA FilledType ==
    ASSUME DriverInv, phase # "idle", NEW first \in 0..15,
           addr + taken + 15 - first \in Int
    PROVE  Filled(first) \in [0..(Unit - 1) -> ByteCells]
<1>1. /\ addr \in Nat /\ taken \in Nat /\ len \in Nat
      /\ WD_32 \in [0..15 -> ByteCells]
  BY Sizes, ChipAssumption DEF DriverInv, drvTypeOK
<1>2. addr..(addr + len - 1) \subseteq Bytes
  BY DEF DriverInv, drvTypeOK, Running
<1>3. ASSUME NEW b \in 0..15, b >= first, taken + (b - first) < len
      PROVE  addr + taken + (b - first) \in ByteCells
  BY <1>1, <1>2, <1>3 DEF ByteCells
<1> QED BY <1>1, <1>3, Sizes DEF Filled
-----------------------------------------------------------------------------
(* Programming *)

LEMMA ProgramType ==
    ASSUME drvTypeOK, NEW a, NEW data \in [0..(Unit - 1) -> ByteCells]
    PROVE  FLASH_Program(a, data) \in [Bytes -> ByteCells]
<1>1. ASSUME NEW b \in Bytes
      PROVE  data[b % Unit] \in ByteCells /\ chip[b] \in ByteCells
  BY Sizes DEF drvTypeOK
<1> QED BY <1>1 DEF FLASH_Program, Program, ByteCells

LEMMA DriverInit == drvInit => DriverInv
<1> SUFFICES ASSUME drvInit PROVE DriverInv
  OBVIOUS
<1>1. drvTypeOK
  BY Sizes DEF drvInit, drvTypeOK, ByteCells, DEF_DATA
<1>2. ChipIs
  BY DEF drvInit, ChipIs
<1> QED BY <1>1, <1>2 DEF drvInit, DriverInv, Running, AtHead, AtUnit

(* A write begins. *)
LEMMA CalledStep ==
    ASSUME TidyClients, DriverInv,
           NEW a \in Bytes, NEW l \in WriteLens, Called(a, l)
    PROVE  DriverInv'
<1>1. /\ a \in Nat /\ l \in Nat \ {0} /\ a % Unit \in 0..15 /\ Tidy(a, l)
      /\ a..(a + l - 1) \subseteq Bytes
  BY Sizes, ChipAssumption DEF Called, TidyClients
<1> DEFINE n == ((a % Unit) + Unit - 1) \div Unit
           k == (l - (a % Unit) + Unit - 1) \div Unit
<1>2. /\ k \in Nat
      /\ a % Unit = 0 => n = 0 /\ k * 16 >= l
      /\ a % Unit # 0 => n = 1
  BY <1>1, Sizes
<1>3. drvTypeOK'
  <2>1. write_cnt' \in Nat
    BY <1>1, <1>2, Sizes DEF Called
  <2>2. DEF_DATA \in [0..(Unit - 1) -> ByteCells]
    BY DEF DEF_DATA, ByteCells
  <2> QED BY <1>1, <2>1, <2>2 DEF Called, DriverInv, drvTypeOK
<1>4. ChipIs'
  <2>1. phase = "idle" /\ phase' # "idle" /\ Pending = {}
    BY DEF Called, Pending
  <2>2. Pending' = a..(a + l - 1)
    BY <1>1, <2>1 DEF Called, Pending
  <2> QED BY <1>1, <2>1, <2>2 DEF Called, DriverInv, ChipIs
<1>5. Running'
  BY <1>1 DEF Called, Running
<1>6. AtHead'
  BY <1>1, <1>2 DEF Called, AtHead
<1>7. AtUnit'
  <2> SUFFICES ASSUME phase' = "units" PROVE AtUnit'
    BY DEF AtUnit
  <2>1. a % Unit = 0
    BY DEF Called
  <2> QED BY <1>1, <1>2, <2>1, Sizes DEF Called, AtUnit
<1> QED BY <1>3, <1>4, <1>5, <1>6, <1>7 DEF DriverInv

(* The first unit of a write that begins inside one: either the write lies  *)
(* in it, or the rest are whole units.                                      *)
LEMMA FirstUnitStep ==
    ASSUME DriverInv, FirstUnit
    PROVE  DriverInv'
<1> DEFINE first == addr % Unit
<1>1. /\ phase = "head" /\ addr \in Nat /\ len \in Nat /\ taken = 0
      /\ write_addr = addr /\ WD_32 = DEF_DATA
      /\ first \in 1..15 /\ Tidy(addr, len)
      /\ write_cnt = 1 + ((len - first + Unit - 1) \div Unit)
      /\ 0 < len /\ Unit = 16
  BY Sizes, ChipAssumption DEF FirstUnit, DriverInv, drvTypeOK, Running, AtHead
<1>2. Filled(first) \in [0..(Unit - 1) -> ByteCells]
  BY <1>1, FilledType
<1>3. \A b \in Bytes : chip'[b] = IF b \in Pending /\ b <= addr - first + 15
                                  THEN b ELSE chip[b]
  BY <1>1, UnitProgrammed DEF FirstUnit
<1>4. chip' \in [Bytes -> ByteCells]
  BY <1>2, ProgramType DEF FirstUnit, DriverInv
<1>5. Pending = addr..(addr + len - 1) /\ Pending \subseteq asked
  BY <1>1 DEF Pending, DriverInv, Running
<1>6. CASE LastOne(first) /\ Return(first)
  <2>1. phase' = "idle" /\ Pending' = {}
    BY <1>6 DEF Return, Pending
  <2>2. \A b \in Pending : b <= addr - first + 15
    BY <1>1, <1>5, <1>6 DEF LastOne
  <2>3. ChipIs'
    BY <1>3, <1>5, <2>1, <2>2 DEF ChipIs, DriverInv, FirstUnit
  <2>4. drvTypeOK'
    BY <1>2, <1>4, <1>6 DEF drvTypeOK, DriverInv, FirstUnit, Return
  <2> QED BY <2>1, <2>3, <2>4 DEF DriverInv, Running, AtHead, AtUnit
<1>7. CASE ~LastOne(first) /\ GoOn /\ taken' = Unit - first
           /\ WD_32' = Filled(first)
  <2>1. len > 16 - first /\ (addr + len) % 16 = 0
    BY <1>1, <1>7 DEF LastOne, Tidy
  <2>2. (len - (16 - first)) % 16 = 0
    BY <1>1, <2>1
  <2>3. write_cnt \in Nat /\ (write_cnt - 1) * 16 >= len - (16 - first)
    BY <1>1, <2>1, <2>2
  <2>4. len - (16 - first) >= 16
    BY <1>1, <2>1, <2>2
  <2>5. write_cnt # 1 /\ phase' = "units" /\ write_cnt' = write_cnt - 1
    BY <1>1, <1>7, <2>3, <2>4 DEF GoOn
  <2>6. write_addr' = addr + taken' /\ write_addr' % 16 = 0 /\ taken' \in 1..15
    BY <1>1, <1>7 DEF GoOn
  <2>7. Pending' = (addr + 16 - first)..(addr + len - 1)
    BY <1>1, <1>7, <2>5 DEF Pending, FirstUnit
  <2>8. ChipIs'
    <3>1. \A b \in Bytes : b \in Pending' <=> b \in Pending /\ b > addr - first + 15
      BY <1>1, <1>5, <2>7
    <3> QED BY <1>1, <1>3, <1>5, <2>7, <3>1, Sizes DEF ChipIs, DriverInv, FirstUnit
  <2>9. drvTypeOK'
    BY <1>1, <1>2, <1>4, <1>7, <2>1, <2>3, <2>4, <2>5, <2>6
       DEF drvTypeOK, DriverInv, FirstUnit
  <2>10. Running'
    BY <1>1, <1>7, <2>1, <2>6 DEF Running, DriverInv, FirstUnit
  <2>11. AtUnit'
    BY <1>1, <1>7, <2>3, <2>4, <2>5, <2>6 DEF AtUnit, FirstUnit
  <2> QED BY <2>5, <2>8, <2>9, <2>10, <2>11 DEF DriverInv, AtHead
<1> QED BY <1>6, <1>7 DEF FirstUnit

(* One more whole unit. *)
LEMMA NextUnitStep ==
    ASSUME DriverInv, NextUnit
    PROVE  DriverInv'
<1>1. /\ phase = "units" /\ addr \in Nat /\ len \in Nat /\ taken \in Nat
      /\ write_cnt \in Nat
      /\ write_addr = addr + taken /\ write_addr % 16 = 0
      /\ write_cnt * 16 >= len - taken
      /\ WD_32 = DEF_DATA \/ len - taken >= 16
      /\ taken < len /\ Unit = 16
  BY Sizes, ChipAssumption DEF NextUnit, DriverInv, drvTypeOK, Running, AtUnit
<1>2. Filled(0) \in [0..(Unit - 1) -> ByteCells]
  BY <1>1, FilledType
<1>3. \A b \in Bytes : chip'[b] = IF b \in Pending /\ b <= addr + taken + 15
                                  THEN b ELSE chip[b]
  <2>1. write_addr - (write_addr % 16) = addr + taken - 0
    BY <1>1
  <2> QED BY <1>1, <2>1, UnitProgrammed DEF NextUnit
<1>4. chip' \in [Bytes -> ByteCells]
  BY <1>2, ProgramType DEF NextUnit, DriverInv
<1>5. Pending = (addr + taken)..(addr + len - 1) /\ Pending \subseteq asked
  BY <1>1 DEF Pending, DriverInv, Running
<1>6. CASE LastOne(0) /\ Return(0)
  <2>1. phase' = "idle" /\ Pending' = {}
    BY <1>6 DEF Return, Pending
  <2>2. \A b \in Pending : b <= addr + taken + 15
    BY <1>1, <1>5, <1>6 DEF LastOne
  <2>3. ChipIs'
    BY <1>3, <1>5, <2>1, <2>2 DEF ChipIs, DriverInv, NextUnit
  <2>4. drvTypeOK'
    BY <1>2, <1>4, <1>6 DEF drvTypeOK, DriverInv, NextUnit, Return
  <2> QED BY <2>1, <2>3, <2>4 DEF DriverInv, Running, AtHead, AtUnit
<1>7. CASE ~LastOne(0) /\ GoOn /\ taken' = taken + Unit /\ WD_32' = DEF_DATA
  <2>1. len - taken > 16
    BY <1>1, <1>7 DEF LastOne
  <2>2. write_cnt > 1 /\ phase' = "units" /\ write_cnt' = write_cnt - 1
    BY <1>1, <1>7, <2>1 DEF GoOn
  <2>3. write_addr' = addr + taken' /\ write_addr' % 16 = 0
    BY <1>1, <1>7 DEF GoOn
  <2>4. Pending' = (addr + taken + 16)..(addr + len - 1)
    BY <1>1, <1>7, <2>2 DEF Pending, NextUnit
  <2>5. ChipIs'
    <3>1. \A b \in Bytes : b \in Pending' <=> b \in Pending /\ b > addr + taken + 15
      BY <1>1, <1>5, <2>4
    <3> QED BY <1>1, <1>3, <1>5, <2>4, <3>1, Sizes DEF ChipIs, DriverInv, NextUnit
  <2>6. DEF_DATA \in [0..(Unit - 1) -> ByteCells]
    BY DEF DEF_DATA, ByteCells
  <2>7. drvTypeOK'
    BY <1>1, <1>4, <1>7, <2>1, <2>2, <2>3, <2>6 DEF drvTypeOK, DriverInv, NextUnit
  <2>8. Running'
    BY <1>1, <1>7, <2>1 DEF Running, DriverInv, NextUnit
  <2>9. AtUnit'
    BY <1>1, <1>7, <2>1, <2>2, <2>3 DEF AtUnit, NextUnit
  <2> QED BY <2>2, <2>5, <2>7, <2>8, <2>9 DEF DriverInv, AtHead
<1> QED BY <1>6, <1>7 DEF NextUnit
-----------------------------------------------------------------------------
(* Erasing *)

(* The number of blocks that is counted covers the blocks the range has     *)
(* bytes of, and no other.                                                  *)
LEMMA BlocksCounted ==
    ASSUME NEW a \in Bytes, NEW l \in Nat \ {0}, NEW b \in Bytes,
           a % Block = 0
    PROVE  b \in a..(a + (((l - 1) \div Block) + 1) * Block - 1)
             <=> b \div Block \in {c \div Block : c \in a..(a + l - 1)}
<1> DEFINE B == Block
           q == a \div B
           k == (l - 1) \div B
           d == b \div B
           m == b % B
<1>1. B \in Nat \ {0} /\ a \in Nat /\ b \in Nat
  BY Sizes
<1>2. q \in Int /\ a = B * q
  BY <1>1, DivMod
<1>3. d \in Int /\ m \in 0..(B - 1) /\ b = B * d + m
  BY <1>1, DivMod
<1>4. PICK x \in 0..(B - 1) : k \in Int /\ l - 1 = B * k + x
  <2>1. l - 1 \in Int
    OBVIOUS
  <2>2. /\ (l - 1) % B \in 0..(B - 1) /\ k \in Int
        /\ l - 1 = B * k + ((l - 1) % B)
    BY <1>1, <2>1, DivMod, Zenon
  <2> HIDE DEF B, k
  <2> QED BY <2>2
<1>5. \A c \in a..(a + l - 1) : \E y \in 0..(B - 1) :
         c \div B \in Int /\ c = B * (c \div B) + y
  <2> TAKE c \in a..(a + l - 1)
  <2>1. c \in Int
    BY <1>1
  <2>2. /\ c % B \in 0..(B - 1) /\ c \div B \in Int
        /\ c = B * (c \div B) + (c % B)
    BY <1>1, <2>1, DivMod
  <2> QED BY <2>2
<1> HIDE DEF B, q, k, d, m
<1>6. b \in a..(a + (k + 1) * B - 1) <=> d \in q..(q + k)
  <2>1. d >= q => B * d >= B * q
    BY <1>1, <1>2, <1>3
  <2>2. d < q => B * (d + 1) <= B * q
    BY <1>1, <1>2, <1>3
  <2>3. d <= q + k => B * (d + 1) <= B * (q + k + 1)
    BY <1>1, <1>2, <1>3, <1>4
  <2>4. d > q + k => B * d >= B * (q + k + 1)
    BY <1>1, <1>2, <1>3, <1>4
  <2>5. B * (q + k + 1) = a + (k + 1) * B /\ B * (d + 1) = B * d + B
    BY <1>1, <1>2, <1>3, <1>4
  <2>6. B * (q + k + 1) \in Int /\ B * d \in Int /\ (k + 1) * B \in Int
    BY <1>1, <1>2, <1>3, <1>4
  <2> QED BY <1>1, <1>2, <1>3, <1>4, <2>1, <2>2, <2>3, <2>4, <2>5, <2>6
<1>7. d \in q..(q + k) => \E c \in a..(a + l - 1) : c \div B = d
  <2> SUFFICES ASSUME d \in q..(q + k)
               PROVE  B * d \in a..(a + l - 1) /\ (B * d) \div B = d
    OBVIOUS
  <2>1. B * d >= B * q /\ B * d <= B * (q + k)
    BY <1>1, <1>2, <1>3, <1>4
  <2>2. B * (q + k) = a + B * k /\ B * d \in Int /\ B * k \in Int
    BY <1>1, <1>2, <1>3, <1>4
  <2>3. B * d \in a..(a + l - 1)
    BY <1>1, <1>2, <1>4, <2>1, <2>2
  <2>4. (B * d) \div B = d
    <3> DEFINE e == (B * d) \div B
               s == (B * d) % B
    <3>1. e \in Int /\ s \in 0..(B - 1) /\ B * d = B * e + s
      BY <1>1, <2>2, DivMod
    <3> HIDE DEF e, s
    <3>2. e >= d + 1 => B * e >= B * (d + 1)
      BY <1>1, <1>3, <3>1
    <3>3. e <= d - 1 => B * e <= B * (d - 1)
      BY <1>1, <1>3, <3>1
    <3>4. B * (d + 1) = B * d + B /\ B * (d - 1) = B * d - B
      BY <1>1, <1>3
    <3>5. B * e \in Int /\ B * d \in Int
      BY <1>1, <1>3, <3>1
    <3>6. e = d
      BY <1>1, <1>3, <3>1, <3>2, <3>3, <3>4, <3>5
    <3> QED BY <3>6 DEF e
  <2> QED BY <2>3, <2>4
<1>8. ASSUME NEW c \in a..(a + l - 1), c \div B = d
      PROVE  d \in q..(q + k)
  <2>1. PICK y \in 0..(B - 1) : c = B * d + y
    BY <1>5, <1>8
  <2>2. c \in Nat /\ B * d \in Int /\ B * q \in Int /\ B * k \in Int
    BY <1>1, <1>2, <1>3, <1>4
  <2>3. d < q => B * (d + 1) <= B * q
    BY <1>1, <1>2, <1>3
  <2>4. d > q + k => B * d >= B * (q + k + 1)
    BY <1>1, <1>2, <1>3, <1>4
  <2>5. B * (q + k + 1) = a + B * k + B /\ B * (d + 1) = B * d + B
    BY <1>1, <1>2, <1>3, <1>4
  <2> QED BY <1>1, <1>2, <1>3, <1>4, <2>1, <2>2, <2>3, <2>4, <2>5
<1> QED BY <1>6, <1>7, <1>8 DEF B, k, d

(* The count of blocks never goes past its eight bits. *)
LEMMA CountFits ==
    ASSUME NEW a \in Bytes, NEW l \in WriteLens, a + l - 1 \in Bytes
    PROVE  ((l - 1) \div Block) % 256 = (l - 1) \div Block
<1> DEFINE B == Block  n == ChipBlocks  k == (l - 1) \div Block
<1>1. /\ B \in Nat \ {0} /\ n \in 1..256 /\ a \in Nat /\ l \in Nat \ {0}
      /\ l - 1 <= B * n - 1 /\ B * n \in Nat
  BY Sizes, ChipAssumption DEF Bytes
<1>2. PICK x \in 0..(B - 1) : k \in Int /\ l - 1 = B * k + x
  <2>1. l - 1 \in Int
    BY <1>1
  <2>2. /\ (l - 1) % B \in 0..(B - 1) /\ k \in Int
        /\ l - 1 = B * k + ((l - 1) % B)
    BY <1>1, <2>1, DivMod, Zenon
  <2> HIDE DEF B, k
  <2> QED BY <2>2
<1> HIDE DEF B, n, k
<1>3. k >= n => B * k >= B * n
  BY <1>1, <1>2
<1>4. k < 0 => B * (k + 1) <= 0
  BY <1>1, <1>2
<1>5. B * (k + 1) = B * k + B /\ B * k \in Int
  BY <1>1, <1>2
<1>6. k \in 0..255
  BY <1>1, <1>2, <1>3, <1>4, <1>5
<1>7. k % 256 = k
  BY <1>6, ModSmall
<1> QED BY <1>7 DEF k

LEMMA EraseStep ==
    ASSUME DriverInv,
           NEW a \in Bytes, NEW l \in WriteLens, bsp_flash_erase(a, l)
    PROVE  DriverInv'
<1>1. phase = "idle" /\ phase' = "idle" /\ l \in Nat \ {0} /\ a % Block = 0
  BY ChipAssumption DEF bsp_flash_erase
<1> DEFINE gone(b) == b \in a..(a + (((l - 1) \div Block) + 1) * Block - 1)
<1>2. \A b \in Bytes : chip'[b] = IF gone(b) THEN Erased ELSE chip[b]
  BY CountFits DEF bsp_flash_erase, EraseSectors
<1>3. \A b \in Bytes : b \in asked' <=> b \in asked /\ ~gone(b)
  BY <1>1, BlocksCounted DEF bsp_flash_erase
<1>4. ChipIs'
  BY <1>1, <1>2, <1>3 DEF ChipIs, Pending, DriverInv
<1>5. drvTypeOK'
  BY DEF drvTypeOK, DriverInv, bsp_flash_erase, EraseSectors, ByteCells
<1> QED BY <1>1, <1>4, <1>5 DEF DriverInv, Running, AtHead, AtUnit
-----------------------------------------------------------------------------
LEMMA DriverStep == TidyClients /\ DriverInv /\ [drvNext]_drvVars => DriverInv'
<1> SUFFICES ASSUME TidyClients, DriverInv, [drvNext]_drvVars PROVE DriverInv'
  OBVIOUS
<1>1. CASE \E a \in Bytes, l \in WriteLens : Called(a, l)
  BY <1>1, CalledStep
<1>2. CASE FirstUnit
  BY <1>2, FirstUnitStep
<1>3. CASE NextUnit
  BY <1>3, NextUnitStep
<1>4. CASE \E a \in Bytes, l \in WriteLens : bsp_flash_erase(a, l)
  BY <1>4, EraseStep
<1>5. CASE UNCHANGED drvVars
  BY <1>5 DEF DriverInv, drvVars, drvTypeOK, ChipIs, Pending, Running, AtHead, AtUnit
<1> QED BY <1>1, <1>2, <1>3, <1>4, <1>5 DEF drvNext

LEMMA DriverInvariant == TidyClients /\ drvSpec => []DriverInv
<1>1. TidyClients => []TidyClients
  <2>1. TidyClients => TidyClients'
    BY DEF TidyClients
  <2> QED BY <2>1, PTL
<1> QED BY <1>1, DriverInit, DriverStep, PTL DEF drvSpec

(* Writes that begin or end with a unit, or lie in one, store their bytes   *)
(* and no others, whatever their lengths and order, and whatever is erased  *)
(* between them (bsp_flash.c).                                              *)
THEOREM TidyWritesStore == TidyClients /\ drvSpec => []WritesStore
<1>1. DriverInv => WritesStore
  BY DEF DriverInv, ChipIs, Pending, WritesStore
<1> QED BY <1>1, DriverInvariant, PTL
=============================================================================

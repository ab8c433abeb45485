----------------------------- MODULE FlashParam -----------------------------
(* The parameter manager flash_param.c on one flash partition: sectors with *)
(* a header (parameter and save index) and slots for values, the tables     *)
(* flash_param_init rebuilds from them at power-up, saving, reading, and    *)
(* power failing at any moment.  A unit of flash is a header or a slot;     *)
(* its checksum holds or it does not.  Parameters are registered with       *)
(* lengths that do not change and are longer than two bytes, and with a     *)
(* partition that has a sector for each table entry.                        *)
EXTENDS FlashPart, FiniteSets, Sequences

CONSTANTS
    Normal,         \* FLASH_NORMAL_PARAM parameters
    Queue,          \* FLASH_QUEUE_PARAM parameters
    Order,          \* their place in the registration list
    Values,         \* what is saved
    SecTabSize,     \* sec_tab_size of each parameter
    Slots,          \* values a sector has room for
    PartSectors,    \* sectors of the partition
    IndexMod,       \* save indices are counted modulo this (2^16)
    AppendTears     \* power may fail while a value is appended to a sector

Params == Normal \cup Queue

ASSUME ParamsAssumption ==
    /\ Normal \cap Queue = {}
    /\ Order \in [Params -> Nat]
    /\ \A p, q \in Params : Order[p] = Order[q] => p = q
    /\ SecTabSize \in [Params -> Nat \ {0, 1}]
    /\ Slots \in Nat \ {0}
    /\ IndexMod \in Nat \ {0}
    /\ AppendTears \in BOOLEAN

VARIABLES
    part,       \* the partition
    on,         \* the tables below have been built since power-up
    tab,        \* p_sec_tab of each parameter
    save        \* exec.save_sector of each parameter, counted from 1

vars == <<part, on, tab, save>>
-----------------------------------------------------------------------------
(* Sectors *)

Sectors     == 0..(PartSectors - 1)
SectorUnits == Slots + 1
Addr(s, k)  == s * SectorUnits + k      \* slot k of sector s; 0 is the header
Units(s)    == Addr(s, 0)..Addr(s, Slots)
Headers     == [param : Params, index : 0..(IndexMod - 1)]
Entries     == [sector : Sectors, num : 0..Slots, index : 0..(IndexMod - 1)]

(* What is said above of registrations; a header, a value and a unit that  *)
(* is neither are different things; and a queue is shorter than half the   *)
(* range of the save index.                                                *)
TabEntries == UNION {{p} \X (1..SecTabSize[p]) : p \in Params}
ASSUME PartAssumption ==
    /\ PartSectors \in Nat /\ IsFiniteSet(Params)
    /\ Cardinality(TabEntries) <= PartSectors
    /\ Headers \cap Values = {}
    /\ {Erased, Junk} \cap (Headers \cup Values) = {}
    /\ \A p \in Params : SecTabSize[p] < IndexMod \div 2

(* RAM before flash_param_init has run. *)
NoTab == [p \in Params |->
            [k \in 1..SecTabSize[p] |-> [sector |-> 0, num |-> 0, index |-> 0]]]

(* Type correctness. *)
TypeOK ==
    /\ part \in [0..(PartSectors * SectorUnits - 1) ->
                    Headers \cup Values \cup {Erased, Junk}]
    /\ on \in BOOLEAN
    /\ DOMAIN tab = Params /\ DOMAIN save = Params
    /\ \A p \in Params : /\ tab[p] \in [1..SecTabSize[p] -> Entries]
                         /\ save[p] \in 1..SecTabSize[p]
-----------------------------------------------------------------------------
(* What flash_param_init makes of a partition f *)

read_info(f, s) == f[Addr(s, 0)] \in Headers
read_data(f, s, k) == f[Addr(s, k)] \in Values

(* search_data_num: a queue's values are counted up to the first bad one.  *)
search_data_num(f, s) ==
    LET room == IF f[Addr(s, 0)].param \in Normal THEN 1 ELSE Slots
    IN  CHOOSE n \in 0..room :
            /\ \A k \in 1..n : read_data(f, s, k)
            /\ n < room => ~read_data(f, s, n + 1)

(* The element of set with k - 1 others before it. *)
Nth(set, k, Before(_, _)) ==
    CHOOSE s \in set : Cardinality({t \in set : Before(t, s)}) = k - 1

(* search_part_param: going up through the sectors, those that hold values *)
(* of a parameter fill its table; every other one with a good header is    *)
(* erased.                                                                 *)
Usable(f, p) ==
    {s \in Sectors : /\ read_info(f, s)
                     /\ f[Addr(s, 0)].param = p
                     /\ search_data_num(f, s) # 0}
Found(f, p) ==
    LET usable == Usable(f, p)
    IN  {s \in usable : Cardinality({t \in usable : t < s}) < SecTabSize[p]}
Swept(f) ==
    LET found == UNION {Found(f, p) : p \in Params}
    IN  {s \in Sectors \ found : read_info(f, s)}
SweptPart(f, swept) ==
    [a \in DOMAIN f |-> IF \E s \in swept : a \in Units(s) THEN Erased ELSE f[a]]

(* assort_param_sector: the sectors without a good header go, in order, to *)
(* the table entries still empty.                                          *)
Unused(f)  == {s \in Sectors : ~read_info(f, s)} \cup Swept(f)
Lack(f, p) == SecTabSize[p] - Cardinality(Found(f, p))
(* Mutant: the search for unused sectors begins anew for each parameter.   *)
LackAnew(f, p) == 0

LackUpTo(f, p) ==
    LET before == {q \in Params : Order[q] < Order[p]}
    IN  Cardinality({e \in before \X (1..Cardinality(Sectors)) :
                        e[2] <= Lack(f, e[1])})
Given(f, p, k) == Nth(Unused(f), LackUpTo(f, p) + k, LAMBDA s, t : s < t)

(* param_sort: by save index, which wraps; then the empty entries.         *)
Younger(i, j) == (i - j) % IndexMod < (IndexMod \div 2) - 1
Older(f, s, t) ==
    s # t /\ Younger(f[Addr(t, 0)].index, f[Addr(s, 0)].index)
Filled(f, p) ==
    LET found == Found(f, p)
    IN  [k \in 1..Cardinality(found) |->
            LET s == Nth(found, k, LAMBDA x, y : Older(f, x, y))
            IN  [sector |-> s, num |-> search_data_num(f, s),
                 index |-> f[Addr(s, 0)].index]]
SortedTab(f, p) ==
    LET filled == Filled(f, p)
        n      == Len(filled)
    IN  [k \in 1..SecTabSize[p] |->
            IF k <= n THEN filled[k]
            ELSE [sector |-> Given(f, p, k - n), num |-> 0, index |-> 0]]
(* Mutant: sorting leaves the first sector as the one to go on with.       *)
SaveFirst(f, p) == 1

SaveSector(f, p) == IF Found(f, p) = {} THEN 1 ELSE Cardinality(Found(f, p))
-----------------------------------------------------------------------------
(* Power-up *)

flash_param_init ==
    /\ ~on
    /\ on' = TRUE
    /\ part' = SweptPart(part, Swept(part))
    /\ tab' = [p \in Params |-> SortedTab(part, p)]
    /\ save' = [p \in Params |-> SaveSector(part, p)]
-----------------------------------------------------------------------------
(* Saving: real_flash_param_save, and real_flash_param_rd with the default  *)
(* as the value                                                             *)

Current(p) == tab[p][save[p]]
(* Mutant: the sector that holds the last value is written again.          *)
SaveInPlace(p) == save[p]

NextSave(p) == (save[p] % SecTabSize[p]) + 1

(* param_write starts on the next sector, on its first one, or appends.    *)
Moves(p)   == /\ Current(p).num # 0
              /\ p \in Normal \/ Current(p).num + 1 > Slots
Starts(p)  == Current(p).num = 0
Appends(p) == ~Moves(p) /\ ~Starts(p)

(* Mutant: the save index is not cut to its width.                         *)
TargetWider(p) ==
    IF Moves(p)
    THEN [sector |-> tab[p][NextSave(p)].sector, num |-> 1,
          index |-> Current(p).index + 1]
    ELSE IF Starts(p) THEN [Current(p) EXCEPT !.num = 1, !.index = 0]
    ELSE [Current(p) EXCEPT !.num = @ + 1]

Target(p) ==
    IF Moves(p)
    THEN [sector |-> tab[p][NextSave(p)].sector, num |-> 1,
          index |-> (Current(p).index + 1) % IndexMod]
    ELSE IF Starts(p) THEN [Current(p) EXCEPT !.num = 1, !.index = 0]
    ELSE [Current(p) EXCEPT !.num = @ + 1]

HeaderOf(p) == [param |-> p, index |-> Target(p).index]
Put(f, s, k, cell) ==
    flash_part_write(f, Addr(s, k), 1, [a \in {Addr(s, k)} |-> cell])

(* Mutant: the sector is not erased.                                       *)
PreparedUnerased(p) ==
    IF Appends(p) THEN part ELSE Put(part, Target(p).sector, 0, HeaderOf(p))

(* The sector before the value is written to it. *)
Prepared(p) ==
    LET s == Target(p).sector
    IN  IF Appends(p) THEN part
        ELSE Put(flash_part_erase_len(part, Addr(s, 0), SectorUnits),
                 s, 0, HeaderOf(p))

param_write(p, v) ==
    /\ part' = Put(Prepared(p), Target(p).sector, Target(p).num, v)
    /\ LET k == IF Moves(p) THEN NextSave(p) ELSE save[p]
       IN  /\ save' = [save EXCEPT ![p] = k]
           /\ tab' = [tab EXCEPT ![p][k] = Target(p)]
    /\ UNCHANGED on

Save(p, v) == on /\ param_write(p, v)
-----------------------------------------------------------------------------
(* Reading changes nothing: these are the values of its results *)

(* param_read; anything but a value is an error code. *)
param_read(p) ==
    IF Current(p).num = 0 THEN "no_data"
    ELSE IF read_data(part, Current(p).sector, Current(p).num)
    THEN part[Addr(Current(p).sector, Current(p).num)]
    ELSE "crc_err"

(* param_read_history walks from save_sector upward, around the table. *)
Walk(p) == [j \in 1..SecTabSize[p] |-> ((save[p] + j - 2) % SecTabSize[p]) + 1]
Passed(p, j) ==     \* values in the first j sectors of the walk
    Cardinality({e \in (1..j) \X (1..Slots) : e[2] <= tab[p][Walk(p)[e[1]]].num})
param_read_history(p, index) ==
    IF index >= Passed(p, SecTabSize[p]) THEN "no_data"
    ELSE LET j == CHOOSE j \in 1..SecTabSize[p] :
                    Passed(p, j - 1) <= index /\ index < Passed(p, j)
             e == tab[p][Walk(p)[j]]
             a == Addr(e.sector, e.num - (index - Passed(p, j - 1)))
         IN  IF part[a] \in Values THEN part[a] ELSE "crc_err"
-----------------------------------------------------------------------------
(* Power failures *)

Off ==
    /\ on' = FALSE
    /\ tab' = NoTab
    /\ save' = [p \in Params |-> 1]

PowerLoss == Off /\ UNCHANGED part

(* While a sector is being erased, some of its units still hold what they  *)
(* held, the others nothing that can be read.  Behind a header that cannot *)
(* be read, what the slots hold makes no difference.                       *)
HalfErased(f, s) ==
    {[a \in DOMAIN f |-> IF a \in Units(s) \ left THEN Junk ELSE f[a]] :
        left \in {l \in SUBSET Units(s) : l # {} => Addr(s, 0) \in l}}

PowerLossInInit ==
    /\ ~on
    /\ \E s \in Swept(part) :
          part' \in HalfErased(
                      SweptPart(part, {t \in Swept(part) : t < s}), s)
    /\ Off

(* While a value is saved: in the erase, in the header, or in the value.   *)
PowerLossInSave(p) ==
    /\ on
    /\ LET s == Target(p).sector
       IN  \/ /\ ~Appends(p)
              /\ part' \in HalfErased(part, s)
                      \cup {[Prepared(p) EXCEPT ![Addr(s, 0)] = Junk],
                            Prepared(p),
                            [Prepared(p) EXCEPT ![Addr(s, 1)] = Junk]}
           \/ /\ Appends(p)
              /\ part' = IF AppendTears
                         THEN [part EXCEPT ![Addr(s, Target(p).num)] = Junk]
                         ELSE part
    /\ Off
-----------------------------------------------------------------------------
(* The partition leaves the factory blank, or was used for something else. *)
Init ==
    /\ \E c \in {Erased, Junk} :
          part = [a \in 0..(PartSectors * SectorUnits - 1) |-> c]
    /\ on = FALSE
    /\ tab = NoTab
    /\ save = [p \in Params |-> 1]

Next ==
    \/ flash_param_init
    \/ \E p \in Params : \E v \in Values : Save(p, v)
    \/ PowerLoss
    \/ PowerLossInInit
    \/ \E p \in Params : PowerLossInSave(p)

Spec == Init /\ [][Next]_vars
-----------------------------------------------------------------------------
(* Properties *)

(* The values of p in flash, oldest first: the slots that read well in     *)
(* sectors with p's header, older sectors first.                           *)
SectorOf(a) == a \div SectorUnits
HeaderAt(a) == part[Addr(SectorOf(a), 0)]
Live(p) ==
    {a \in DOMAIN part :
        /\ part[a] \in Values
        /\ read_info(part, SectorOf(a)) /\ HeaderAt(a).param = p
        /\ p \in Normal => a = Addr(SectorOf(a), 1)
        /\ \A b \in Addr(SectorOf(a), 1)..a : part[b] \in Values}
Before(a, b) ==
    IF SectorOf(a) = SectorOf(b) THEN a < b
    ELSE Younger(HeaderAt(b).index, HeaderAt(a).index)
Stored(p) ==
    LET live == Live(p)
    IN  [k \in 1..Cardinality(live) |-> part[Nth(live, k, Before)]]

(* "The smaller the history index, the newer the data, counted from 0":    *)
(* what the running program reads through its tables is what is in flash,  *)
(* newest first.                                                           *)
HistoryNewestFirst ==
    on => \A p \in Params :
            LET stored == Stored(p)
            IN  \A i \in 0..Len(stored) :
                    param_read_history(p, i) =
                        IF i < Len(stored) THEN stored[Len(stored) - i]
                        ELSE "no_data"

(* A save that returned FLASH_PARAM_SUCCESS can be read back. *)
SavedIsReadable ==
    [][\A p \in Params :
         on /\ tab'[p] # tab[p] /\ on' =>
            \E v \in Values : Save(p, v) /\ param_read(p)' = v]_vars

(* No two table entries share a sector, whatever was lost before. *)
SectorsApart ==
    on => \A p, q \in Params : \A i \in 1..SecTabSize[p], j \in 1..SecTabSize[q] :
            tab[p][i].sector = tab[q][j].sector => p = q /\ i = j
=============================================================================

------------------------------- MODULE CanSrc -------------------------------
(* Messages longer than a CAN frame (can_src.c): the receive interrupt     *)
(* puts each frame into a cell and strings the cells of a message together *)
(* by source, the main loop takes whole messages out, and both work on the *)
(* same linked lists without a lock.  The interrupt takes the third cell   *)
(* of the empty list and appends at the end of the other one, the main     *)
(* loop frees at the front of the one and unlinks anywhere in the other.   *)
EXTENDS Integers, Sequences, FiniteSets, SequencesExt

CONSTANTS
    CellCount,      \* r_cache_num: cells of the receive cache
    Srcs,           \* addresses of the senders
    NULL,
    EMPT, NORM,     \* the cells that head the two lists
    MessageLen,     \* frames in a message
    MaxSent         \* bound: frames a sender sends

Cells == 1..CellCount

ASSUME CellsAreCounted ==
    /\ CellCount \in Nat /\ CellCount > 1
    /\ NULL \notin Cells /\ EMPT \notin Cells /\ NORM \notin Cells
    /\ EMPT # NORM /\ NULL \notin {EMPT, NORM}
    /\ MessageLen \in Nat \ {0} /\ MaxSent \in Nat

VARIABLES
    p_head_list, p_son_list,    \* the links of the cells
    frame,                      \* sender and number of the frame in a cell
    whole,                      \* cells marked CAN_PACK_WHOLE_FLG
    task,                       \* where the main loop is, and its locals
    on_bus,                     \* number of each sender's next frame
    handed,                     \* the messages read, by sender and last frame
    leaked                      \* cells in no list any more

srcVars == <<p_head_list, p_son_list, frame, whole, task, on_bus, handed, leaked>>
lists   == <<p_head_list, p_son_list, frame, whole>>

Pieces == [src : Srcs, no : 1..MaxSent]
Tasks == [at : {"idle", "scan", "unlink_read", "unlink_timeout", "copy", "free",
                "freed"},
          last : Cells \union {EMPT, NORM, NULL}, cur : Cells \union {NULL},
          next : Cells \union {NULL}]
Idle == [at |-> "idle", last |-> NULL, cur |-> NULL, next |-> NULL]

(* The cells behind "start", in the order of the links. *)
Follow(links, start) ==
    LET f[n \in 0..CellCount] ==
          IF n = 0 THEN << >>
          ELSE LET before == f[n - 1]
                   end == IF before = << >> THEN start ELSE Last(before)
               IN IF end = NULL \/ links[end] = NULL THEN before
                  ELSE Append(before, links[end])
    IN f[CellCount]
Chain(c)  == <<c>> \o Follow(p_son_list, c)
Messages  == Follow(p_head_list, NORM)
IsLastFrame(no) == no % MessageLen = 0     \* curr_no = total_pack

(* can_src_init *)
srcInit ==
    /\ p_head_list = [c \in Cells \union {EMPT, NORM} |->
         CASE c = NORM -> NULL
           [] c = EMPT -> 1
           [] OTHER -> IF c < CellCount THEN c + 1 ELSE NULL]
    /\ p_son_list = [c \in Cells |-> NULL]
    /\ frame = [c \in Cells |-> NULL]
    /\ whole = {} /\ task = Idle
    /\ on_bus = [s \in Srcs |-> 1] /\ handed = [s \in Srcs |-> {}]
    /\ leaked = {}
-----------------------------------------------------------------------------
(* get_empty_cache takes the third cell, so that the two links the main    *)
(* loop may be about to change stay what they are; NULL when there is none. *)
(* Mutant: the first cell is taken. *)
FrontOfEmpty == EMPT
SecondEmpty == p_head_list[p_head_list[EMPT]]
EmptyCell == p_head_list[SecondEmpty]

Taken(c) == [p_head_list EXCEPT ![SecondEmpty] = p_head_list[c], ![c] = NULL]

(* Mutant: a whole message is not passed over. *)
UnfinishedOrWhole(s) ==
    LET open == {i \in DOMAIN Messages : frame[Messages[i]].src = s}
    IN IF open = {} THEN NULL ELSE Messages[Min(open)]

(* The message a frame belongs to: the first that is not whole and comes   *)
(* from the same sender. *)
Unfinished(s) ==
    LET open == {i \in DOMAIN Messages :
                   Messages[i] \notin whole /\ frame[Messages[i]].src = s}
    IN IF open = {} THEN NULL ELSE Messages[Min(open)]

can_src_rece_norm_pack(c, f) ==
    LET h == Unfinished(f.src)
        end == IF Messages = << >> THEN NORM ELSE Last(Messages)
    IN /\ p_head_list' = IF h = NULL THEN [Taken(c) EXCEPT ![end] = c] ELSE Taken(c)
       /\ p_son_list' = IF h = NULL THEN [p_son_list EXCEPT ![c] = NULL]
                        ELSE [p_son_list EXCEPT ![Last(Chain(h))] = c, ![c] = NULL]
       /\ whole' = IF IsLastFrame(f.no)
                   THEN whole \union {IF h = NULL THEN c ELSE h} ELSE whole

(* can_src_rece_pack, in the interrupt. *)
Receive(s) ==
    LET f == [src |-> s, no |-> on_bus[s]]
    IN /\ on_bus[s] <= MaxSent
       /\ on_bus' = [on_bus EXCEPT ![s] = @ + 1]
       /\ IF EmptyCell = NULL THEN UNCHANGED lists
          ELSE /\ frame' = [frame EXCEPT ![EmptyCell] = f]
               /\ can_src_rece_norm_pack(EmptyCell, f)
       /\ UNCHANGED <<task, handed, leaked>>

(* The frame is not for this board, or was lost. *)
FrameLost(s) ==
    /\ on_bus[s] <= MaxSent
    /\ on_bus' = [on_bus EXCEPT ![s] = @ + 1]
    /\ UNCHANGED <<lists, task, handed, leaked>>
-----------------------------------------------------------------------------
(* can_src_read_data looks for a whole message from the front, one message *)
(* at a step; the interrupt can complete a message the scan has passed and *)
(* append another behind it.  It reads the link of the one it finds ...    *)
Scan ==
    LET cursor == IF task.at = "idle" THEN NORM ELSE task.last
        cur == p_head_list[cursor]
    IN /\ task.at \in {"idle", "scan"}
       /\ \/ cur = NULL /\ task.at = "scan" /\ task' = Idle
          \/ /\ cur # NULL /\ cur \notin whole
             /\ task' = [at |-> "scan", last |-> cur, cur |-> NULL, next |-> NULL]
          \/ /\ cur # NULL /\ cur \in whole
             /\ task' = [at |-> "unlink_read", last |-> cursor, cur |-> cur,
                         next |-> p_head_list[cur]]
       /\ UNCHANGED <<lists, on_bus, handed, leaked>>

(* ... can_src_free_timeout_pack the first one, when it is too old ...     *)
FindTimeout ==
    /\ task.at = "idle" /\ Messages # << >>
    /\ task' = [at |-> "unlink_timeout", last |-> NORM,
                cur |-> Messages[1], next |-> p_head_list[Messages[1]]]
    /\ UNCHANGED <<lists, on_bus, handed, leaked>>

(* ... and both write it into the cell before.  What the interrupt has put *)
(* behind a message that was the last is lost with its link.               *)
Unlink ==
    /\ task.at \in {"unlink_read", "unlink_timeout"}
    /\ p_head_list' = [p_head_list EXCEPT ![task.last] = task.next]
    /\ leaked' = leaked \union
         (IF task.next = p_head_list[task.cur] THEN {}
          ELSE UNION {Range(Chain(h)) : h \in Range(Follow(p_head_list, task.cur))})
    /\ task' = [task EXCEPT !.at = IF @ = "unlink_read" THEN "copy" ELSE "free"]
    /\ UNCHANGED <<p_son_list, frame, whole, on_bus, handed>>

Copy ==
    /\ task.at = "copy"
    /\ LET read == Last(Chain(task.cur))
       IN handed' = [handed EXCEPT ![frame[read].src] = @ \union {frame[read].no}]
    /\ task' = [task EXCEPT !.at = "free"]
    /\ UNCHANGED <<lists, on_bus, leaked>>

(* The mark of a freed cell is left in it and overwritten with the next    *)
(* frame it gets. *)
StillWhole(chain) == whole \ Range(chain)

(* free_son_cache strings the cells together by their other link, lets the *)
(* last one point to the first empty cell (what an empty cell holds does   *)
(* not matter any more) ...                                                *)
FreeLink ==
    LET chain == Chain(task.cur)
        place(c) == CHOOSE i \in DOMAIN chain : chain[i] = c
    IN /\ task.at = "free"
       /\ p_head_list' = [c \in DOMAIN p_head_list |->
            IF c \notin Range(chain) THEN p_head_list[c]
            ELSE IF c = Last(chain) THEN p_head_list[EMPT]
            ELSE chain[place(c) + 1]]
       /\ p_son_list' = [c \in Cells |-> IF c \in Range(chain) THEN NULL
                                         ELSE p_son_list[c]]
       /\ frame' = [c \in Cells |-> IF c \in Range(chain) THEN NULL
                                    ELSE frame[c]]
       /\ whole' = StillWhole(chain)
       /\ task' = [task EXCEPT !.at = "freed", !.last = NULL, !.next = NULL]
       /\ UNCHANGED <<on_bus, handed, leaked>>

(* ... and only then puts them in front of it. *)
FreeHead ==
    /\ task.at = "freed"
    /\ p_head_list' = [p_head_list EXCEPT ![EMPT] = task.cur]
    /\ task' = Idle
    /\ UNCHANGED <<p_son_list, frame, whole, on_bus, handed, leaked>>

srcNext ==
    \/ \E s \in Srcs : Receive(s) \/ FrameLost(s)
    \/ Scan \/ FindTimeout \/ Unlink \/ Copy \/ FreeLink \/ FreeHead

srcSpec == srcInit /\ [][srcNext]_srcVars
-----------------------------------------------------------------------------
(* The links lead to cells, and a cell marked whole holds a frame: without *)
(* that a message that has only begun would be read.                       *)
srcTypeOK ==
    /\ p_head_list \in [Cells \union {EMPT, NORM} -> Cells \union {NULL}]
    /\ p_son_list \in [Cells -> Cells \union {NULL}]
    /\ frame \in [Cells -> Pieces \union {NULL}]
    /\ whole \subseteq {c \in Cells : frame[c] # NULL}
    /\ leaked \subseteq Cells /\ task \in Tasks
    /\ on_bus \in [Srcs -> 1..(MaxSent + 1)]
    /\ handed \in [Srcs -> SUBSET (1..MaxSent)]

(* Every cell is in one list only: empty, in a message, in the hands of    *)
(* the main loop, or lost behind the last message while it was unlinked.   *)
(* So the interrupt never hands out a cell that is in use, although        *)
(* nothing keeps it from running inside free_son_cache.                    *)
EmptyCells == Range(Follow(p_head_list, EMPT))
HeldCells == UNION {Range(Chain(h)) : h \in Range(Messages)}
TasksCells ==
    CASE task.at \in {"copy", "free"} -> Range(Chain(task.cur))
      [] task.at = "freed" -> Range(<<task.cur>> \o Follow(p_head_list, task.cur))
                                \ EmptyCells
      [] OTHER -> {}
CellsKept ==
    /\ EmptyCells \union HeldCells \union TasksCells \union leaked = Cells
    /\ Cardinality(EmptyCells) + Cardinality(HeldCells)
         + Cardinality(TasksCells) + Cardinality(leaked) = Cardinality(Cells)

(* What can_src_read_data returns is from one sender, in the order it was  *)
(* sent, and goes to the end of a message and not past it; frames may be   *)
(* missing from it.  No message read before lies inside it, and at most    *)
(* one that was sent after it: the one the interrupt appended while the    *)
(* scan had passed this one unfinished.                                    *)
ReadInOrder ==
    task.at = "copy" =>
      LET read == [i \in DOMAIN Chain(task.cur) |-> frame[Chain(task.cur)[i]]]
          before == handed[read[1].src]
      IN /\ \A i \in DOMAIN read :
              /\ read[i].src = read[1].src
              /\ i > 1 => read[i].no > read[i - 1].no
              /\ IsLastFrame(read[i].no) <=> i = Len(read)
         /\ \A n \in before : n < read[1].no \/ n > Last(read).no
         /\ \A n, m \in before : n > read[1].no /\ m > read[1].no => n = m
=============================================================================

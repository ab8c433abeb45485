-------------------------------- MODULE Link --------------------------------
(* The receiving side of a UART link: the receive interrupt of bsp_uart.c   *)
(* fills the byte ring (KFifo), run_unpack of protocol_hal.c empties it,    *)
(* protocol_decode of protocol_matrix.c finds the frames in the stream, and *)
(* those for this node are handled.  A unit of the stream is the six bytes  *)
(* check_header looks at, or a part of a frame's body; what is not a unit   *)
(* of a frame is Noise.                                                     *)
EXTENDS KFifo
LOCAL INSTANCE FiniteSetsExt

CONSTANTS
    FrameCount,     \* frames, numbered in the order they are sent
    MaxUnits,       \* units they have together, at most
    FrameLens,        \* units a frame may have
    Ours,           \* the frames whose destination is this node
    LbSize,         \* size of line_buf_obj
    ReadMax,        \* MAX_RECV_PACK_LEN
    MaxDamage,      \* units the line may spoil or lose in a behaviour
    Noise

FrameIds == 1..FrameCount

ASSUME LineAssumption ==
    /\ FrameCount \in Nat \ {0}
    /\ FrameLens \subseteq Nat \ {0}
    /\ Ours \subseteq FrameIds
    /\ LbSize \in Nat \ {0} /\ ReadMax \in Nat \ {0} /\ MaxDamage \in Nat

VARIABLES
    length,     \* of each frame, announced in its header
    next,       \* the unit the line carries next
    damage,     \* units spoiled or lost so far
    fifo,       \* p_uart_rx_fifo
    recv,       \* recv_buf: what a pull has copied, <<>> between pulls
    held,       \* line_buf_obj from its read index on
    body,       \* unpack_step is UNPACK_BODY
    handled,    \* frames handled, in order
    outwaited,  \* history: frames whose time ran out while they were held
    arrived     \* history: every unit the ring took

linkVars == <<length, next, damage, fifo, recv, held, body, handled,
                  outwaited, arrived>>
-----------------------------------------------------------------------------
Stream == (FrameIds \X (1..10)) \cup {Noise}
Units(f) == [j \in 1..length[f] |-> <<f, j>>]

(* Type correctness. *)
linkTypeOK ==
    /\ length \in [FrameIds -> FrameLens]
    /\ next \in Nat \X Nat
    /\ damage \in 0..MaxDamage
    /\ fifo.buf \in [0..(Cells - 1) -> Stream]
    /\ fifo.w \in Index /\ fifo.r \in Index
    /\ kfifo_get_data_len(fifo) <= Cells
    /\ recv \in Seq(Stream) /\ Len(recv) <= ReadMax
    /\ held \in Seq(Stream) /\ Len(held) <= LbSize
    /\ body \in BOOLEAN /\ (body => held # <<>>)
    /\ handled \in Seq(FrameIds)
    /\ outwaited \subseteq FrameIds
    /\ arrived \in Seq(Stream)
-----------------------------------------------------------------------------
(* The line and the receive interrupt.  A unit that finds the ring full is *)
(* lost.                                                                   *)
After(u) == IF u[2] < length[u[1]] THEN <<u[1], u[2] + 1>> ELSE <<u[1] + 1, 1>>

Receive(unit) ==
    /\ fifo' = kfifo_push_in(fifo, unit)
    /\ arrived' = IF fifo' = fifo THEN arrived ELSE Append(arrived, unit)

Arrive ==
    /\ next[1] \in FrameIds
    /\ Receive(next)
    /\ next' = After(next)
    /\ UNCHANGED <<length, damage, recv, held, body, handled,
                  outwaited>>

Spoil ==
    /\ next[1] \in FrameIds
    /\ damage < MaxDamage
    /\ Receive(Noise) \/ UNCHANGED <<fifo, arrived>>
    /\ next' = After(next)
    /\ damage' = damage + 1
    /\ UNCHANGED <<length, recv, held, body, handled,
                  outwaited>>
-----------------------------------------------------------------------------
(* protocol_decode *)

check_header(unit) == unit # Noise /\ unit[2] = 1
get_pack_len(unit) == length[unit[1]]

(* What the loop does at position p of the line buffer lb.  A frame is     *)
(* looked at from a good header on; one that is not all there is waited    *)
(* for, unless the buffer is full of it or its time is up.                 *)
From(lb, p) == Len(lb) - p + 1
Whole(lb, p) == check_header(lb[p]) /\ From(lb, p) >= get_pack_len(lb[p])
Good(lb, p)  == Whole(lb, p) /\ SubSeq(lb, p, p + get_pack_len(lb[p]) - 1)
                                    = Units(lb[p][1])
Waits(lb, p, late) ==
    /\ check_header(lb[p]) /\ ~Whole(lb, p)
    /\ From(lb, p) < LbSize
    /\ ~(late /\ p = 1)

(* Mutant: a frame that is not all there is passed over. *)
StopEagerly(lb, late) ==
    CHOOSE p \in 1..(Len(lb) + 1) :
        /\ p = Len(lb) + 1 \/ Good(lb, p)
        /\ \A q \in 1..(p - 1) : ~Good(lb, q)

(* Where the loop stops: at a good frame, at one it waits for, or at the   *)
(* end of the buffer.                                                      *)
Stop(lb, late) ==
    CHOOSE p \in 1..(Len(lb) + 1) :
        /\ p = Len(lb) + 1 \/ Good(lb, p) \/ Waits(lb, p, late)
        /\ \A q \in 1..(p - 1) : ~Good(lb, q) /\ ~Waits(lb, q, late)

(* Input that was buffered behind a good frame is fed again: data_index    *)
(* goes back by its length, for input of earlier calls beyond the start of *)
(* recv_buf, where something else is read.                                 *)
Input(in, from, n) ==
    [k \in 1..n |-> IF from + k >= 1 THEN in[from + k] ELSE Noise]

FeedAgain(di, rest) == di - Len(rest)

(* run_unpack: protocol_decode until it finds no more frames, with the     *)
(* input in, the line buffer lb, data_index di and the frames got so far.  *)
Calls == [in : Seq(Stream), lb : Seq(Stream), di : Int, late : BOOLEAN,
          got : Seq(FrameIds)]

(* What of the input the line buffer takes. *)
Room(c) == IF LbSize - Len(c.lb) < Len(c.in) - c.di THEN LbSize - Len(c.lb)
                                                    ELSE Len(c.in) - c.di

Pushed(c) == c.lb \o Input(c.in, c.di, Room(c))

run_unpack[c \in Calls] ==
    LET lb   == Pushed(c)
        di   == c.di + Room(c)
        p    == Stop(lb, c.late)
        left == SubSeq(lb, p, Len(lb))
    IN  IF p <= Len(lb) /\ Good(lb, p)
        THEN LET f    == lb[p][1]
                 rest == SubSeq(left, length[f] + 1, Len(left))
             IN  run_unpack[[c EXCEPT !.lb = <<>>, !.di = FeedAgain(di, rest),
                                      !.late = FALSE, !.got = Append(@, f)]]
        ELSE IF di < Len(c.in)
        THEN run_unpack[[c EXCEPT !.lb = left, !.di = di, !.late = @ /\ p = 1]]
        ELSE [held |-> left, got |-> c.got]

(* route_check without a routing table, and find_and_exec_action. *)
Handle(frames) == SelectSeq(frames, LAMBDA f : f \in Ours)
-----------------------------------------------------------------------------
(* The main loop *)

CanRead == IF kfifo_get_data_len(fifo) < ReadMax THEN kfifo_get_data_len(fifo)
                                                 ELSE ReadMax

Read ==
    /\ recv = <<>>
    /\ CanRead > 0
    /\ recv' = Peek(fifo, CanRead)
    /\ UNCHANGED <<length, next, damage, fifo, held, body, handled,
                  outwaited, arrived>>

Decode(late) ==
    LET result == run_unpack[[in |-> recv, lb |-> held, di |-> 0,
                              late |-> late /\ body, got |-> <<>>]]
    IN  /\ recv # <<>>
        /\ fifo' = kfifo_pulled(fifo, Len(recv))
        /\ recv' = <<>>
        /\ held' = result.held
        /\ body' = (result.held # <<>>)
        /\ handled' = handled \o Handle(result.got)
        /\ outwaited' = outwaited \cup
               {f \in FrameIds : late /\ body /\ f = held[1][1]
                                /\ result.got = <<>>}
        /\ UNCHANGED <<length, next, damage, arrived>>
-----------------------------------------------------------------------------
linkInit ==
    /\ length \in [FrameIds -> FrameLens]
    /\ MapThenSumSet(LAMBDA f : length[f], FrameIds) <= MaxUnits
    /\ next = <<1, 1>>
    /\ damage = 0
    /\ fifo = [buf |-> [i \in 0..(Cells - 1) |-> Noise], w |-> 0, r |-> 0]
    /\ recv = <<>>
    /\ held = <<>> /\ body = FALSE
    /\ handled = <<>>
    /\ outwaited = {}
    /\ arrived = <<>>

Loop == Read \/ \E late \in BOOLEAN : Decode(late)
linkNext == Arrive \/ Spoil \/ Loop

linkSpec == linkInit /\ [][linkNext]_linkVars
(* The task of the link is called again and again. *)
linkFairSpec == linkSpec /\ WF_linkVars(Loop)
-----------------------------------------------------------------------------
(* Properties *)

(* The ring gives back what the interrupt put in, in order, whatever the   *)
(* interrupt does between the copy and the index of a pull.                *)
FifoIsArrived ==
    LET n == kfifo_get_data_len(fifo)
        from == Len(arrived) - n
    IN  /\ Peek(fifo, n) = SubSeq(arrived, from + 1, Len(arrived))
        /\ recv = SubSeq(arrived, from + 1, from + Len(recv))

(* Feeding input again hands no frame over twice, and none out of order.   *)
HandledOnce == \A i, j \in DOMAIN handled : i < j => handled[i] < handled[j]

(* A frame that reached the ring undamaged, and fits the line buffer.      *)
StartsAt(f, i) ==
    i + length[f] - 1 <= Len(arrived) /\ SubSeq(arrived, i, i + length[f] - 1) = Units(f)
Sound(f) == length[f] <= LbSize /\ \E i \in DOMAIN arrived : StartsAt(f, i)

(* A frame that begins where the header of a damaged one, or of one that   *)
(* is too long, still announces units.  It may be lost: when the wait for  *)
(* the damaged frame has lasted several calls, data_index goes back too    *)
(* far.                                                                    *)
Shadowed(f) ==
    \E i, j \in DOMAIN arrived :
        /\ arrived[i] = <<f, 1>>
        /\ j < i /\ check_header(arrived[j])
        /\ ~Sound(arrived[j][1])
        /\ i < j + get_pack_len(arrived[j])

(* The receiver finds its way back: every undamaged frame behind that      *)
(* reach, and that did not itself take longer than the time it is given,   *)
(* is handled.                                                             *)
IsHandled(f) == \E i \in DOMAIN handled : handled[i] = f
FramesArrive ==
    \A f \in Ours : Sound(f) /\ ~Shadowed(f) ~> IsHandled(f) \/ f \in outwaited
=============================================================================

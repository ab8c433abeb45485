------------------------------- MODULE BkFifo -------------------------------
(* The message ring bkfifo.c: max_msg_num slots, an enqueue and a dequeue   *)
(* index.  One side enqueues and the other dequeues, without a lock, so an  *)
(* enqueue is given in the two steps an interrupt can come between.         *)
EXTENDS Integers

CONSTANTS
    MaxMsgNum,      \* slots of the ring
    NoMsg           \* what a slot, or memory beyond the ring, may hold

ASSUME RingAssumption == MaxMsgNum \in Nat \ {0, 1}

(* bkfifo_en's correction may leave de_index one past the last slot.        *)
Fifo(msgs) == [buf : [0..(MaxMsgNum - 1) -> msgs \cup {NoMsg}],
               en : 0..(MaxMsgNum - 1), de : 0..MaxMsgNum]

EmptyFifo == [buf |-> [i \in 0..(MaxMsgNum - 1) |-> NoMsg], en |-> 0, de |-> 0]

bkfifo_is_empty(f) == f.en = f.de

(* Mutant: the ring is full with a message in every slot. *)
bkfifo_is_full_late(f) ==
    (IF f.en < f.de THEN f.en + MaxMsgNum - f.de ELSE f.en - f.de) = MaxMsgNum

bkfifo_is_full(f) ==
    (IF f.en < f.de THEN f.en + MaxMsgNum - f.de ELSE f.en - f.de)
        = MaxMsgNum - 1

(* bkfifo_en: the message is stored and en_index moves on ...               *)
bkfifo_en_store(f, msg) ==
    [f EXCEPT !.buf[f.en] = msg, !.en = (@ + 1) % MaxMsgNum]

(* ... then equal indices are taken for an overrun of the oldest message.   *)
bkfifo_en_overrun(f) == IF f.en = f.de THEN [f EXCEPT !.de = @ + 1] ELSE f

(* bkfifo_de: what is read, and the ring after it.                          *)
bkfifo_de_read(f) == IF f.de < MaxMsgNum THEN f.buf[f.de] ELSE NoMsg

(* Mutant: the dequeue index does not wrap. *)
bkfifo_de_step_unwrapped(f) == [f EXCEPT !.de = @ + 1]

bkfifo_de_step(f) == [f EXCEPT !.de = (@ + 1) % MaxMsgNum]
=============================================================================

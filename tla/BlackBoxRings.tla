--------------------------- MODULE BlackBoxRings ---------------------------
(* The RAM of the black box (BBOX_PARAM_T of xf_bbox.c): samples wait in   *)
(* two rings in one buffer, the head ring in front of the tail ring, until *)
(* they are saved.  A sample is known by its number.  The operators return *)
(* the rings after an operation, or the samples it saves.                  *)
EXTENDS Integers, Sequences

Rings(head_cnt, tail_cnt, Sample) ==
    [buf : [0..(head_cnt + tail_cnt - 1) -> Sample],
     head_read_index : 0..(head_cnt - 1), head_read_cnt : 0..head_cnt,
     tail_read_index : 0..(tail_cnt - 1), tail_read_cnt : 0..tail_cnt,
     read_tail : {0, 1}, read_finish : {0, 1}]

EmptyRings(head_cnt, tail_cnt) ==
    [buf |-> [i \in 0..(head_cnt + tail_cnt - 1) |-> 0],
     head_read_index |-> 0, head_read_cnt |-> 0,
     tail_read_index |-> 0, tail_read_cnt |-> 0,
     read_tail |-> 0, read_finish |-> 0]

(* Mutant: the count goes on when the ring is full. *)
UpToNothing(n, limit) == n + 1
UpTo(n, limit) == IF n < limit THEN n + 1 ELSE n

record_head_data_get(p, head_cnt, sample) ==
    [p EXCEPT !.buf[p.head_read_index] = sample,
              !.head_read_index = (@ + 1) % head_cnt,
              !.head_read_cnt = UpTo(@, head_cnt)]

record_tail_data_get(p, head_cnt, tail_cnt, sample) ==
    [p EXCEPT !.buf[head_cnt + p.tail_read_index] = sample,
              !.tail_read_index = (@ + 1) % tail_cnt,
              !.tail_read_cnt = UpTo(@, tail_cnt)]

(* The samples __bbox_head_data_save_recent and                            *)
(* __bbox_tail_data_save_recent save: the newest one, which stays in the   *)
(* ring while the count forgets the oldest.                                *)
HeadRecent(p, head_cnt) ==
    IF p.head_read_cnt = 0 THEN << >>
    ELSE <<p.buf[(p.head_read_index + head_cnt - 1) % head_cnt]>>
AfterHeadRecent(p) ==
    [p EXCEPT !.head_read_cnt = IF @ = 0 THEN 0 ELSE @ - 1]

TailRecent(p, head_cnt, tail_cnt) ==
    IF p.tail_read_cnt = 0 THEN << >>
    ELSE <<p.buf[head_cnt + ((p.tail_read_index + tail_cnt - 1) % tail_cnt)]>>
AfterTailRecent(p) ==
    [p EXCEPT !.tail_read_cnt = IF @ = 0 THEN 0 ELSE @ - 1,
              !.read_tail = IF p.tail_read_cnt = 1 THEN 0 ELSE @]

(* __bbox_data_save_all: both rings, oldest sample first, the tail only    *)
(* when it was being read.                                                 *)
(* Mutant: from the read index on, as if the ring were always full. *)
SavedFromIndex(p, head_cnt) ==
    [i \in 1..p.head_read_cnt |-> p.buf[(p.head_read_index + i - 1) % head_cnt]]
SavedHead(p, head_cnt) ==
    LET first == p.head_read_index + head_cnt - p.head_read_cnt
    IN [i \in 1..p.head_read_cnt |-> p.buf[(first + i - 1) % head_cnt]]
SavedTail(p, head_cnt, tail_cnt) ==
    LET first == p.tail_read_index + tail_cnt - p.tail_read_cnt
    IN IF p.read_tail = 0 THEN << >>
       ELSE [i \in 1..p.tail_read_cnt |->
                p.buf[head_cnt + ((first + i - 1) % tail_cnt)]]
(* Mutant: what was saved still counts as waiting. *)
StillWaiting(p) ==
    [p EXCEPT !.tail_read_cnt = IF p.read_tail = 1 THEN 0 ELSE @,
              !.read_tail = 0]
AfterSaveAll(p) ==
    [p EXCEPT !.head_read_cnt = 0,
              !.tail_read_cnt = IF p.read_tail = 1 THEN 0 ELSE @,
              !.read_tail = 0]
=============================================================================

------------------------------- MODULE LogPush -------------------------------
(* Log items on their way to a host (x_log.c), as an item of a push group  *)
(* (ProtocolPush): real_x_log_add saves an item and counts it as not yet   *)
(* pushed, the push callback sends the oldest of those in batches, and the *)
(* host's acknowledgement takes them off the count.  Frames and            *)
(* acknowledgements are lost, delayed and reordered, saving may fail, the  *)
(* board restarts.                                                         *)
EXTENDS ProtocolPush, FiniteSets

CONSTANTS
    x_log_mod_push_cmd,     \* the item of the group that pushes the log
    max_log_num,
    BatchLen,       \* log items a frame has room for
    IndexMod,       \* values of push_index
    Intervals,      \* the program sets
    MaxLogs, MaxNotSaved,   \* bounds: items added; not saved
    MaxLost,        \* bound: frames and acknowledgements lost
    MaxUnderWay,    \* bound: frames and acknowledgements on the link
    MaxCalls        \* bound: calls and restarts

ASSUME LogsAreBounded ==
    /\ x_log_mod_push_cmd \in Items
    /\ {max_log_num, BatchLen, IndexMod} \subseteq Nat \ {0}
    /\ {MaxLogs, MaxNotSaved, MaxLost, MaxUnderWay, MaxCalls} \subseteq Nat
    /\ Intervals \subseteq 0..MaxTime

VARIABLES
    group,
    push_index, cur_seq,
    stored,         \* items in flash, numbered from the oldest
    frames, acks,   \* on the link
    got,            \* items the host has
    not_saved, overrun,     \* items not saved; added to a full log
    lost_cnt, calls

logVars == <<group, push_index, cur_seq, stored, frames, acks, got, not_saved,
             overrun, lost_cnt, calls>>
link == <<frames, acks, got, lost_cnt>>

logInit ==
    /\ group = protocol_push_init /\ push_index = 0 /\ cur_seq = 0
    /\ stored = 0 /\ frames = {} /\ acks = {} /\ got = {}
    /\ not_saved = 0 /\ overrun = 0 /\ lost_cnt = 0 /\ calls = 0
-----------------------------------------------------------------------------
(* What the host does not have; and an item is added while the log holds   *)
(* max_log_num items already, all waiting or some not with the host yet.   *)
Missing == {n \in 1..stored : n \notin got}
Full == stored >= max_log_num /\ (push_index = max_log_num \/ Missing # {})

(* real_x_log_add: the result of saving is not looked at. *)
Add(saved) ==
    /\ stored + not_saved < MaxLogs
    /\ saved \/ not_saved < MaxNotSaved
    /\ stored' = IF saved THEN stored + 1 ELSE stored
    /\ not_saved' = IF saved THEN not_saved ELSE not_saved + 1
    /\ push_index' = IF push_index < max_log_num THEN (push_index + 1) % IndexMod
                     ELSE push_index
    /\ overrun' = IF saved /\ Full THEN overrun + 1 ELSE overrun
    /\ UNCHANGED <<group, cur_seq, link, calls>>

(* real_x_log_read: index 0 is the newest item, and what is too old ends   *)
(* the reading. *)
real_x_log_read(index, num) ==
    {n \in 1..stored : stored - n \in index..(index + num - 1)}

(* The batch for a count, and the count itself: what has no items is       *)
(* passed over.                                                            *)
Batch(q) == LET num == IF q < BatchLen THEN q ELSE BatchLen
            IN real_x_log_read(q - num, num)
Counted(from) ==
    LET f[q \in 0..from] == IF q = 0 \/ Batch(q) # {} THEN q
                            ELSE f[IF q < BatchLen THEN 0 ELSE q - BatchLen]
    IN f[from]

(* x_log_mod_push_cmd; "out" when the frame gets as far as the link. *)
PushLog(g, out) ==
    LET is_first == g.item[x_log_mod_push_cmd].is_first
        q == Counted(IF is_first THEN max_log_num % IndexMod ELSE push_index)
        sent == q # 0 /\ out
    IN /\ Cardinality(frames) + Cardinality(acks) < MaxUnderWay
       /\ push_index' = q
       /\ out \/ (q # 0 /\ lost_cnt < MaxLost)
       /\ frames' = IF sent THEN frames \union {[seq |-> cur_seq, items |-> Batch(q)]}
                    ELSE frames
       /\ lost_cnt' = IF out THEN lost_cnt ELSE lost_cnt + 1
       /\ group' = ItemPushed(g, x_log_mod_push_cmd, sent)

(* protocol_push_task; the other items always have something to send. *)
PushTask(out) ==
    LET g == OneLater(group)
        i == Chosen(g)
    IN /\ IF Ready(g) /\ i = x_log_mod_push_cmd THEN PushLog(g, out)
          ELSE /\ out /\ UNCHANGED <<push_index, frames, lost_cnt>>
               /\ group' = IF Ready(g) THEN ItemPushed(g, i, i # NoItem) ELSE g
       /\ UNCHANGED <<cur_seq, stored, acks, got, not_saved, overrun, calls>>

(* The host: every frame is acknowledged. *)
HostReceives(f) ==
    /\ f \in frames
    /\ frames' = frames \ {f}
    /\ got' = got \union f.items
    /\ acks' = acks \union {[seq |-> f.seq, num |-> Cardinality(f.items)]}
    /\ UNCHANGED <<group, push_index, cur_seq, stored, not_saved, overrun,
                   lost_cnt, calls>>

(* Mutant: the number of an acknowledgement is not compared. *)
AnyAck(ack) ==
    /\ push_index' = IF push_index >= ack.num THEN push_index - ack.num ELSE 0
    /\ cur_seq' = cur_seq + 1

(* x_log_mod_push_ack *)
Acked(ack) ==
    IF ack.seq # cur_seq THEN UNCHANGED <<push_index, cur_seq>>
    ELSE /\ push_index' = IF push_index >= ack.num THEN push_index - ack.num ELSE 0
         /\ cur_seq' = cur_seq + 1

x_log_mod_push_ack(ack) ==
    /\ ack \in acks
    /\ acks' = acks \ {ack}
    /\ Acked(ack)
    /\ UNCHANGED <<group, stored, frames, got, not_saved, overrun, lost_cnt, calls>>

LinkLoses ==
    /\ lost_cnt < MaxLost
    /\ lost_cnt' = lost_cnt + 1
    /\ \/ \E f \in frames : frames' = frames \ {f} /\ UNCHANGED acks
       \/ \E a \in acks : acks' = acks \ {a} /\ UNCHANGED frames
    /\ UNCHANGED <<group, push_index, cur_seq, stored, got, not_saved, overrun, calls>>

Call ==
    /\ calls < MaxCalls
    /\ calls' = calls + 1
    /\ group' \in Called(group, Intervals)
    /\ UNCHANGED <<push_index, cur_seq, stored, link, not_saved, overrun>>

(* What was on the link is gone by the time the board runs again: numbers  *)
(* of acknowledgements start from 0 and could not tell old from new. *)
Restart ==
    /\ calls < MaxCalls
    /\ calls' = calls + 1
    /\ group' = protocol_push_init /\ push_index' = 0 /\ cur_seq' = 0
    /\ frames' = {} /\ acks' = {}
    /\ UNCHANGED <<stored, got, lost_cnt, not_saved, overrun>>

FrameArrives == \E f \in frames : HostReceives(f)
AckArrives == \E a \in acks : x_log_mod_push_ack(a)

logNext ==
    \/ \E yes \in BOOLEAN : Add(yes) \/ PushTask(yes)
    \/ FrameArrives \/ AckArrives \/ LinkLoses \/ Call \/ Restart

(* The task runs, and what the link does not lose arrives. *)
logFairness ==
    /\ WF_logVars(PushTask(TRUE))
    /\ WF_logVars(FrameArrives) /\ WF_logVars(AckArrives)
logSpec == logInit /\ [][logNext]_logVars /\ logFairness
-----------------------------------------------------------------------------
logTypeOK ==
    /\ group \in Group
    /\ push_index \in 0..max_log_num /\ push_index < IndexMod
    /\ cur_seq \in Nat
    /\ stored \in 0..MaxLogs /\ got \subseteq 1..stored
    /\ frames \subseteq [seq : Nat, items : SUBSET (1..stored)]
    /\ acks \subseteq [seq : Nat, num : 1..BatchLen]
    /\ not_saved \in 0..MaxNotSaved /\ overrun \in 0..MaxLogs
    /\ lost_cnt \in 0..MaxLost /\ calls \in 0..MaxCalls

(* Whatever the link loses and delays, the program stops and starts, and   *)
(* however often the board restarts: while the log is pushed, at last      *)
(* nothing is left to push, and the host has every item that was saved but *)
(* at most one for each that was added to a full log it lacked some of.    *)
LogOn == group.push_mark /\ group.item[x_log_mod_push_cmd].push_mark
AllLogsReach ==
    <>[]LogOn => <>[](push_index = 0 /\ Cardinality(Missing) <= overrun)
=============================================================================

---------------------------- MODULE ProtocolPush ----------------------------
(* A group of items that are pushed to one destination of one link         *)
(* (protocol_push.c): every millisecond a group whose last data are out    *)
(* pushes the first of its items, by priority, whose interval has passed.  *)
(* "g" is a group, "p" the state of one of its items; ages are counted in  *)
(* milliseconds, up to MaxTime.                                            *)
EXTENDS Integers, SequencesExt

CONSTANTS
    Items,          \* by registration; their callbacks are elsewhere
    Priority, def_interval,     \* functions on Items
    force_mark,     \* items that cannot be stopped
    SendTime,       \* what data of an item take at the group's rate
    MaxTime,        \* bound: ages of timers
    NoItem

ASSUME ItemsAreOrdered ==
    /\ IsFiniteSet(Items) /\ NoItem \notin Items
    /\ Priority \in [Items -> Nat]
    /\ \A i, j \in Items : Priority[i] = Priority[j] => i = j
    /\ force_mark \subseteq Items
    /\ MaxTime \in Nat /\ SendTime \in 0..MaxTime
    /\ def_interval \in [Items -> 0..MaxTime]

Group == [push_mark : BOOLEAN, next_time : {0, SendTime}, age : 0..MaxTime,
          item : [Items -> [push_mark : BOOLEAN, is_first : BOOLEAN,
                            push_interval : 0..MaxTime, age : 0..MaxTime]]]

(* push_item_head_init *)
item_list == SetToSortSeq(Items, LAMBDA i, j : Priority[i] < Priority[j])

FirstPush(p) == [p EXCEPT !.push_mark = TRUE, !.is_first = TRUE]
DefaultInterval(g) ==
    [g EXCEPT !.item = [i \in Items |->
        [@[i] EXCEPT !.push_interval = def_interval[i]]]]

protocol_push_init ==
    [push_mark |-> TRUE, next_time |-> 0, age |-> 0,
     item |-> [i \in Items |->
        [push_mark |-> TRUE, is_first |-> TRUE,
         push_interval |-> def_interval[i], age |-> 0]]]
-----------------------------------------------------------------------------
(* protocol_push_task: a millisecond has passed; what is pushed; and the   *)
(* group once that is done, "sent" when the callback sent anything.        *)
Older(t) == IF t < MaxTime THEN t + 1 ELSE t
OneLater(g) ==
    [g EXCEPT !.age = Older(@),
              !.item = [i \in Items |-> [@[i] EXCEPT !.age = Older(@)]]]

Chosen(g) ==
    LET due == SelectSeq(item_list,
                 LAMBDA i : g.item[i].push_mark
                              /\ g.item[i].age >= g.item[i].push_interval)
    IN IF due = << >> THEN NoItem ELSE due[1]

Ready(g) == g.push_mark /\ g.age >= g.next_time

ItemPushed(g, i, sent) ==
    [g EXCEPT !.next_time = IF sent THEN SendTime ELSE 0, !.age = 0,
              !.item = [j \in Items |->
                 IF j = i THEN [@[j] EXCEPT !.age = 0, !.is_first = FALSE]
                 ELSE @[j]]]
-----------------------------------------------------------------------------
(* The calls by which a group or its items are stopped and started. *)
OnItems(g, items, Op(_)) ==
    [g EXCEPT !.item = [i \in Items |-> IF i \in items THEN Op(@[i]) ELSE @[i]]]

protocol_stop_group_push(g)  == [g EXCEPT !.push_mark = FALSE]
protocol_start_group_push(g) == [g EXCEPT !.push_mark = TRUE]
protocol_reset_group_push(g) ==
    protocol_start_group_push(DefaultInterval(OnItems(g, Items, FirstPush)))

(* One item, or all: those that are forced stay as they are. *)
protocol_stop_push(g, items) ==
    OnItems(g, items \ force_mark, LAMBDA p : [p EXCEPT !.push_mark = FALSE])
protocol_start_push(g, items) ==
    OnItems(g, items \ force_mark,
            LAMBDA p : IF p.push_mark THEN p ELSE FirstPush(p))
protocol_reset_all_item_push(g) == OnItems(g, Items \ force_mark, FirstPush)
protocol_reset_item_push(g, i) ==
    IF i \in force_mark THEN g
    ELSE LET h == OnItems(g, {i}, FirstPush)
         IN [h EXCEPT !.item[i].push_interval = def_interval[i]]
protocol_set_item_push_interval(g, i, ms) ==
    [g EXCEPT !.item[i].push_interval = ms]

(* What any one of these calls may make of a group. *)
Called(g, intervals) ==
    {protocol_stop_group_push(g), protocol_start_group_push(g),
     protocol_reset_group_push(g), protocol_reset_all_item_push(g)}
    \union {protocol_stop_push(g, s) : s \in {Items} \union {{i} : i \in Items}}
    \union {protocol_start_push(g, s) : s \in {Items} \union {{i} : i \in Items}}
    \union {protocol_reset_item_push(g, i) : i \in Items}
    \union {protocol_set_item_push_interval(g, i, ms) : i \in Items, ms \in intervals}
=============================================================================

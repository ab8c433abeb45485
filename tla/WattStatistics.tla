--------------------------- MODULE WattStatistics ---------------------------
(* Energy statistics (watth_statistics.c).  For each type of energy what   *)
(* was used today is counted in RAM; at midnight, one type at each call of *)
(* the task, it is saved under its day of the week.  Days are pushed to a  *)
(* host one type after another, each until it is acknowledged: today's in  *)
(* intervals, those of the week when their mark says so.  Frames and       *)
(* acknowledgements are lost and late, the board loses power.  An amount   *)
(* of energy is told from another by its type and its day.                 *)
EXTENDS Integers, FiniteSetsExt, Sequences

CONSTANTS
    TypeCnt,        \* types of energy
    Week,           \* days of a week
    PushPause,      \* calls between two rounds once everything was pushed
    SeqNumbers,         \* values of seq
    NoDay,
    LinkRoom,               \* bound: acknowledgements under way
    MaxDay, MaxRestarts     \* bounds: days, power failures

ASSUME StatisticsAreBounded ==
    /\ {TypeCnt, Week, PushPause} \subseteq Nat \ {0}
    /\ {MaxDay, MaxRestarts} \subseteq Nat
    /\ LinkRoom \in Nat \ {0} /\ SeqNumbers \in Nat \ {0, 1} /\ NoDay \notin Nat

EnergyTypes == 1..TypeCnt       \* in the order of ws_obj.head
ListHead == TypeCnt + 1         \* where cur_list is after the last of them
Days == 0..MaxDay
Slots == 0..(Week - 1)
SlotOf(day) == day % Week

VARIABLES
    unix_date,              \* as of the last call of the task
    ws_items, last_exe,
    week_items,             \* in flash: the day in each slot
    ws_push,                \* watth_statistics_push_run_t of the host
    ws_acks,                \* acknowledgements on the link
    heard,                  \* amounts the host has been told of since the
                            \* list last went back to its start
    day_moved,              \* since then, with an amount told: has a day
                            \* ended, or was the push started again?
    power_fails

wsVars == <<unix_date, ws_items, last_exe, week_items, ws_push, ws_acks, heard,
            day_moved, power_fails>>

NotInitialized == [t \in EnergyTypes |-> [is_history_init |-> FALSE, day |-> 0]]
NotPushed ==
    [cur_list |-> 1, week_mark |-> [w \in Slots |-> FALSE], flg |-> FALSE,
     next_push_decrase |-> 0, seq |-> 0, is_first |-> TRUE]

wsInit ==
    /\ unix_date = 0 /\ ws_items = NotInitialized /\ last_exe = TypeCnt
    /\ week_items = [t \in EnergyTypes |-> [w \in Slots |-> NoDay]]
    /\ ws_push = NotPushed /\ ws_acks = << >> /\ heard = {} /\ day_moved = FALSE
    /\ power_fails = 0
-----------------------------------------------------------------------------
SavedToday(types) ==
    [t \in EnergyTypes |->
        IF t \in types THEN [week_items[t] EXCEPT ![SlotOf(ws_items[t].day)] = ws_items[t].day]
        ELSE week_items[t]]

(* The day of the type is over: it is saved, and to be pushed again. *)
load_watth_updata(t) ==
    /\ week_items' = SavedToday({t})
    /\ ws_push' = [ws_push EXCEPT !.week_mark[SlotOf(ws_items[t].day)] = FALSE]

(* watth_statistics_task, for the next type in turn: history_init on its   *)
(* first call, load_watth_updata on the first of a day.                    *)
StatisticsTask(today) ==
    LET t == IF last_exe = TypeCnt THEN 1 ELSE last_exe + 1
        DayOver == ws_items[t].is_history_init /\ ws_items[t].day # today
    IN /\ unix_date' = today /\ last_exe' = t
       /\ ws_items' = [ws_items EXCEPT ![t] = [is_history_init |-> TRUE, day |-> today]]
       /\ \/ DayOver /\ load_watth_updata(t)
          \/ ~DayOver /\ UNCHANGED <<week_items, ws_push>>
       /\ day_moved' = (day_moved \/ (heard # {} /\ (DayOver \/ today # unix_date)))
       /\ UNCHANGED <<ws_acks, heard, power_fails>>

(* real_watth_statistics_save_all_watth *)
SaveAllTypes ==
    /\ week_items' = SavedToday({t \in EnergyTypes : ws_items[t].is_history_init})
    /\ UNCHANGED <<unix_date, ws_items, last_exe, ws_push, ws_acks, heard, day_moved, power_fails>>
-----------------------------------------------------------------------------
(* get_push_day: the first day without a mark, from today on; and how long *)
(* to wait when there is none. *)
Unmarked(p) == {n \in Slots : ~p.week_mark[SlotOf(unix_date + n)]}
PushDay(p) == SlotOf(unix_date + (IF Unmarked(p) = {} THEN 0 ELSE Min(Unmarked(p))))
Paused(p) ==
    [p EXCEPT !.next_push_decrase = IF Unmarked(p) = {} THEN PushPause ELSE 0]

(* The start of x_watth_statistics_push_cmd, up to its waiting: the first  *)
(* call keeps flg and seq. *)
Woken(p) ==
    LET q == IF p.is_first
             THEN [NotPushed EXCEPT !.flg = p.flg, !.seq = p.seq, !.is_first = FALSE]
             ELSE p
    IN [q EXCEPT !.next_push_decrase = IF q.flg \/ @ = 0 THEN 0 ELSE @ - 1]

(* At the end of the list its day is done, and the next one begins. *)
ListEnds(p) ==
    IF p.cur_list = ListHead
    THEN Paused([Paused(p) EXCEPT !.cur_list = 1, !.week_mark[PushDay(p)] = TRUE])
    ELSE Paused(p)

(* Today's is in RAM, that of another day in flash. *)
HasData(t, slot) ==
    IF slot = SlotOf(unix_date) THEN ws_items[t].is_history_init
    ELSE week_items[t][slot] # NoDay

(* The host acknowledges whatever gets to it. *)
FrameSent(p, out) ==
    /\ ws_push' = [p EXCEPT !.flg = TRUE]
    /\ ws_acks' = IF out THEN Append(ws_acks, [seq |-> p.seq, type |-> p.cur_list]) ELSE ws_acks

(* Nothing under that day for a type: the day is taken for done. *)
NothingToSend(p, slot) ==
    /\ ws_push' = [p EXCEPT !.week_mark[slot] = TRUE, !.cur_list = 1]
    /\ UNCHANGED ws_acks

(* What a type used on a day: so far, or in all of it. *)
Amount(t, slot) == [type |-> t, slot |-> slot, over |-> slot # SlotOf(unix_date)]
(* The list goes on at "cur_list", and the host gets to know the amounts   *)
(* "told". *)
Hears(cur_list, told) ==
    LET back == cur_list < ws_push.cur_list
    IN /\ heard' = (IF back THEN {} ELSE heard) \union told
       /\ day_moved' = (~back /\ (day_moved \/ (ws_push.is_first /\ heard # {})))

(* x_watth_statistics_push_cmd; "out": the frame gets to the host. *)
PushDays(out) ==
    LET woken == Woken(ws_push)
        p == ListEnds(woken)
        slot == PushDay(p)
    IN /\ Len(ws_acks) < LinkRoom
       /\ \/ /\ woken.next_push_decrase # 0
             /\ ws_push' = woken /\ Hears(woken.cur_list, {}) /\ UNCHANGED ws_acks
          \/ /\ woken.next_push_decrase = 0 /\ ~HasData(p.cur_list, slot)
             /\ NothingToSend(p, slot) /\ Hears(1, {})
          \/ /\ woken.next_push_decrase = 0 /\ HasData(p.cur_list, slot)
             /\ FrameSent(p, out)
             /\ Hears(p.cur_list, IF out THEN {Amount(p.cur_list, slot)} ELSE {})
       /\ UNCHANGED <<unix_date, ws_items, last_exe, week_items, power_fails>>

(* The push group is started again, see ProtocolPush. *)
PushStartsAgain ==
    /\ ws_push' = [ws_push EXCEPT !.is_first = TRUE]
    /\ UNCHANGED <<unix_date, ws_items, last_exe, week_items, ws_acks, heard, day_moved, power_fails>>

(* Mutant: an acknowledgement with any number is taken. *)
AnyNumberAcked(p, ack) ==
    IF ack.type = p.cur_list
    THEN [p EXCEPT !.seq = (@ + 1) % SeqNumbers, !.cur_list = @ + 1, !.flg = FALSE]
    ELSE p

(* What x_watth_statistics_push_ack makes of the push. *)
DayAcked(p, ack) ==
    IF ack.seq = p.seq /\ ack.type = p.cur_list
    THEN [p EXCEPT !.seq = (@ + 1) % SeqNumbers, !.cur_list = @ + 1, !.flg = FALSE]
    ELSE p

x_watth_statistics_push_ack ==
    /\ ws_acks # << >>
    /\ ws_push' = DayAcked(ws_push, Head(ws_acks)) /\ ws_acks' = Tail(ws_acks)
    /\ UNCHANGED <<unix_date, ws_items, last_exe, week_items, heard, day_moved, power_fails>>

WsAckLost ==
    /\ ws_acks # << >> /\ ws_acks' = Tail(ws_acks)
    /\ UNCHANGED <<unix_date, ws_items, last_exe, week_items, ws_push, heard, day_moved, power_fails>>

(* Power fails; when it is back, it may be another day, and nothing of     *)
(* before is still on the link.  The task runs before the first push,      *)
(* whose interval is a second. *)
WsRestart(today) ==
    /\ power_fails < MaxRestarts /\ power_fails' = power_fails + 1
    /\ unix_date' = today /\ ws_items' = NotInitialized /\ last_exe' = TypeCnt
    /\ ws_push' = NotPushed /\ ws_acks' = << >> /\ heard' = {} /\ day_moved' = FALSE
    /\ UNCHANGED week_items

Todays == {unix_date, unix_date + 1} \intersect Days
wsNext ==
    \/ \E today \in Todays : WsRestart(today) \/ StatisticsTask(today)
    \/ \E out \in BOOLEAN : PushDays(out)
    \/ SaveAllTypes \/ PushStartsAgain \/ x_watth_statistics_push_ack \/ WsAckLost

wsSpec == wsInit /\ [][wsNext]_wsVars
-----------------------------------------------------------------------------
Amounts == [type : EnergyTypes, slot : Slots, over : BOOLEAN]
wsTypeOK ==
    /\ unix_date \in Days /\ last_exe \in EnergyTypes
    /\ ws_items \in [EnergyTypes -> [is_history_init : BOOLEAN, day : Days]]
    /\ week_items \in [EnergyTypes -> [Slots -> Days \union {NoDay}]]
    /\ \A t \in EnergyTypes, w \in Slots :
          week_items[t][w] # NoDay => SlotOf(week_items[t][w]) = w
    /\ ws_push \in [cur_list : 1..ListHead, week_mark : [Slots -> BOOLEAN],
                    flg : BOOLEAN, next_push_decrase : 0..PushPause,
                    seq : 0..(SeqNumbers - 1), is_first : BOOLEAN]
    /\ ws_acks \in Seq([seq : 0..(SeqNumbers - 1), type : EnergyTypes])
    /\ heard \subseteq Amounts /\ day_moved \in BOOLEAN /\ power_fails \in 0..MaxRestarts

(* Every type the list has passed was received by the host since the list  *)
(* was last at its start, whatever frames and acknowledgements were lost,  *)
(* sent twice or late; and what was received is the amount of the day that *)
(* x_watth_statistics_push_cmd marks as pushed at the end of the list,     *)
(* unless a day ended on the way or the push was started again:            *)
(* get_push_day is asked anew at every call.                               *)
HeardOf(t) ==
    /\ \E a \in heard : a.type = t
    /\ ~day_moved => Amount(t, PushDay(ws_push)) \in heard
PassedIsHeard == \A t \in EnergyTypes : t < ws_push.cur_list => HeardOf(t)
=============================================================================

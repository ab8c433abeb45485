------------------------ MODULE WattStatisticsProofs ------------------------
(* What the push of energy days keeps, for any number of types and days,   *)
(* any length of the week and any range of sequence numbers.               *)
EXTENDS WattStatistics, Arithmetic, TLAPS

Pushes ==
    [cur_list : 1..ListHead, week_mark : [Slots -> BOOLEAN], flg : BOOLEAN,
     next_push_decrase : 0..PushPause, seq : 0..(SeqNumbers - 1), is_first : BOOLEAN]
Acks == [seq : 0..(SeqNumbers - 1), type : EnergyTypes]

LEMMA WsSizes ==
    /\ TypeCnt \in Nat /\ TypeCnt > 0 /\ Week \in Nat /\ Week > 0
    /\ Week \in Nat \ {0} /\ SeqNumbers \in Nat \ {0}
    /\ PushPause \in Nat /\ PushPause > 0
    /\ SeqNumbers \in Nat /\ SeqNumbers > 1
    /\ MaxDay \in Nat /\ MaxRestarts \in Nat /\ NoDay \notin Nat
BY StatisticsAreBounded

LEMMA SlotsOfDays == \A d \in Nat : SlotOf(d) \in Slots
BY WsSizes, DivMod DEF SlotOf, Slots

(* The number after a number is another one: there are at least two. *)
LEMMA NextNumber ==
    ASSUME NEW s \in 0..(SeqNumbers - 1)
    PROVE  (s + 1) % SeqNumbers \in 0..(SeqNumbers - 1) \ {s}
<1>1. (s + 1) % SeqNumbers \in 0..(SeqNumbers - 1)
  BY WsSizes, DivMod
<1>2. s % SeqNumbers = s
  BY WsSizes, ModSmall
<1>3. s % SeqNumbers # (s + 1) % SeqNumbers
  <2>1. s \in Int /\ s + 1 \in Int /\ s < s + 1 /\ s + 1 < s + SeqNumbers
    BY WsSizes
  <2> QED BY <2>1, WsSizes, ModDistinct
<1> QED BY <1>1, <1>2, <1>3

(* From the first acknowledgement with the number that is waited for, all  *)
(* on the link have that number, none is for a type the list has passed,   *)
(* and one for the type it is at comes from a host that was told of it.    *)
AcksFit ==
    \A i \in 1..Len(ws_acks) : ws_acks[i].seq = ws_push.seq =>
       /\ \A j \in i..Len(ws_acks) : ws_acks[j].seq = ws_push.seq
       /\ ws_acks[i].type >= ws_push.cur_list
       /\ ws_acks[i].type = ws_push.cur_list => HeardOf(ws_acks[i].type)
(* What the host was told of can still be sent: the day is not taken for   *)
(* one with nothing under it. *)
HeardHasData == ~day_moved => \A a \in heard : HasData(a.type, a.slot)
WattInv == wsTypeOK /\ AcksFit /\ PassedIsHeard /\ HeardHasData
-----------------------------------------------------------------------------
(* The day to be pushed is a day of the week, the one that the marks and   *)
(* the date say. *)
LEMMA PushDayIs ==
    ASSUME unix_date \in Days, NEW p
    PROVE  /\ PushDay(p) \in Slots
           /\ \A q : q.week_mark = p.week_mark => PushDay(q) = PushDay(p)
<1>1. CASE Unmarked(p) = {}
  BY <1>1, SlotsOfDays, WsSizes DEF PushDay, Days, Unmarked
<1>2. CASE Unmarked(p) # {}
  <2>1. Unmarked(p) \in SUBSET Nat
    BY WsSizes DEF Unmarked, Slots
  <2>2. \E o \in Unmarked(p) : \A n \in Unmarked(p) : o <= n
    BY <1>2, <2>1, LeastNat
  <2>3. Min(Unmarked(p)) \in Unmarked(p)
    BY <2>2 DEF Min
  <2>4. unix_date + Min(Unmarked(p)) \in Nat
    BY <2>1, <2>3, WsSizes DEF Days
  <2> QED BY <1>2, <2>4, SlotsOfDays DEF PushDay, Unmarked
<1> QED BY <1>1, <1>2

(* A step that keeps the date and the marks, or after which the day may    *)
(* have moved. *)
LEMMA HeardStays ==
    ASSUME wsTypeOK, NEW t, HeardOf(t), heard \subseteq heard',
           \/ day_moved'
           \/ /\ day_moved' = day_moved /\ unix_date' = unix_date
              /\ ws_push'.week_mark = ws_push.week_mark
    PROVE  HeardOf(t)'
<1>1. CASE day_moved'
  BY <1>1 DEF HeardOf
<1>2. CASE /\ day_moved' = day_moved /\ unix_date' = unix_date
           /\ ws_push'.week_mark = ws_push.week_mark
  <2>1. PushDay(ws_push)' = PushDay(ws_push)
    BY <1>2 DEF PushDay, Unmarked
  <2> QED BY <1>2, <2>1 DEF HeardOf, Amount
<1> QED BY <1>1, <1>2
-----------------------------------------------------------------------------
(* Changes of a push keep its type. *)
LEMMA MarkTyped ==
    ASSUME NEW p \in Pushes, NEW slot, NEW mark \in BOOLEAN
    PROVE  LET q == [p EXCEPT !.week_mark[slot] = mark]
           IN q \in Pushes /\ q.cur_list = p.cur_list /\ q.seq = p.seq
<1> DEFINE marks == [p.week_mark EXCEPT ![slot] = mark]
<1>1. marks \in [Slots -> BOOLEAN]
  BY DEF Pushes
<1>2. [p EXCEPT !.week_mark[slot] = mark] = [p EXCEPT !.week_mark = marks]
  BY DEF Pushes
<1> HIDE DEF marks
<1>3. [p EXCEPT !.week_mark = marks] \in Pushes
  BY <1>1 DEF Pushes
<1> QED BY <1>2, <1>3 DEF Pushes

LEMMA ToStartTyped ==
    ASSUME NEW p \in Pushes
    PROVE  LET q == [p EXCEPT !.cur_list = 1]
           IN q \in Pushes /\ q.cur_list = 1 /\ q.seq = p.seq
BY WsSizes DEF Pushes, ListHead

LEMMA NotPushedTyped == NotPushed \in Pushes
BY WsSizes DEF NotPushed, Pushes, ListHead

LEMMA WattInit == wsInit => WattInv
<1> SUFFICES ASSUME wsInit PROVE WattInv
  OBVIOUS
<1>1. ws_push \in Pushes /\ ws_push.cur_list = 1 /\ Len(ws_acks) = 0
  BY NotPushedTyped DEF wsInit, NotPushed
<1>2. /\ unix_date \in Days /\ last_exe \in EnergyTypes
      /\ ws_items \in [EnergyTypes -> [is_history_init : BOOLEAN, day : Days]]
      /\ week_items \in [EnergyTypes -> [Slots -> Days \union {NoDay}]]
      /\ ws_acks \in Seq(Acks) /\ heard \subseteq Amounts /\ power_fails \in 0..MaxRestarts
  BY WsSizes DEF wsInit, NotInitialized, Days, EnergyTypes
<1>7. day_moved \in BOOLEAN
  BY DEF wsInit
<1>3. \A t \in EnergyTypes, w \in Slots : week_items[t][w] = NoDay
  BY DEF wsInit
<1>4. wsTypeOK
  BY <1>1, <1>2, <1>3, <1>7 DEF wsTypeOK, Pushes, Acks
<1>5. AcksFit /\ PassedIsHeard
  BY <1>1 DEF AcksFit, PassedIsHeard, EnergyTypes
<1>6. HeardHasData
  BY DEF wsInit, HeardHasData
<1> QED BY <1>4, <1>5, <1>6 DEF WattInv

(* A step that changes neither the link, nor where the list is, nor the    *)
(* number, nor what was heard. *)
LEMMA FitUnchanged ==
    ASSUME WattInv, UNCHANGED <<ws_acks, heard>>,
           ws_push'.cur_list = ws_push.cur_list, ws_push'.seq = ws_push.seq,
           \A t : HeardOf(t) => HeardOf(t)'
    PROVE  AcksFit' /\ PassedIsHeard'
BY DEF WattInv, AcksFit, PassedIsHeard
-----------------------------------------------------------------------------
(* What is saved stands in the slot of its day. *)
WeekTyped(week) ==
    /\ week \in [EnergyTypes -> [Slots -> Days \union {NoDay}]]
    /\ \A t \in EnergyTypes, w \in Slots : week[t][w] # NoDay => SlotOf(week[t][w]) = w

LEMMA SavedTyped ==
    ASSUME wsTypeOK, NEW types \in SUBSET EnergyTypes
    PROVE  WeekTyped(SavedToday(types))
<1> SUFFICES ASSUME NEW t \in EnergyTypes
             PROVE  /\ SavedToday(types)[t] \in [Slots -> Days \union {NoDay}]
                    /\ \A w \in Slots : SavedToday(types)[t][w] # NoDay
                                          => SlotOf(SavedToday(types)[t][w]) = w
  BY DEF WeekTyped, SavedToday
<1>1. ws_items[t].day \in Days /\ week_items[t] \in [Slots -> Days \union {NoDay}]
      /\ \A w \in Slots : week_items[t][w] # NoDay => SlotOf(week_items[t][w]) = w
  BY DEF wsTypeOK
<1>2. SavedToday(types)[t] =
         IF t \in types THEN [week_items[t] EXCEPT ![SlotOf(ws_items[t].day)] = ws_items[t].day]
         ELSE week_items[t]
  BY DEF SavedToday
<1> QED BY <1>1, <1>2

(* What was in flash under a day still is, perhaps renewed. *)
LEMMA SavedStays ==
    ASSUME wsTypeOK, NEW types \in SUBSET EnergyTypes,
           NEW t \in EnergyTypes, NEW w \in Slots, week_items[t][w] # NoDay
    PROVE  SavedToday(types)[t][w] # NoDay
<1>1. ws_items[t].day \in Nat /\ week_items[t] \in [Slots -> Days \union {NoDay}]
  BY WsSizes DEF wsTypeOK, Days
<1>2. SavedToday(types)[t] =
         IF t \in types THEN [week_items[t] EXCEPT ![SlotOf(ws_items[t].day)] = ws_items[t].day]
         ELSE week_items[t]
  BY DEF SavedToday
<1> QED BY <1>1, <1>2, WsSizes

LEMMA TaskKeeps ==
    ASSUME WattInv, NEW today \in Days, StatisticsTask(today)
    PROVE  WattInv'
<1> DEFINE t == IF last_exe = TypeCnt THEN 1 ELSE last_exe + 1
           moved == (ws_items[t].is_history_init /\ ws_items[t].day # today)
                      \/ today # unix_date
<1>0. wsTypeOK /\ t \in EnergyTypes
  BY WsSizes DEF WattInv, wsTypeOK, EnergyTypes
<1>1. /\ UNCHANGED <<ws_acks, heard, power_fails>>
      /\ unix_date' = today /\ last_exe' = t
      /\ ws_items' = [ws_items EXCEPT ![t] = [is_history_init |-> TRUE, day |-> today]]
      /\ \/ /\ week_items' = SavedToday({t})
            /\ ws_push' = [ws_push EXCEPT !.week_mark[SlotOf(ws_items[t].day)] = FALSE]
         \/ UNCHANGED <<week_items, ws_push>>
  BY DEF StatisticsTask, load_watth_updata
<1>8. /\ day_moved' = (day_moved \/ (heard # {} /\ moved))
      /\ moved \/ UNCHANGED <<unix_date, week_items, ws_push>>
  BY DEF StatisticsTask
<1> HIDE DEF t, moved
<1>2. WeekTyped(week_items')
  BY <1>0, <1>1, SavedTyped DEF WeekTyped, wsTypeOK
<1>3. /\ ws_push' \in Pushes
      /\ ws_push'.cur_list = ws_push.cur_list /\ ws_push'.seq = ws_push.seq
  <2>1. ws_push \in Pushes
    BY <1>0 DEF wsTypeOK, Pushes
  <2> DEFINE slot == SlotOf(ws_items[t].day)
             q == [ws_push EXCEPT !.week_mark[slot] = FALSE]
  <2>2. q \in Pushes /\ q.cur_list = ws_push.cur_list /\ q.seq = ws_push.seq
    BY <2>1, MarkTyped
  <2>3. ws_push' = q \/ ws_push' = ws_push
    BY <1>1
  <2> HIDE DEF q
  <2> QED BY <2>1, <2>2, <2>3
<1>4. ws_items' \in [EnergyTypes -> [is_history_init : BOOLEAN, day : Days]]
  BY <1>0, <1>1 DEF wsTypeOK
<1>5. wsTypeOK'
  BY <1>0, <1>1, <1>2, <1>3, <1>4, <1>8 DEF wsTypeOK, WeekTyped, Pushes
<1>6. ASSUME NEW u, HeardOf(u) PROVE HeardOf(u)'
  <2>1. heard # {}
    BY <1>6 DEF HeardOf
  <2>2. CASE moved
    BY <1>0, <1>1, <1>6, <1>8, <2>1, <2>2, HeardStays
  <2>3. CASE ~moved
    <3>1. day_moved' = day_moved
      BY <1>0, <1>8, <2>3 DEF wsTypeOK
    <3> QED BY <1>0, <1>1, <1>6, <1>8, <2>3, <3>1, HeardStays
  <2> QED BY <2>2, <2>3
<1>7. HeardHasData'
  <2> SUFFICES ASSUME ~day_moved', NEW a \in heard PROVE HasData(a.type, a.slot)'
    BY <1>1 DEF HeardHasData
  <2>1. ~day_moved /\ UNCHANGED <<unix_date, week_items>>
    BY <1>8
  <2>2. HasData(a.type, a.slot) /\ a.type \in EnergyTypes
    BY <1>0, <2>1 DEF WattInv, HeardHasData, wsTypeOK, Amounts
  <2>3. ws_items[a.type].is_history_init => ws_items'[a.type].is_history_init
    BY <1>0, <1>1, <2>2 DEF wsTypeOK
  <2> QED BY <2>1, <2>2, <2>3 DEF HasData
<1> QED BY <1>1, <1>3, <1>5, <1>6, <1>7, FitUnchanged DEF WattInv

LEMMA SaveAllKeeps == WattInv /\ SaveAllTypes => WattInv'
<1> SUFFICES ASSUME WattInv, SaveAllTypes PROVE WattInv'
  OBVIOUS
<1>1. WeekTyped(week_items')
  BY SavedTyped DEF WattInv, SaveAllTypes
<1>2. wsTypeOK'
  BY <1>1 DEF WattInv, SaveAllTypes, wsTypeOK, WeekTyped
<1>3. \A t : HeardOf(t) => HeardOf(t)'
  BY HeardStays DEF WattInv, SaveAllTypes
<1>4. HeardHasData'
  <2> SUFFICES ASSUME ~day_moved, NEW a \in heard PROVE HasData(a.type, a.slot)'
    BY DEF HeardHasData, SaveAllTypes
  <2>1. HasData(a.type, a.slot) /\ a.type \in EnergyTypes /\ a.slot \in Slots
    BY DEF WattInv, HeardHasData, wsTypeOK, Amounts
  <2>2. week_items[a.type][a.slot] # NoDay => week_items'[a.type][a.slot] # NoDay
    BY <2>1, SavedStays DEF WattInv, SaveAllTypes
  <2> QED BY <2>1, <2>2 DEF HasData, SaveAllTypes
<1> QED BY <1>2, <1>3, <1>4, FitUnchanged DEF WattInv, SaveAllTypes

LEMMA StartsAgainKeeps == WattInv /\ PushStartsAgain => WattInv'
<1> SUFFICES ASSUME WattInv, PushStartsAgain PROVE WattInv'
  OBVIOUS
<1>1. /\ ws_push \in Pushes /\ ws_push' \in Pushes
      /\ ws_push'.cur_list = ws_push.cur_list /\ ws_push'.seq = ws_push.seq
  BY DEF WattInv, wsTypeOK, PushStartsAgain, Pushes
<1>2. wsTypeOK'
  BY <1>1 DEF WattInv, PushStartsAgain, wsTypeOK, Pushes
<1>3. ws_push'.week_mark = ws_push.week_mark
  BY <1>1 DEF PushStartsAgain, Pushes
<1>4. \A t : HeardOf(t) => HeardOf(t)'
  BY <1>3, HeardStays DEF WattInv, PushStartsAgain
<1>5. HeardHasData'
  BY DEF WattInv, PushStartsAgain, HeardHasData, HasData
<1> QED BY <1>1, <1>2, <1>4, <1>5, FitUnchanged DEF WattInv, PushStartsAgain

LEMMA RestartKeeps ==
    ASSUME WattInv, NEW today \in Days, WsRestart(today)
    PROVE  WattInv'
<1>1. /\ ws_push' \in Pushes /\ ws_push'.cur_list = 1
      /\ ws_acks' = << >> /\ heard' = {} /\ ~day_moved' /\ UNCHANGED week_items
      /\ unix_date' = today /\ last_exe' = TypeCnt
      /\ power_fails' \in 0..MaxRestarts
      /\ ws_items' \in [EnergyTypes -> [is_history_init : BOOLEAN, day : Days]]
  BY NotPushedTyped, WsSizes
  DEF WsRestart, NotPushed, NotInitialized, WattInv, wsTypeOK, Days
<1>4. day_moved' \in BOOLEAN
  BY DEF WsRestart
<1>2. wsTypeOK'
  BY <1>1, <1>4, WsSizes DEF WattInv, wsTypeOK, Pushes, EnergyTypes, Acks
<1>3. AcksFit' /\ PassedIsHeard' /\ HeardHasData'
  BY <1>1 DEF AcksFit, PassedIsHeard, EnergyTypes, HeardHasData
<1> QED BY <1>2, <1>3 DEF WattInv
-----------------------------------------------------------------------------
LEMMA WokenTyped ==
    ASSUME NEW p \in Pushes
    PROVE  /\ Woken(p) \in Pushes /\ Woken(p).seq = p.seq
           /\ Woken(p).cur_list \in {p.cur_list, 1}
           /\ p.is_first \/ Woken(p).week_mark = p.week_mark
           /\ p.is_first => Woken(p).cur_list = 1
<1> DEFINE q == IF p.is_first
                THEN [NotPushed EXCEPT !.flg = p.flg, !.seq = p.seq, !.is_first = FALSE]
                ELSE p
<1>1. /\ q \in Pushes /\ q.seq = p.seq /\ q.cur_list \in {p.cur_list, 1}
      /\ p.is_first \/ q.week_mark = p.week_mark
      /\ p.is_first => q.cur_list = 1
  BY NotPushedTyped DEF NotPushed, Pushes
<1> DEFINE n == IF q.flg \/ q.next_push_decrase = 0 THEN 0 ELSE q.next_push_decrase - 1
<1>2. Woken(p) = [q EXCEPT !.next_push_decrase = n]
  BY DEF Woken
<1> HIDE DEF q
<1>3. n \in 0..PushPause
  BY <1>1, WsSizes DEF Pushes
<1> HIDE DEF n
<1> QED BY <1>1, <1>2, <1>3 DEF Pushes

LEMMA PausedTyped ==
    ASSUME NEW p \in Pushes
    PROVE  /\ Paused(p) \in Pushes
           /\ Paused(p).seq = p.seq /\ Paused(p).cur_list = p.cur_list
           /\ Paused(p).week_mark = p.week_mark
BY WsSizes DEF Paused, Pushes

(* Where a call of x_watth_statistics_push_cmd has the list: at the same   *)
(* type, at the start if that was the end, never at the end. *)
LEMMA ListEndsTyped ==
    ASSUME NEW p \in Pushes
    PROVE  /\ ListEnds(p) \in Pushes /\ ListEnds(p).seq = p.seq
           /\ ListEnds(p).cur_list \in {p.cur_list, 1} /\ ListEnds(p).cur_list # ListHead
           /\ p.cur_list # ListHead => ListEnds(p).week_mark = p.week_mark
<1>1. CASE p.cur_list = ListHead
  <2> DEFINE r == [Paused(p) EXCEPT !.cur_list = 1]
             q == [Paused(p) EXCEPT !.cur_list = 1, !.week_mark[PushDay(p)] = TRUE]
  <2>1. q \in Pushes /\ q.seq = p.seq /\ q.cur_list = 1
    <3>1. r \in Pushes /\ r.seq = p.seq /\ r.cur_list = 1
      BY PausedTyped, ToStartTyped
    <3>2. q = [r EXCEPT !.week_mark[PushDay(p)] = TRUE]
      BY DEF Pushes
    <3> HIDE DEF r, q
    <3> QED BY <3>1, <3>2, MarkTyped
  <2>2. ListEnds(p) = Paused(q)
    BY <1>1 DEF ListEnds
  <2> HIDE DEF q
  <2> QED BY <1>1, <2>1, <2>2, PausedTyped, WsSizes DEF ListHead
<1>2. CASE p.cur_list # ListHead
  BY <1>2, PausedTyped DEF ListEnds
<1> QED BY <1>1, <1>2

(* The list goes on where it is or back to its start, and the link gets an *)
(* acknowledgement of what the host is told, or nothing. *)
Goes(list, told) ==
    /\ list \in {ws_push.cur_list, 1} /\ list \in EnergyTypes
    /\ told = {} \/ \E slot \in Slots :
          /\ told = {Amount(list, slot)} /\ HasData(list, slot)
          /\ slot = PushDay(ws_push)'
    /\ ws_push' \in Pushes /\ ws_push'.cur_list = list /\ ws_push'.seq = ws_push.seq
    /\ Hears(list, told)
    /\ ws_acks' = IF told = {} THEN ws_acks
                  ELSE Append(ws_acks, [seq |-> ws_push.seq, type |-> list])
    /\ UNCHANGED <<unix_date, ws_items, week_items>>
    /\ list = ws_push.cur_list => \A t \in 1..list : HeardOf(t) => HeardOf(t)'
LEMMA GoesKeeps ==
    ASSUME WattInv, NEW list, NEW told, Goes(list, told)
    PROVE  /\ heard' \subseteq Amounts /\ day_moved' \in BOOLEAN /\ ws_acks' \in Seq(Acks)
           /\ AcksFit' /\ PassedIsHeard' /\ HeardHasData'
<1>0. /\ ws_push \in Pushes /\ ws_acks \in Seq(Acks) /\ heard \subseteq Amounts
      /\ ws_push.cur_list \in 1..(TypeCnt + 1) /\ list \in 1..TypeCnt
      /\ list <= ws_push.cur_list /\ (list = ws_push.cur_list \/ list = 1)
      /\ day_moved \in BOOLEAN /\ ws_push.is_first \in BOOLEAN
  BY WsSizes DEF WattInv, wsTypeOK, Pushes, Acks, Goes, ListHead, EnergyTypes
<1> DEFINE back == list < ws_push.cur_list
<1>a. /\ heard' = (IF back THEN {} ELSE heard) \union told
      /\ day_moved' = (~back /\ (day_moved \/ (ws_push.is_first /\ heard # {})))
  BY DEF Goes, Hears
<1>b. told \subseteq Amounts /\ \A a \in told : HasData(a.type, a.slot)
  <2>1. CASE told = {}
    BY <2>1
  <2>2. ASSUME NEW slot \in Slots, told = {Amount(list, slot)}, HasData(list, slot)
        PROVE  told \subseteq Amounts /\ \A a \in told : HasData(a.type, a.slot)
    <3>1. Amount(list, slot) \in Amounts
      BY DEF Amount, Amounts, Goes
    <3>2. Amount(list, slot).type = list /\ Amount(list, slot).slot = slot
      BY DEF Amount
    <3> QED BY <2>2, <3>1, <3>2
  <2> QED BY <2>1, <2>2 DEF Goes
<1>c. ~back => \A t \in 1..list : HeardOf(t) => HeardOf(t)'
  BY <1>0 DEF Goes
<1> HIDE DEF back
<1>1. heard' \subseteq Amounts /\ day_moved' \in BOOLEAN
  BY <1>0, <1>a, <1>b
<1>d. HeardHasData'
  <2> SUFFICES ASSUME ~day_moved', NEW a \in heard' PROVE HasData(a.type, a.slot)'
    BY DEF HeardHasData
  <2>1. HasData(a.type, a.slot)
    BY <1>a, <1>b DEF WattInv, HeardHasData
  <2> QED BY <2>1 DEF HasData, Goes
<1>2. PassedIsHeard'
  <2> SUFFICES ASSUME NEW t \in 1..TypeCnt, t < list PROVE HeardOf(t)'
    BY DEF PassedIsHeard, EnergyTypes, Goes
  <2>1. list = ws_push.cur_list /\ ~back /\ t \in 1..list
    BY <1>0, WsSizes DEF back
  <2>2. HeardOf(t)
    BY <2>1 DEF WattInv, PassedIsHeard, EnergyTypes
  <2> QED BY <1>c, <2>1, <2>2
<1>3. \A i \in 1..Len(ws_acks) : ws_acks[i].seq = ws_push.seq =>
         /\ ws_acks[i].type >= list
         /\ ws_acks[i].type = list => HeardOf(list)'
  <2> SUFFICES ASSUME NEW i \in 1..Len(ws_acks), ws_acks[i].seq = ws_push.seq
               PROVE  /\ ws_acks[i].type >= list
                      /\ ws_acks[i].type = list => HeardOf(list)'
    OBVIOUS
  <2>1. /\ ws_acks[i].type \in 1..TypeCnt /\ ws_acks[i].type >= ws_push.cur_list
        /\ ws_acks[i].type = ws_push.cur_list => HeardOf(ws_acks[i].type)
    <3>1. ws_acks[i] \in Acks
      BY <1>0
    <3>2. /\ ws_acks[i].type >= ws_push.cur_list
          /\ ws_acks[i].type = ws_push.cur_list => HeardOf(ws_acks[i].type)
      BY DEF WattInv, AcksFit
    <3> QED BY <3>1, <3>2 DEF Acks, EnergyTypes
  <2>2. ws_acks[i].type >= list
    BY <1>0, <2>1, WsSizes
  <2>3. ASSUME ws_acks[i].type = list PROVE HeardOf(list)'
    <3>1. ws_push.cur_list = list /\ ~back /\ list \in 1..list
      BY <1>0, <2>1, <2>3, WsSizes DEF back
    <3> QED BY <1>c, <2>1, <2>3, <3>1
  <2> QED BY <2>2, <2>3
<1>4. CASE told = {}
  <2>1. UNCHANGED ws_acks /\ ws_push'.seq = ws_push.seq /\ ws_push'.cur_list = list
    BY <1>4 DEF Goes
  <2> QED BY <1>0, <1>1, <1>d, <1>2, <1>3, <2>1 DEF WattInv, AcksFit
<1>5. CASE told # {}
  <2> DEFINE ack == [seq |-> ws_push.seq, type |-> list]
             n == Len(ws_acks)
  <2>1. /\ ws_acks' = Append(ws_acks, ack)
        /\ ws_push'.seq = ws_push.seq /\ ws_push'.cur_list = list
    BY <1>5 DEF Goes
  <2>a. HeardOf(list)'
    <3>1. Amount(list, PushDay(ws_push))' \in heard'
      BY <1>5, <1>a DEF Goes, Amount
    <3>2. Amount(list, PushDay(ws_push))'.type = list
      BY DEF Amount
    <3> QED BY <3>1, <3>2 DEF HeardOf
  <2>2. ack \in Acks
    BY <1>0 DEF Acks, Pushes, EnergyTypes
  <2>3. /\ ws_acks' \in Seq(Acks) /\ n \in Nat /\ Len(ws_acks') = n + 1
        /\ ws_acks'[n + 1] = ack /\ \A i \in 1..n : ws_acks'[i] = ws_acks[i]
    BY <1>0, <2>1, <2>2
  <2>4. ack.seq = ws_push.seq /\ ack.type = list
    OBVIOUS
  <2> HIDE DEF ack, n
  <2>5. ASSUME NEW i \in 1..(n + 1), ws_acks'[i].seq = ws_push.seq
        PROVE  /\ \A j \in i..(n + 1) : ws_acks'[j].seq = ws_push.seq
               /\ ws_acks'[i].type >= list
               /\ ws_acks'[i].type = list => HeardOf(list)'
    <3>1. CASE i = n + 1
      BY <1>0, <2>a, <2>3, <2>4, <3>1
    <3>2. CASE i \in 1..n
      <4>1. ws_acks'[i] = ws_acks[i] /\ ws_acks[i].seq = ws_push.seq
        BY <2>3, <2>5, <3>2
      <4>2. \A j \in i..n : ws_acks[j].seq = ws_push.seq
        BY <3>2, <4>1 DEF WattInv, AcksFit, n
      <4>3. \A j \in i..(n + 1) : ws_acks'[j].seq = ws_push.seq
        BY <2>3, <2>4, <3>2, <4>2
      <4> QED BY <1>3, <3>2, <4>1, <4>3 DEF n
    <3> QED BY <2>3, <3>1, <3>2
  <2>6. AcksFit'
    BY <2>1, <2>3, <2>5 DEF AcksFit
  <2> QED BY <1>1, <1>d, <1>2, <2>3, <2>6
<1> QED BY <1>4, <1>5

(* Whether the call keeps the day, where the list stays: if the push was   *)
(* started again, the day may have moved. *)
LEMMA StaysHeard ==
    ASSUME WattInv, NEW list, NEW told, Hears(list, told), list = ws_push.cur_list,
           UNCHANGED unix_date,
           ws_push.is_first \/ ws_push'.week_mark = ws_push.week_mark,
           NEW t, HeardOf(t)
    PROVE  HeardOf(t)'
<1>1. /\ heard \subseteq heard' /\ heard # {} /\ day_moved \in BOOLEAN
      /\ ws_push.cur_list \in Nat /\ ws_push.is_first \in BOOLEAN
      /\ day_moved' = (day_moved \/ ws_push.is_first)
  BY WsSizes DEF Hears, HeardOf, WattInv, wsTypeOK, ListHead
<1> QED BY <1>1, HeardStays DEF WattInv

LEMMA PushKeeps ==
    ASSUME WattInv, NEW out \in BOOLEAN, PushDays(out)
    PROVE  WattInv'
<1> DEFINE woken == Woken(ws_push)
           p == ListEnds(woken)
           slot == PushDay(p)
           told == IF out THEN {Amount(p.cur_list, slot)} ELSE {}
<1>0. /\ UNCHANGED <<unix_date, ws_items, last_exe, week_items, power_fails>>
      /\ \/ /\ ws_push' = woken /\ Hears(woken.cur_list, {})
            /\ UNCHANGED ws_acks
         \/ /\ NothingToSend(p, slot) /\ Hears(1, {}) /\ ~HasData(p.cur_list, slot)
         \/ /\ FrameSent(p, out) /\ Hears(p.cur_list, told) /\ HasData(p.cur_list, slot)
  BY DEF PushDays
<1>1. ws_push \in Pushes /\ unix_date \in Days
  BY DEF WattInv, wsTypeOK, Pushes
<1>2. /\ woken \in Pushes /\ woken.seq = ws_push.seq
      /\ woken.cur_list \in {ws_push.cur_list, 1}
      /\ ws_push.is_first \/ woken.week_mark = ws_push.week_mark
      /\ ws_push.is_first => woken.cur_list = 1
  BY <1>1, WokenTyped
<1>3. /\ p \in Pushes /\ p.seq = ws_push.seq /\ p.cur_list \in {ws_push.cur_list, 1}
      /\ p.cur_list # ListHead
      /\ woken.cur_list # ListHead => p.week_mark = woken.week_mark
  BY <1>2, ListEndsTyped
<1>4. 1 \in EnergyTypes /\ 1 # ListHead
      /\ \A l \in 1..ListHead : l # ListHead => l \in EnergyTypes
  BY WsSizes DEF EnergyTypes, ListHead
<1>5. slot \in Slots
  BY <1>1, PushDayIs
<1>6. ws_push.cur_list # ListHead =>
         /\ woken.cur_list # ListHead
         /\ ws_push.is_first \/ p.week_mark = ws_push.week_mark
  BY <1>2, <1>3, <1>4
<1> HIDE DEF woken, p, slot, told
<1>7. CASE /\ ws_push' = woken /\ Hears(woken.cur_list, {})
           /\ UNCHANGED ws_acks /\ woken.cur_list # ListHead
  <2>1. Goes(woken.cur_list, {})
    <3>1. woken.cur_list = ws_push.cur_list =>
             \A t \in 1..woken.cur_list : HeardOf(t) => HeardOf(t)'
      BY <1>0, <1>2, <1>7, StaysHeard
    <3> QED BY <1>0, <1>2, <1>4, <1>7, <3>1 DEF Goes, Pushes
  <2> QED BY <1>0, <1>2, <1>7, <2>1, GoesKeeps DEF WattInv, wsTypeOK, Pushes, Acks
<1>8. CASE /\ ws_push' = woken /\ Hears(woken.cur_list, {})
           /\ UNCHANGED ws_acks /\ woken.cur_list = ListHead
  <2>1. ws_push.cur_list = ListHead /\ ~ws_push.is_first /\ ws_push.cur_list \in Nat
    BY <1>1, <1>2, <1>4, <1>8, WsSizes DEF Pushes, ListHead
  <2>2. /\ UNCHANGED <<ws_acks, heard, day_moved>>
        /\ ws_push'.cur_list = ws_push.cur_list /\ ws_push'.seq = ws_push.seq
    BY <1>2, <1>8, <2>1 DEF Hears, WattInv, wsTypeOK
  <2>3. \A t : HeardOf(t) => HeardOf(t)'
    BY <1>0, <1>2, <1>8, <2>1, StaysHeard
  <2>4. AcksFit' /\ PassedIsHeard'
    BY <2>2, <2>3, FitUnchanged
  <2>5. HeardHasData'
    BY <1>0, <2>2 DEF WattInv, HeardHasData, HasData
  <2> QED BY <1>0, <1>2, <1>8, <2>2, <2>4, <2>5 DEF WattInv, wsTypeOK, Pushes, Acks
<1>9. CASE NothingToSend(p, slot) /\ Hears(1, {}) /\ ~HasData(p.cur_list, slot)
  <2>1. ws_push' \in Pushes /\ ws_push'.cur_list = 1 /\ ws_push'.seq = ws_push.seq
    <3> DEFINE q == [p EXCEPT !.week_mark[slot] = TRUE]
    <3>1. q \in Pushes /\ q.seq = ws_push.seq
      BY <1>3, MarkTyped
    <3>2. ws_push' = [q EXCEPT !.cur_list = 1]
      BY <1>3, <1>9 DEF NothingToSend, Pushes
    <3> HIDE DEF q
    <3> QED BY <3>1, <3>2, ToStartTyped
  (* A day with nothing under it is none the host was told of: the day has moved. *)
  <2>2. ASSUME ws_push.cur_list = 1, HeardOf(1) PROVE HeardOf(1)'
    <3>1. /\ heard \subseteq heard' /\ heard # {}
          /\ day_moved' = (day_moved \/ ws_push.is_first)
      BY <1>9, <2>2 DEF Hears, HeardOf
    <3>2. ASSUME ~day_moved, ~ws_push.is_first PROVE FALSE
      <4>1. p.week_mark = ws_push.week_mark /\ p.cur_list = 1
        BY <1>3, <1>4, <1>6, <2>2, <3>2
      <4>2. PushDay(ws_push) = slot
        BY <1>1, <4>1, PushDayIs DEF slot
      <4>3. Amount(1, slot) \in heard
        BY <2>2, <3>2, <4>2 DEF HeardOf
      <4>4. Amount(1, slot).type = 1 /\ Amount(1, slot).slot = slot
        BY DEF Amount
      <4>5. HasData(1, slot)
        BY <3>2, <4>3, <4>4 DEF WattInv, HeardHasData
      <4> QED BY <1>9, <4>1, <4>5
    <3> QED BY <2>2, <3>1, <3>2, HeardStays DEF WattInv, wsTypeOK
  <2>3. Goes(1, {})
    BY <1>0, <1>4, <1>9, <2>1, <2>2 DEF Goes, NothingToSend
  <2> QED BY <1>0, <2>1, <2>3, GoesKeeps DEF WattInv, wsTypeOK, Pushes, Acks
<1>10. CASE FrameSent(p, out) /\ Hears(p.cur_list, told) /\ HasData(p.cur_list, slot)
  <2>1. /\ ws_push' \in Pushes /\ ws_push'.cur_list = p.cur_list
        /\ ws_push'.seq = ws_push.seq /\ ws_push'.week_mark = p.week_mark
    BY <1>3, <1>10 DEF FrameSent, Pushes
  <2>2. p.cur_list \in EnergyTypes
    BY <1>3, <1>4 DEF Pushes
  <2>3. ws_acks' = IF told = {} THEN ws_acks
                   ELSE Append(ws_acks, [seq |-> ws_push.seq, type |-> p.cur_list])
    BY <1>3, <1>10 DEF FrameSent, told
  <2>4. slot = PushDay(ws_push)'
    BY <1>0, <2>1 DEF slot, PushDay, Unmarked
  <2>5. p.cur_list = ws_push.cur_list =>
           \A t \in 1..p.cur_list : HeardOf(t) => HeardOf(t)'
    <3> SUFFICES ASSUME p.cur_list = ws_push.cur_list,
                        NEW t \in 1..p.cur_list, HeardOf(t)
                 PROVE  HeardOf(t)'
      OBVIOUS
    <3>1. ws_push.is_first \/ ws_push'.week_mark = ws_push.week_mark
      BY <1>3, <1>6, <2>1
    <3> QED BY <1>0, <1>10, <3>1, StaysHeard
  <2>6. Goes(p.cur_list, told)
    BY <1>0, <1>3, <1>5, <1>10, <2>1, <2>2, <2>3, <2>4, <2>5 DEF Goes, told
  <2> QED BY <1>0, <2>1, <2>6, GoesKeeps DEF WattInv, wsTypeOK, Pushes, Acks
<1> QED BY <1>0, <1>7, <1>8, <1>9, <1>10
-----------------------------------------------------------------------------
(* What is behind the first acknowledgement on the link. *)
LEMMA Behind ==
    ASSUME WattInv, ws_acks # << >>
    PROVE  /\ Tail(ws_acks) \in Seq(Acks) /\ Len(ws_acks) \in Nat \ {0}
           /\ Head(ws_acks) = ws_acks[1] /\ ws_acks[1] \in Acks
           /\ Len(Tail(ws_acks)) = Len(ws_acks) - 1
           /\ \A i \in 1..(Len(ws_acks) - 1) : Tail(ws_acks)[i] = ws_acks[i + 1]
<1>1. ws_acks \in Seq(Acks)
  BY DEF WattInv, wsTypeOK, Acks
<1> QED BY <1>1

(* Nor does what was heard change. *)
LEMMA SameHeard ==
    ASSUME WattInv, UNCHANGED <<unix_date, ws_items, week_items, heard, day_moved>>,
           ws_push'.week_mark = ws_push.week_mark
    PROVE  HeardHasData' /\ \A t : HeardOf(t)' <=> HeardOf(t)
<1>1. PushDay(ws_push)' = PushDay(ws_push)
  BY DEF PushDay, Unmarked
<1>2. \A t : HeardOf(t)' <=> HeardOf(t)
  BY <1>1 DEF HeardOf, Amount
<1> QED BY <1>2 DEF WattInv, HeardHasData, HasData

LEMMA TailFits ==
    ASSUME WattInv, ws_acks # << >>, ws_acks' = Tail(ws_acks),
           UNCHANGED <<ws_push, unix_date, ws_items, week_items, heard, day_moved>>
    PROVE  AcksFit' /\ PassedIsHeard' /\ HeardHasData'
<1>0. HeardHasData' /\ \A t : HeardOf(t)' <=> HeardOf(t)
  BY SameHeard
<1> DEFINE n == Len(ws_acks)
<1>1. /\ n \in Nat \ {0} /\ Len(ws_acks') = n - 1
      /\ \A i \in 1..(n - 1) : ws_acks'[i] = ws_acks[i + 1]
  BY Behind
<1>2. ASSUME NEW i \in 1..(n - 1), ws_acks'[i].seq = ws_push.seq
      PROVE  /\ \A j \in i..(n - 1) : ws_acks'[j].seq = ws_push.seq
             /\ ws_acks'[i].type >= ws_push.cur_list
             /\ ws_acks'[i].type = ws_push.cur_list => HeardOf(ws_acks'[i].type)
  <2>1. i + 1 \in 1..n /\ ws_acks[i + 1].seq = ws_push.seq
    BY <1>1, <1>2
  <2>2. /\ \A j \in (i + 1)..n : ws_acks[j].seq = ws_push.seq
        /\ ws_acks[i + 1].type >= ws_push.cur_list
        /\ ws_acks[i + 1].type = ws_push.cur_list => HeardOf(ws_acks[i + 1].type)
    BY <2>1 DEF WattInv, AcksFit
  <2>3. \A j \in i..(n - 1) : j + 1 \in (i + 1)..n /\ j \in 1..(n - 1)
    BY <1>1, <1>2
  <2> QED BY <1>1, <1>2, <2>2, <2>3
<1> HIDE DEF n
<1>3. AcksFit'
  BY <1>0, <1>1, <1>2 DEF AcksFit
<1> QED BY <1>0, <1>3 DEF WattInv, PassedIsHeard

(* An acknowledgement that moves the list on leaves only its own number,   *)
(* which is none that is waited for, on the link. *)
LEMMA AckKeeps == WattInv /\ x_watth_statistics_push_ack => WattInv'
<1> SUFFICES ASSUME WattInv, x_watth_statistics_push_ack PROVE WattInv'
  OBVIOUS
<1> DEFINE ack == Head(ws_acks)
           n == Len(ws_acks)
<1>0. /\ ws_acks # << >> /\ ws_acks' = Tail(ws_acks)
      /\ UNCHANGED <<unix_date, ws_items, last_exe, week_items, heard, day_moved, power_fails>>
  BY DEF x_watth_statistics_push_ack
<1>1. /\ ws_acks' \in Seq(Acks) /\ ack = ws_acks[1] /\ ack \in Acks
      /\ n \in Nat \ {0} /\ Len(ws_acks') = n - 1
      /\ \A i \in 1..(n - 1) : ws_acks'[i] = ws_acks[i + 1]
  BY <1>0, Behind
<1>2. ws_push \in Pushes
  BY DEF WattInv, wsTypeOK, Pushes
<1>3. CASE ack.seq = ws_push.seq /\ ack.type = ws_push.cur_list
  <2> DEFINE s == (ws_push.seq + 1) % SeqNumbers
             c == ws_push.cur_list + 1
  <2>1. ws_push' = [ws_push EXCEPT !.seq = s, !.cur_list = c, !.flg = FALSE]
    BY <1>3 DEF x_watth_statistics_push_ack, DayAcked
  <2>2. s \in 0..(SeqNumbers - 1) /\ s # ws_push.seq
    BY <1>2, NextNumber DEF Pushes
  <2>3. c \in 1..ListHead /\ ws_push.cur_list \in EnergyTypes
    BY <1>1, <1>3, WsSizes DEF Acks, EnergyTypes, ListHead
  <2> HIDE DEF s, c
  <2>4. /\ ws_push' \in Pushes /\ ws_push'.seq = s /\ ws_push'.cur_list = c
        /\ ws_push'.week_mark = ws_push.week_mark
    BY <1>2, <2>1, <2>2, <2>3 DEF Pushes
  <2>5. 1 \in 1..n /\ ws_acks[1].seq = ws_push.seq /\ ws_acks[1].type = ws_push.cur_list
    BY <1>1, <1>3
  <2>6. /\ \A j \in 1..n : ws_acks[j].seq = ws_push.seq
        /\ HeardOf(ws_push.cur_list)
    BY <2>5 DEF WattInv, AcksFit
  <2>a. HeardHasData' /\ \A t : HeardOf(t)' <=> HeardOf(t)
    BY <1>0, <2>4, SameHeard
  <2>7. \A i \in 1..(n - 1) : ws_acks'[i].seq # s
    <3>1. \A i \in 1..(n - 1) : i + 1 \in 1..n
      BY <1>1
    <3> QED BY <1>1, <2>2, <2>6, <3>1
  <2>8. AcksFit'
    BY <1>1, <2>4, <2>7 DEF AcksFit
  <2>9. PassedIsHeard'
    <3> SUFFICES ASSUME NEW t \in EnergyTypes, t < c PROVE HeardOf(t)
      BY <2>4, <2>a DEF PassedIsHeard
    <3>1. t < ws_push.cur_list \/ t = ws_push.cur_list
      BY <2>3 DEF c, EnergyTypes
    <3> QED BY <2>6, <3>1 DEF WattInv, PassedIsHeard
  <2>10. wsTypeOK'
    BY <1>0, <1>1, <2>4 DEF WattInv, wsTypeOK, Pushes, Acks
  <2> QED BY <2>a, <2>8, <2>9, <2>10 DEF WattInv
<1>4. CASE ~(ack.seq = ws_push.seq /\ ack.type = ws_push.cur_list)
  <2>1. UNCHANGED ws_push
    BY <1>4 DEF x_watth_statistics_push_ack, DayAcked
  <2>2. AcksFit' /\ PassedIsHeard' /\ HeardHasData'
    BY <1>0, <2>1, TailFits
  <2>3. wsTypeOK'
    BY <1>0, <1>1, <2>1 DEF WattInv, wsTypeOK, Acks
  <2> QED BY <2>2, <2>3 DEF WattInv
<1> QED BY <1>3, <1>4

LEMMA AckLostKeeps == WattInv /\ WsAckLost => WattInv'
<1> SUFFICES ASSUME WattInv, WsAckLost PROVE WattInv'
  OBVIOUS
<1>1. AcksFit' /\ PassedIsHeard' /\ HeardHasData'
  BY TailFits DEF WsAckLost
<1>2. ws_acks' \in Seq(Acks)
  BY Behind DEF WsAckLost
<1>3. wsTypeOK'
  BY <1>2 DEF WattInv, WsAckLost, wsTypeOK, Acks
<1> QED BY <1>1, <1>3 DEF WattInv

LEMMA WattStep == WattInv /\ [wsNext]_wsVars => WattInv'
<1> SUFFICES ASSUME WattInv, [wsNext]_wsVars PROVE WattInv'
  OBVIOUS
<1>1. CASE UNCHANGED wsVars
  BY <1>1 DEF WattInv, wsVars, wsTypeOK, AcksFit, PassedIsHeard, HeardHasData,
             HeardOf, HasData, Amount, PushDay, Unmarked
<1>2. CASE wsNext
  <2>1. \A today \in Todays : today \in Days
    BY DEF Todays
  <2> QED BY <1>2, <2>1, TaskKeeps, SaveAllKeeps, StartsAgainKeeps, RestartKeeps,
             PushKeeps, AckKeeps, AckLostKeeps DEF wsNext
<1> QED BY <1>1, <1>2

(* The push and what is saved keep their types. *)
THEOREM StatisticsTypeCorrect == wsSpec => []wsTypeOK
<1>1. WattInv => wsTypeOK
  BY DEF WattInv
<1> QED BY <1>1, WattInit, WattStep, PTL DEF wsSpec

(* The list never passes a type the host has not been told of, and under   *)
(* the day that is marked at its end, unless a day ended on the way or the *)
(* push was started again: however many frames and acknowledgements are    *)
(* lost, late or sent twice.  Two sequence numbers are enough.             *)
THEOREM StatisticsAreHeard == wsSpec => []PassedIsHeard
<1>1. WattInv => PassedIsHeard
  BY DEF WattInv
<1> QED BY <1>1, WattInit, WattStep, PTL DEF wsSpec
=============================================================================

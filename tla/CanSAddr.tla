------------------------------ MODULE CanSAddr ------------------------------
(* How the boards on a CAN bus get their dynamic addresses (can_s.c).      *)
(* Each board broadcasts its unique id until a host answers with an        *)
(* address; the one with the smallest id that hears no host for a while    *)
(* takes address 1 and is the host.  Boards announce their addresses with  *)
(* heartbeats: of two that have the same, the one with the larger id       *)
(* starts again, and a board that hears no lower address for a while takes *)
(* over as host.  Boards are switched off and on, and frames are lost.  A   *)
(* board that has lost too many cells of its cache (the lists of CanSrc     *)
(* show how) stops, and begins with empty lists at the next frame it hears. *)
EXTENDS Integers, FiniteSets, FiniteSetsExt

CONSTANTS
    Boards,         \* by unique id
    CastFini,       \* CAN_S_CAST_FINI_TIME, in periods of 100 ms
    MastTime,       \* CAN_S_MAST_TIME
    MaxAddr,        \* bound: addresses
    MaxSwitches,    \* bound: boards switched on or off
    MaxFaults       \* bound: receptions lost and caches given up

ASSUME BoardsAreCounted ==
    /\ Boards \subseteq Nat \ {0} /\ IsFiniteSet(Boards) /\ Boards # {}
    /\ {CastFini, MastTime, MaxAddr} \subseteq Nat \ {0}
    /\ {MaxSwitches, MaxFaults} \subseteq Nat

VARIABLES
    board,          \* what each board has in its memory
    due,            \* boards that have not sent in this period
    switches, faults    \* how often either has happened

addrVars == <<board, due, switches, faults>>

NoBoard == 0
Addrs == 1..MaxAddr
Off == [dev_sta |-> "off", dev_d_addr |-> 0, set_addr_mark |-> FALSE,
        host_mark |-> FALSE, conflict_mark |-> FALSE, wait_mark |-> FALSE,
        reset_mark |-> FALSE, start |-> 0, mast_conn |-> 0, mast_wait |-> 0,
        dev_list |-> [a \in Addrs |-> NoBoard]]
Record == [dev_sta : {"off", "cast", "conn"}, dev_d_addr : 0..MaxAddr,
           set_addr_mark : BOOLEAN, host_mark : BOOLEAN,
           conflict_mark : BOOLEAN, wait_mark : BOOLEAN, reset_mark : BOOLEAN,
           start : 0..CastFini, mast_conn : 0..MastTime,
           mast_wait : 0..MastTime,
           dev_list : [Addrs -> Boards \union {NoBoard}]]

Powered == {b \in Boards : board[b].dev_sta # "off"}

(* can_s_task runs: it does nothing from reset_mark to the next frame. *)
Runs(b) == b \in Powered /\ ~board[b].reset_mark
addrInit ==
    /\ board = [b \in Boards |-> Off] /\ due = {}
    /\ switches = 0 /\ faults = 0
-----------------------------------------------------------------------------
(* search_unused_d_addr walks the address list and skips the host's own    *)
(* address; when that is in the list too, the walk stops there.            *)
search_unused_d_addr(p) ==
    LET known == {a \in Addrs : p.dev_list[a] # NoBoard}
        own == p.dev_d_addr
    IN Min({a \in Addrs : a # own /\ (a \notin known \/ (own \in known /\ own < a))})

search_id_dev(p, id) ==
    LET at == {a \in Addrs : p.dev_list[a] = id}
    IN IF at = {} THEN 0 ELSE Min(at)

(* can_s_cast_handle: the address a host offers to the board "id". *)
Offer(p, id) ==
    LET known == search_id_dev(p, id)
    IN IF known # 0 /\ known # p.dev_d_addr THEN known ELSE search_unused_d_addr(p)

(* ... and what a board that looks for an address itself does.             *)
HearsCast(p, me, id) ==
    IF p.dev_sta = "cast" /\ me >= id THEN [p EXCEPT !.start = 0] ELSE p

(* can_s_mast_time_updata *)
HostTime(p, a) ==
    IF p.dev_sta # "conn" \/ a > p.dev_d_addr THEN p
    ELSE LET starts == p.host_mark /\ ~p.wait_mark
             wait == IF starts THEN 0 ELSE p.mast_wait
             over == wait = MastTime
         IN [p EXCEPT !.mast_conn = 0,
                      !.mast_wait = wait,
                      !.host_mark = @ /\ ~over,
                      !.wait_mark = (@ \/ starts) /\ ~over]

(* Mutant: of two boards with the same address, both keep it. *)
HearsHeartAndStays(p, me, id, a) ==
    IF p.dev_sta = "off" THEN p
    ELSE [HostTime(p, a) EXCEPT !.dev_list[a] = id]

(* can_s_hear_handle *)
HearsHeart(p, me, id, a) ==
    LET clash == p.dev_sta = "conn" /\ a = p.dev_d_addr
        q == [p EXCEPT !.conflict_mark = @ \/ clash]
    IN IF p.dev_sta = "off" \/ (clash /\ me < id) THEN p
       ELSE [HostTime(q, a) EXCEPT !.dev_list[a] = id]

(* can_s_dev_sta_task: looking for an address begins again ...             *)
Searching(p) ==
    [p EXCEPT !.dev_sta = "cast", !.host_mark = FALSE, !.start = 0,
              !.set_addr_mark = FALSE]

(* ... and ends: the board has an address, or has waited for long enough   *)
(* to take the first one.                                                  *)
Found(p) == p.dev_sta = "cast" /\ (p.set_addr_mark \/ p.start = CastFini)
Connected(p) ==
    LET alone == p.start = CastFini /\ ~p.set_addr_mark
    IN [p EXCEPT !.dev_sta = "conn",
                 !.dev_d_addr = IF p.start = CastFini THEN 1 ELSE @,
                 !.host_mark = alone, !.conflict_mark = FALSE,
                 !.mast_conn = IF alone THEN @ ELSE 0]
Clashed(p) == p.dev_sta = "conn" /\ p.conflict_mark
HostLost(p) == p.dev_sta = "conn" /\ p.mast_conn = MastTime

(* can_s_rece_pack calls can_s_init for a board that has stopped; before   *)
(* the frame is handled, its task looks at the time that has passed.       *)
Restarted(p) ==
    LET q == [p EXCEPT !.dev_list = [a \in Addrs |-> NoBoard], !.reset_mark = FALSE]
    IN IF ~p.reset_mark THEN p
       ELSE CASE Found(q) -> Connected(q)
              [] Clashed(q) -> Searching(q)
              [] OTHER -> [q EXCEPT !.host_mark = @ \/ HostLost(q)]
Heard(b) == Restarted(board[b])
-----------------------------------------------------------------------------
(* The boards that may miss a frame of b; each loss of a reception counts. *)
Misses(b) == {m \in SUBSET (Powered \ {b}) : Cardinality(m) <= MaxFaults - faults}
Lose(missed, answersLost) ==
    /\ faults' = faults + Cardinality(missed) + answersLost
    /\ faults' <= MaxFaults

(* The boards that a frame of b reaches; those that had stopped go on.     *)
Reached(b, missed) == Powered \ (missed \union {b})
Sent(b, missed) ==
    due' = (due \ {b}) \union {c \in Reached(b, missed) : board[c].reset_mark}

(* A board sends its id, every host that hears it offers an address, and   *)
(* the last offer that comes back counts.                                  *)
Hosts(b, missed) ==
    {h \in Reached(b, missed) : Heard(h).dev_sta = "conn" /\ Heard(h).host_mark}
Cast(b, missed, accepted) ==
    /\ b \in due /\ board[b].dev_sta = "cast" /\ ~board[b].set_addr_mark
    /\ accepted \in Hosts(b, missed) \union {NoBoard}
    /\ Lose(missed, IF accepted = NoBoard THEN Cardinality(Hosts(b, missed)) ELSE 0)
    /\ board' = [c \in Boards |->
         IF c = b
         THEN IF accepted = NoBoard THEN board[b]
              ELSE [board[b] EXCEPT !.set_addr_mark = TRUE,
                                    !.dev_d_addr = Offer(Heard(accepted), b)]
         ELSE IF c \in Reached(b, missed) THEN HearsCast(Heard(c), c, b)
         ELSE board[c]]
    /\ Sent(b, missed)
    /\ UNCHANGED switches

Connect(b) ==
    /\ Runs(b) /\ Found(board[b])
    /\ board' = [board EXCEPT ![b] = Connected(@)]
    /\ due' = due \union {b}
    /\ UNCHANGED <<switches, faults>>

Heart(b, missed) ==
    /\ b \in due /\ board[b].dev_sta = "conn" /\ ~board[b].conflict_mark
    /\ Lose(missed, 0)
    /\ board' = [c \in Boards |->
         IF c \in Reached(b, missed)
         THEN HearsHeart(Heard(c), c, b, board[b].dev_d_addr) ELSE board[c]]
    /\ Sent(b, missed)
    /\ UNCHANGED switches

(* A conflict was noticed: idle, and at once looking for an address. *)
Yield(b) ==
    /\ Runs(b) /\ Clashed(board[b])
    /\ board' = [board EXCEPT ![b] = Searching(@)]
    /\ due' = due \union {b}
    /\ UNCHANGED <<switches, faults>>

(* can_s_cache_monitor: for RESET_TIME more than RESET_NUM cells have been  *)
(* missing from the lists. *)
Monitor(b) ==
    /\ Runs(b) /\ faults < MaxFaults
    /\ board' = [board EXCEPT ![b].reset_mark = TRUE]
    /\ due' = due \ {b}
    /\ faults' = faults + 1
    /\ UNCHANGED switches

(* can_s_rm_dev: a board that has not been heard under an address for a    *)
(* minute is taken from the list.                                          *)
Stale(b, a) ==
    LET id == board[b].dev_list[a]
    IN id # NoBoard /\ (id \notin Powered \/ board[id].dev_d_addr # a
                          \/ board[id].dev_sta # "conn")
Forget(b, a) ==
    /\ Runs(b) /\ Stale(b, a)
    /\ board' = [board EXCEPT ![b].dev_list[a] = NoBoard]
    /\ UNCHANGED <<due, switches, faults>>

(* The next period of 100 ms. *)
Older(age, limit) == IF age < limit THEN age + 1 ELSE age
Aged(p) ==
    LET q == [p EXCEPT !.start = IF p.dev_sta = "cast" THEN Older(@, CastFini) ELSE @,
                       !.mast_conn = IF p.dev_sta = "conn" THEN Older(@, MastTime) ELSE @,
                       !.mast_wait = Older(@, MastTime)]
    IN [q EXCEPT !.host_mark = @ \/ (HostLost(q) /\ ~q.reset_mark)]
Tick ==
    /\ due = {} /\ Powered # {}
    /\ \A b \in Boards : Runs(b) => ~Found(board[b]) /\ ~Clashed(board[b])
    /\ board' = [b \in Boards |-> IF b \in Powered THEN Aged(board[b]) ELSE board[b]]
    /\ due' = {b \in Boards : Runs(b)}
    /\ UNCHANGED <<switches, faults>>

SwitchOn(b) ==
    /\ board[b].dev_sta = "off" /\ switches < MaxSwitches
    /\ board' = [board EXCEPT ![b] = Searching(Off)]
    /\ due' = due \union {b}
    /\ switches' = switches + 1
    /\ UNCHANGED faults

SwitchOff(b) ==
    /\ b \in Powered /\ switches < MaxSwitches
    /\ board' = [board EXCEPT ![b] = Off]
    /\ due' = due \ {b}
    /\ switches' = switches + 1
    /\ UNCHANGED faults

Run(b) == \/ \E missed \in Misses(b), h \in Boards \union {NoBoard} :
                Cast(b, missed, h)
          \/ Connect(b) \/ Yield(b)
          \/ \E missed \in Misses(b) : Heart(b, missed)

RunAny == \E b \in Boards : Run(b)
ForgetAny == \E b \in Boards, a \in Addrs : Forget(b, a)
addrNext ==
    \/ RunAny \/ ForgetAny \/ Tick
    \/ \E b \in Boards : SwitchOn(b) \/ SwitchOff(b) \/ Monitor(b)

(* The boards go on running, time passes, and what is stale for ever is    *)
(* forgotten. *)
addrFairness ==
    /\ WF_addrVars(RunAny) /\ WF_addrVars(Tick) /\ WF_addrVars(ForgetAny)
addrSpec == addrInit /\ [][addrNext]_addrVars /\ addrFairness
-----------------------------------------------------------------------------
addrTypeOK ==
    /\ board \in [Boards -> Record]
    /\ due \subseteq Powered
    /\ switches \in 0..MaxSwitches /\ faults \in 0..MaxFaults

(* However the boards are switched on and off, whatever frames are lost    *)
(* and whichever cache is given up, at last all boards that are on are     *)
(* connected under addresses of their own and one of them is the host;     *)
(* unless each of them has stopped and waits for a frame of another.       *)
Stopped == \A b \in Powered : ~Runs(b)
Settled ==
    /\ \A b \in Powered : Runs(b) /\ board[b].dev_sta = "conn"
    /\ \A b, c \in Powered :
          board[b].dev_d_addr = board[c].dev_d_addr => b = c
    /\ Powered # {} =>
          Cardinality({b \in Powered : board[b].host_mark}) = 1
AddressesSettle == <>[](Settled \/ Stopped)
=============================================================================

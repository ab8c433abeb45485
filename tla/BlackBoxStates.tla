--------------------------- MODULE BlackBoxStates ---------------------------
(* The recorder's state machine (xf_bbox.c).  The application reports its  *)
(* state; the task, called every 50 ms, takes a sample a second, saves one *)
(* now and then in the normal state, and after a fault or an error saves   *)
(* all it has and one sample after the other for a while.                  *)
EXTENDS BlackBoxRings

CONSTANTS
    HeadCnt,        \* BBOX_MAX_READ_DATA_CNT: samples that wait
    TailCnt,        \* samples of a trigger
    MaxSamples,     \* bound: samples taken
    MaxReports      \* bound: calls of bbox_state_set

ASSUME RingSizes ==
    {HeadCnt, TailCnt, MaxSamples} \subseteq Nat \ {0} /\ MaxReports \in Nat

CLOSE  == 0
ERROR  == 1
FAULT  == 2
NORMAL == 3
Partitions  == {"common", "serious"}   \* BBOX_FLASH_NORMAL and BBOX_FLASH_FAULT

VARIABLES
    rings,          \* the samples waiting to be saved
    on_off,         \* samples are taken
    cur_state, new_state, change_flag,
    error_remained, \* samples still to be saved after a fault or an error
    refusing,       \* partitions that are being read as a whole
    sample,         \* number of the newest sample
    serious,        \* newest sample in the partition for errors
    batch,          \* what the last step has saved there
    reports         \* reports so far

stVars == <<rings, on_off, cur_state, new_state, change_flag, error_remained,
            refusing, sample, serious, batch, reports>>
fsmVars == <<cur_state, new_state, change_flag, error_remained>>

stInit ==
    /\ rings = EmptyRings(HeadCnt, TailCnt)
    /\ on_off = 0
    /\ cur_state = CLOSE /\ new_state = CLOSE /\ change_flag = 0
    /\ error_remained = 0 /\ refusing = {}
    /\ sample = 0 /\ serious = 0 /\ batch = << >> /\ reports = 0

(* Sample numbers stop at the bound. *)
NextSample == IF sample < MaxSamples THEN sample + 1 ELSE sample

(* What is saved to part; nothing while it is being read.  Of what goes to *)
(* the common partition only the effect on the rings matters here.         *)
Saves(part, samples) ==
    LET taken == IF part = "serious" /\ part \notin refusing THEN samples
                 ELSE << >>
    IN /\ batch' = taken
       /\ serious' = IF taken = << >> THEN serious ELSE taken[Len(taken)]
Kept(part, before, after) == IF part \in refusing THEN before ELSE after
AllOf(p) == SavedHead(p, HeadCnt) \o SavedTail(p, HeadCnt, TailCnt)

(* __bbox_fsm_state_change: a fault or an error gives way to nothing       *)
(* weaker while samples remain to be saved.                                *)
Refused(new) ==
    \/ new_state = ERROR /\ new > ERROR /\ error_remained > 0
    \/ new_state = FAULT /\ new > FAULT /\ error_remained > 0
StateChange(new) ==
    IF Refused(new) THEN UNCHANGED <<new_state, change_flag>>
    ELSE new_state' = new /\ change_flag' = 1

(* bbox_state_set(name, type, state) *)
StateSet(save, new) ==
    /\ reports < MaxReports /\ reports' = reports + 1
    /\ sample' = NextSample
    /\ LET p == record_tail_data_get(rings, HeadCnt, TailCnt, NextSample)
       IN IF save = "all"
          THEN LET part == IF new = ERROR THEN "serious" ELSE "common"
               IN /\ rings' = Kept(part, p, AfterSaveAll(p))
                  /\ Saves(part, AllOf(p))
          ELSE /\ rings' = Kept("common", p, AfterTailRecent(p))
               /\ Saves("common", TailRecent(p, HeadCnt, TailCnt))
    /\ StateChange(new)
    /\ on_off' = IF new = CLOSE THEN 0 ELSE 1
    /\ UNCHANGED <<cur_state, error_remained, refusing>>

ReportNormal == StateSet("trigger", NORMAL)
ReportClose  == StateSet("trigger", CLOSE)
ReportFault  == StateSet("all", FAULT)
ReportError  == StateSet("all", ERROR)
-----------------------------------------------------------------------------
(* __bbox_fsm_in_func: the sample of this second. *)
Sampled(inDue) == inDue /\ on_off = 1
RingsNow(inDue) ==
    IF Sampled(inDue) THEN record_head_data_get(rings, HeadCnt, NextSample)
    ELSE rings

PartOf(s) == IF s = ERROR THEN "serious" ELSE "common"

(* __bbox_fsm_task: a pending change, with the in-function of the state.   *)
Enter(inDue) ==
    /\ change_flag = 1
    /\ cur_state' = new_state /\ change_flag' = 0
    /\ sample' = IF Sampled(inDue) THEN NextSample ELSE sample
    /\ LET p == RingsNow(inDue)
       IN IF new_state \in {ERROR, FAULT}
          THEN /\ rings' = Kept(PartOf(new_state), p, AfterSaveAll(p))
               /\ Saves(PartOf(new_state), AllOf(p))
               /\ error_remained' = HeadCnt
          ELSE /\ rings' = p
               /\ Saves("common", << >>)
               /\ UNCHANGED error_remained
    /\ UNCHANGED <<on_off, new_state, refusing, reports>>

(* ... or the exec-function of the state it is in, when it is due. *)
ExecNormal(inDue, execDue) ==
    /\ change_flag = 0 /\ cur_state \in {NORMAL, CLOSE}
    /\ sample' = IF Sampled(inDue) THEN NextSample ELSE sample
    /\ LET p == RingsNow(inDue)
       IN rings' = IF execDue /\ cur_state = NORMAL
                   THEN Kept("common", p, AfterHeadRecent(p)) ELSE p
    /\ Saves("common", << >>)
    /\ UNCHANGED <<on_off, fsmVars, refusing, reports>>

(* Mutant: a sample that was refused is not counted. *)
ExecCountsSaved(inDue, execDue) ==
    /\ change_flag = 0 /\ cur_state \in {ERROR, FAULT}
    /\ sample' = IF Sampled(inDue) THEN NextSample ELSE sample
    /\ LET p == RingsNow(inDue)
           part == PartOf(cur_state)
           one == execDue /\ error_remained > 0 /\ p.head_read_cnt > 0
           left == IF one /\ part \notin refusing THEN error_remained - 1
                   ELSE error_remained
       IN /\ rings' = IF one THEN Kept(part, p, AfterHeadRecent(p)) ELSE p
          /\ Saves(part, IF one THEN HeadRecent(p, HeadCnt) ELSE << >>)
          /\ error_remained' = left
          /\ IF execDue /\ left = 0
             THEN new_state' = NORMAL /\ change_flag' = 1
             ELSE UNCHANGED <<new_state, change_flag>>
    /\ UNCHANGED <<on_off, cur_state, refusing, reports>>

ExecRemaining(inDue, execDue) ==
    /\ change_flag = 0 /\ cur_state \in {ERROR, FAULT}
    /\ sample' = IF Sampled(inDue) THEN NextSample ELSE sample
    /\ LET p == RingsNow(inDue)
           part == PartOf(cur_state)
           one == execDue /\ error_remained > 0 /\ p.head_read_cnt > 0
           left == IF one THEN error_remained - 1 ELSE error_remained
       IN /\ rings' = IF one THEN Kept(part, p, AfterHeadRecent(p)) ELSE p
          /\ Saves(part, IF one THEN HeadRecent(p, HeadCnt) ELSE << >>)
          /\ error_remained' = left
          /\ IF execDue /\ left = 0
             THEN new_state' = NORMAL /\ change_flag' = 1
             ELSE UNCHANGED <<new_state, change_flag>>
    /\ UNCHANGED <<on_off, cur_state, refusing, reports>>

Task(inDue, execDue) ==
    Enter(inDue) \/ ExecNormal(inDue, execDue) \/ ExecRemaining(inDue, execDue)

(* A host starts, or has finished, reading a partition as a whole. *)
Reading ==
    /\ \E p \in Partitions :
          refusing' \in {refusing \union {p}, refusing \ {p}}
    /\ batch' = << >>
    /\ UNCHANGED <<rings, on_off, fsmVars, sample, serious, reports>>

stNext ==
    \/ ReportNormal \/ ReportClose \/ ReportFault \/ ReportError
    \/ \E inDue, execDue \in BOOLEAN : Task(inDue, execDue)
    \/ Reading

(* The task is called again and again, and both of its timers run out. *)
stFairness == /\ WF_stVars(\E execDue \in BOOLEAN : Task(TRUE, execDue))
              /\ WF_stVars(\E inDue \in BOOLEAN : Task(inDue, TRUE))
stSpec == stInit /\ [][stNext]_stVars /\ stFairness
-----------------------------------------------------------------------------
stTypeOK ==
    /\ rings \in Rings(HeadCnt, TailCnt, 0..MaxSamples)
    /\ on_off \in {0, 1} /\ {cur_state, new_state} \subseteq CLOSE..NORMAL
    /\ change_flag \in {0, 1} /\ error_remained \in 0..HeadCnt
    /\ refusing \subseteq Partitions
    /\ {sample, serious} \subseteq 0..MaxSamples
    /\ batch \in Seq(0..MaxSamples) /\ reports \in 0..MaxReports

(* What goes to the partition for errors: each batch is in the order the   *)
(* samples were taken, and ends with one no older than all that is there,  *)
(* although save_all and the second-by-second saving go back over the same *)
(* ring and saving may be refused in between.  It may begin with samples   *)
(* older than the newest that is there, since the second-by-second saving  *)
(* takes the newest of the ring and forgets the oldest; there are          *)
(* HeadCnt - 2 of them at most.                                            *)
Ordered ==
    \A i \in 1..Len(batch') :
        /\ i > 1 => batch'[i - 1] <= batch'[i]
        /\ batch'[i] < serious => i <= HeadCnt - 2
SeriousInOrder == [][Ordered /\ serious <= serious']_stVars

(* "Entered for a permanent fault; switches to normal by itself when done" *)
(* (XF_BBOX_STATE_E): the samples that remain are saved and the machine    *)
(* goes on.                                                                *)
ErrorEnds == cur_state \in {ERROR, FAULT} ~> cur_state \notin {ERROR, FAULT}
=============================================================================

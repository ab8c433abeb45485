--------------------------- MODULE BlackBoxUpload ---------------------------
(* Reading the black box from a host (the second half of xf_bbox.c).  A    *)
(* read command opens a session on a window of records, a replenish        *)
(* command says which of the window are wanted, the task sends them one    *)
(* by one and then announces the end; meanwhile saving goes on, unless the *)
(* whole partition is being read.  One partition.                          *)
EXTENDS Integers, FiniteSets

CONSTANTS
    Capacity,           \* records the partition holds
    MaxIndex,           \* bound: indices used
    UPLOAD_RETRY_COUNT, \* how often a frame is sent that nobody confirms
    PageSizes,          \* page sizes a read command may ask for
    BBOX_PAGE_SIZE_MAX, \* records a session may send
    MaxCommands         \* bound: commands of the host

ASSUME Sizes ==
    /\ {Capacity, MaxIndex, UPLOAD_RETRY_COUNT, BBOX_PAGE_SIZE_MAX} \subseteq Nat \ {0}
    /\ Capacity <= MaxIndex /\ PageSizes \subseteq 1..Capacity
    /\ MaxCommands \in Nat

VARIABLES
    last,           \* p_flash->index
    held,           \* p_flash->data_act_cnt
    is_read_all,    \* saving is refused
    refuseOut,      \* 30 s since refuse_time
    start_index, upload_len, remain_len,
    upload_bits,    \* offsets that need not be sent (any more)
    bits_index,
    state,          \* 1 while records are being sent
    baseOut,        \* 60 s since upload_base_time
    cfg_retry_cnt, finish_retry_cnt,
    asked,          \* offsets asked for and not sent yet
    hung,           \* the board is in a loop it does not leave
    commands        \* commands received so far

store   == <<last, held>>
refusal == <<is_read_all, refuseOut>>
window  == <<start_index, upload_len>>
sending == <<remain_len, upload_bits, bits_index, state>>
retries == <<cfg_retry_cnt, finish_retry_cnt>>
ghosts  == <<asked, hung>>
upVars  == <<store, refusal, window, sending, baseOut, retries, ghosts,
             commands>>

Smaller(a, b) == IF a < b THEN a ELSE b

upInit ==
    /\ last \in 0..Capacity /\ held = last
    /\ is_read_all = 0 /\ refuseOut = FALSE
    /\ start_index = 0 /\ upload_len = 0 /\ remain_len = 0
    /\ upload_bits = {} /\ bits_index = 0 /\ state = 0 /\ baseOut = FALSE
    /\ cfg_retry_cnt = 0 /\ finish_retry_cnt = 0
    /\ asked = {} /\ hung = FALSE /\ commands = 0
-----------------------------------------------------------------------------
(* A save by the recorder. *)
SaveOne ==
    /\ ~hung /\ is_read_all = 0 /\ last < MaxIndex
    /\ last' = last + 1
    /\ held' = Smaller(held + 1, Capacity)
    /\ UNCHANGED <<refusal, window, sending, baseOut, retries, ghosts, commands>>

Command ==
    /\ ~hung /\ commands < MaxCommands
    /\ commands' = commands + 1

(* bbox_upload_param_set: page_num pages back from the newest record; all  *)
(* records if the page is as large as the partition's content, but never   *)
(* more than BBOX_PAGE_SIZE_MAX.  A command in the middle of a session     *)
(* only has the session's window repeated.                                 *)
bbox_upload_param_set(page_size, page_num) ==
    /\ Command
    /\ IF remain_len # 0
       THEN UNCHANGED <<refusal, window, sending, baseOut, retries, ghosts>>
       ELSE LET whole == page_size >= held \/ page_num = 0
                back  == IF whole THEN held
                         ELSE Smaller(page_num * page_size, held)
                len   == IF whole THEN held ELSE Smaller(page_size, back)
                sent  == Smaller(len, BBOX_PAGE_SIZE_MAX)
            IN /\ start_index' = last - back
               /\ upload_len' = sent /\ remain_len' = sent
               /\ is_read_all' = IF len = held THEN 1 ELSE is_read_all
               /\ refuseOut' = (refuseOut /\ len # held)
               /\ cfg_retry_cnt' = 0 /\ finish_retry_cnt' = 0
               /\ baseOut' = FALSE /\ asked' = {}
               /\ UNCHANGED <<upload_bits, bits_index, state, hung>>
    /\ UNCHANGED store

(* Mutant: a second replenish command goes on where the first has ended. *)
ReplenishGoesOn(data_index, have) ==
    /\ Command
    /\ IF upload_len > 0 /\ state = 0
       THEN /\ upload_bits' = have /\ bits_index' = bits_index /\ state' = 1
            /\ remain_len' = upload_len
            /\ start_index' = data_index
            /\ refuseOut' = FALSE
            /\ hung' = (data_index < last - held)
            /\ asked' = (0..(upload_len - 1)) \ have
            /\ UNCHANGED <<is_read_all, upload_len, baseOut, retries>>
       ELSE UNCHANGED <<refusal, window, sending, baseOut, retries, ghosts>>
    /\ UNCHANGED store

(* bbox_record_replenish_data_act: the offsets in "have" are not wanted.   *)
(* When the first index is older than the oldest record the loop that      *)
(* marks the missing ones compares bits_index with a bound that grows with *)
(* it and does not end.                                                    *)
bbox_record_replenish_data_act(data_index, have) ==
    /\ Command
    /\ IF upload_len > 0 /\ state = 0
       THEN /\ upload_bits' = have /\ bits_index' = 0 /\ state' = 1
            /\ remain_len' = upload_len
            /\ start_index' = data_index
            /\ refuseOut' = FALSE
            /\ hung' = (data_index < last - held)
            /\ asked' = (0..(upload_len - 1)) \ have
            /\ UNCHANGED <<is_read_all, upload_len, baseOut, retries>>
       ELSE UNCHANGED <<refusal, window, sending, baseOut, retries, ghosts>>
    /\ UNCHANGED store

SessionCleared ==
    /\ start_index' = 0 /\ upload_len' = 0 /\ remain_len' = 0
    /\ upload_bits' = {} /\ bits_index' = 0 /\ state' = 0 /\ baseOut' = TRUE
    /\ cfg_retry_cnt' = 0 /\ finish_retry_cnt' = 0 /\ asked' = {}

(* bbox_record_cmd_act; the erase command forgets the records but leaves   *)
(* is_read_all as it is. *)
RecordStop ==
    /\ Command /\ SessionCleared
    /\ UNCHANGED <<store, refusal, hung>>
RecordErase ==
    /\ Command /\ SessionCleared
    /\ last' = 0 /\ held' = 0
    /\ UNCHANGED <<refusal, hung>>

(* bbox_config_upload_set, and bbox_finish_upload_set: query or stop. *)
bbox_config_upload_set ==
    /\ Command
    /\ cfg_retry_cnt' \in {0, UPLOAD_RETRY_COUNT}
    /\ UNCHANGED <<store, refusal, window, sending, baseOut, finish_retry_cnt,
                   ghosts>>
bbox_finish_upload_set ==
    /\ Command
    /\ finish_retry_cnt' \in {0, UPLOAD_RETRY_COUNT}
    /\ UNCHANGED <<store, refusal, window, sending, baseOut, cfg_retry_cnt,
                   ghosts>>
-----------------------------------------------------------------------------
(* __bbox_upload_handle, one branch each.  sent: the link took the frame.  *)
ConfigTick(sent) ==
    /\ ~hung /\ cfg_retry_cnt > 0
    /\ cfg_retry_cnt' = IF sent THEN cfg_retry_cnt - 1 ELSE cfg_retry_cnt
    /\ baseOut' = FALSE
    /\ UNCHANGED <<store, refusal, window, sending, finish_retry_cnt, ghosts,
                   commands>>

FinishTick(sent) ==
    /\ ~hung /\ cfg_retry_cnt = 0 /\ finish_retry_cnt > 0
    /\ finish_retry_cnt' = IF sent THEN finish_retry_cnt - 1
                           ELSE finish_retry_cnt
    /\ baseOut' = FALSE
    /\ UNCHANGED <<store, refusal, window, sending, cfg_retry_cnt, ghosts,
                   commands>>

(* The next offset that is wanted, upload_len when there is none. *)
NextWanted ==
    LET left == {o \in bits_index..(upload_len - 1) : o \notin upload_bits}
    IN IF left = {} THEN upload_len
       ELSE CHOOSE o \in left : \A p \in left : o <= p

SendTick(sent) ==
    /\ ~hung /\ cfg_retry_cnt = 0 /\ finish_retry_cnt = 0 /\ state = 1
    /\ baseOut' = FALSE
    /\ IF remain_len > 0 /\ NextWanted < upload_len
       THEN /\ IF sent
               THEN /\ upload_bits' = upload_bits \union {NextWanted}
                    /\ remain_len' = remain_len - 1
                    /\ bits_index' = NextWanted + 1
                    /\ refuseOut' = FALSE
                    /\ asked' = asked \ {NextWanted}
               ELSE /\ bits_index' = NextWanted
                    /\ UNCHANGED <<upload_bits, remain_len, refuseOut, asked>>
            /\ UNCHANGED <<state, finish_retry_cnt>>
       ELSE /\ state' = 0 /\ remain_len' = 0
            /\ bits_index' = IF remain_len > 0 /\ bits_index < upload_len
                             THEN upload_len ELSE bits_index
            /\ finish_retry_cnt' = UPLOAD_RETRY_COUNT
            /\ UNCHANGED <<upload_bits, refuseOut, asked>>
    /\ UNCHANGED <<store, is_read_all, window, cfg_retry_cnt, hung, commands>>

(* Mutant: the waiting starts again. *)
WaitsAgain ==
    /\ ~hung /\ cfg_retry_cnt = 0 /\ finish_retry_cnt = 0 /\ state = 0
    /\ remain_len > 0 /\ baseOut
    /\ baseOut' = FALSE
    /\ UNCHANGED <<store, refusal, window, sending, retries, ghosts, commands>>

(* The host never sent the replenish command. *)
GiveUpTick ==
    /\ ~hung /\ cfg_retry_cnt = 0 /\ finish_retry_cnt = 0 /\ state = 0
    /\ remain_len > 0 /\ baseOut
    /\ remain_len' = 0
    /\ UNCHANGED <<store, refusal, window, upload_bits, bits_index, state,
                   baseOut, retries, ghosts, commands>>

UploadTick(sent) ==
    ConfigTick(sent) \/ FinishTick(sent) \/ SendTick(sent) \/ GiveUpTick

(* __bbox_fsm_out_func: saving is allowed again. *)
ReadAllEnds ==
    /\ ~hung /\ is_read_all = 1 /\ refuseOut
    /\ is_read_all' = 0
    /\ UNCHANGED <<store, refuseOut, window, sending, baseOut, retries, ghosts,
                   commands>>

TimePasses ==
    /\ ~(refuseOut /\ baseOut)
    /\ refuseOut' \in {refuseOut, TRUE}
    /\ baseOut' = (baseOut \/ state = 0)
    /\ UNCHANGED <<store, is_read_all, window, sending, retries, ghosts,
                   commands>>

upNext ==
    \/ SaveOne
    \/ \E p \in PageSizes, n \in 0..2 : bbox_upload_param_set(p, n)
    \/ \E i \in 0..MaxIndex, have \in SUBSET (0..(upload_len - 1)) :
          bbox_record_replenish_data_act(i, have)
    \/ RecordStop \/ RecordErase
    \/ bbox_config_upload_set \/ bbox_finish_upload_set
    \/ \E sent \in BOOLEAN : UploadTick(sent)
    \/ ReadAllEnds \/ TimePasses

(* The task runs for ever, time passes, and the link takes a frame now and *)
(* then. *)
upFairness == WF_upVars(UploadTick(TRUE)) /\ WF_upVars(TimePasses)
upSpec == upInit /\ [][upNext]_upVars /\ upFairness
-----------------------------------------------------------------------------
(* The counters of a session stay in the window it was opened on.          *)
upTypeOK ==
    /\ last \in 0..MaxIndex /\ held \in 0..Capacity /\ held <= last
    /\ is_read_all \in {0, 1} /\ refuseOut \in BOOLEAN
    /\ start_index \in 0..MaxIndex /\ upload_len \in 0..Capacity
    /\ remain_len \in 0..upload_len
    /\ upload_bits \in SUBSET (0..(Capacity - 1))
    /\ bits_index \in 0..Capacity /\ state \in {0, 1} /\ baseOut \in BOOLEAN
    /\ {cfg_retry_cnt, finish_retry_cnt} \subseteq 0..UPLOAD_RETRY_COUNT
    /\ asked \in SUBSET (0..(Capacity - 1)) /\ hung \in BOOLEAN
    /\ commands \in 0..MaxCommands

(* A host that is told the upload has ended (bbox_ctrl.upload.finish) has  *)
(* been sent every record it asked for, whatever commands came in between. *)
EndAnnounced == finish_retry_cnt > 0 /\ ~(state = 1 /\ remain_len > 0)
EndIsTrue == EndAnnounced => asked = {}

(* A session ends, whether or not the host goes on with it, and the next   *)
(* read command is answered; unless a replenish command that started below *)
(* the oldest record has caught the board in a loop.                       *)
SessionEnds == remain_len > 0 ~> (remain_len = 0 \/ hung)
=============================================================================

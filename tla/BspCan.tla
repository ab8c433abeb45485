------------------------------- MODULE BspCan -------------------------------
(* The transmit side of the CAN driver bsp_can.c: bsp_can_s_send_pack and   *)
(* bsp_can_time_task in the main loop, the CAN interrupt that may come      *)
(* between any two of their steps, the ring (BkFifo) and the is_sending     *)
(* flag they share without a lock, and the controller's transmit buffer.    *)
(* Frames are numbered in the order the program hands them over.            *)
EXTENDS BkFifo, FiniteSets, Sequences

CONSTANTS
    MaxFrames,      \* frames the program sends in a behaviour
    Invalid,        \* frames with a bad length or identifier
    MaxRetrain,     \* BSP_CAN_MAX_RETRAIN
    MaxDrops,       \* frames the bus may lose in a behaviour
    IrqInEnqueue,   \* the interrupt may come inside bkfifo_en
    BusPrompt       \* a frame is out within TX_IRQ_TIMEOUT_MS, or lost

Frames == 1..MaxFrames

(* A call dequeues at most a ringful, which the 100 rounds of the loop in  *)
(* bsp_can_transmit_fifo_message allow for.                                *)
ASSUME FramesAssumption ==
    /\ MaxFrames \in Nat \ {0}
    /\ Invalid \subseteq Frames
    /\ MaxMsgNum <= 100
    /\ NoMsg \notin Frames
    /\ MaxRetrain \in Nat /\ MaxDrops \in Nat
    /\ IrqInEnqueue \in BOOLEAN /\ BusPrompt \in BOOLEAN

VARIABLES
    fifo,           \* p_s_bkfifo
    is_sending,
    tx_msg,         \* the frame last put into the controller
    retrain,        \* retrain_cnt_all
    pc,             \* where the main loop is, "idle" outside the driver
    direct,         \* its call saw is_sending clear
    pack,           \* its local copy of a dequeued frame
    hw,             \* the controller's transmit buffer, NoMsg when free
    given,          \* frames handed over so far
    accepted,       \* those that were queued
    sent,           \* those that were on the bus
    last,           \* the latest one on the bus
    dropped         \* those the bus lost

driver == <<fifo, is_sending, tx_msg, retrain>>
main   == <<pc, direct, pack>>
bus    == <<given, accepted, sent, last, dropped>>
vars   == <<driver, main, hw, bus>>
-----------------------------------------------------------------------------
Points == {"idle", "test", "push", "overrun", "full", "look", "read", "step",
           "load", "flag", "resend"}

(* Type correctness. *)
TypeOK ==
    /\ fifo \in Fifo(Frames)
    /\ is_sending \in BOOLEAN
    /\ tx_msg \in Frames \cup {NoMsg}
    /\ retrain \in 0..MaxRetrain
    /\ pc \in Points
    /\ direct \in BOOLEAN
    /\ pack \in Frames \cup {NoMsg}
    /\ hw \in Frames \cup {NoMsg}
    /\ given \in 0..MaxFrames
    /\ accepted \in SUBSET (1..given) /\ sent \in SUBSET accepted
    /\ last \in sent \cup {0}
    /\ dropped \in SUBSET accepted
-----------------------------------------------------------------------------
(* bsp_can_s_send_pack *)

Send ==
    /\ pc = "idle"
    /\ given < MaxFrames
    /\ given' = given + 1
    /\ pc' = "test"
    /\ UNCHANGED <<driver, direct, pack, hw, accepted, sent, last, dropped>>

TestSending ==
    /\ pc = "test"
    /\ direct' = ~is_sending
    /\ pc' = "push"
    /\ UNCHANGED <<driver, pack, hw, bus>>

(* Mutant: frames are queued without asking bkfifo_is_full. *)
PushUnchecked ==
    /\ pc = "push"
    /\ fifo' = bkfifo_en_store(fifo, given)
    /\ accepted' = accepted \cup {given}
    /\ pc' = "overrun"
    /\ UNCHANGED <<is_sending, tx_msg, retrain, direct, pack, hw, given, sent,
                   last, dropped>>

(* bsp_can_push_to_tx_fifo *)
Push ==
    /\ pc = "push"
    /\ IF bkfifo_is_full(fifo)
       THEN pc' = "full" /\ UNCHANGED <<fifo, accepted>>
       ELSE /\ fifo' = bkfifo_en_store(fifo, given)
            /\ accepted' = accepted \cup {given}
            /\ pc' = "overrun"
    /\ UNCHANGED <<is_sending, tx_msg, retrain, direct, pack, hw, given, sent,
                   last, dropped>>

Pushed ==
    /\ pc \in {"overrun", "full"}
    /\ fifo' = IF pc = "overrun" THEN bkfifo_en_overrun(fifo) ELSE fifo
    /\ pc' = IF direct THEN "look" ELSE "idle"
    /\ UNCHANGED <<is_sending, tx_msg, retrain, direct, pack, hw, bus>>

(* bsp_can_transmit_fifo_message, called from the main loop: look, read,   *)
(* step, load; invalid frames are passed over.                             *)
Look ==
    /\ pc = "look"
    /\ IF bkfifo_is_empty(fifo)
       THEN is_sending' = FALSE /\ pc' = "idle"
       ELSE pc' = "read" /\ UNCHANGED is_sending
    /\ UNCHANGED <<fifo, tx_msg, retrain, direct, pack, hw, bus>>

Read ==
    /\ pc = "read"
    /\ pack' = bkfifo_de_read(fifo)
    /\ pc' = "step"
    /\ UNCHANGED <<driver, direct, hw, bus>>

Step ==
    /\ pc = "step"
    /\ fifo' = bkfifo_de_step(fifo)
    /\ pc' = "load"
    /\ UNCHANGED <<is_sending, tx_msg, retrain, direct, pack, hw, bus>>

Load ==
    /\ pc = "load"
    /\ tx_msg' = pack
    /\ IF pack \in Invalid
       THEN pc' = "look" /\ UNCHANGED hw
       ELSE hw' = pack /\ pc' = (IF direct THEN "flag" ELSE "idle")
    /\ UNCHANGED <<fifo, is_sending, retrain, direct, pack, bus>>

(* Only now is the flag set. *)
Flag ==
    /\ pc = "flag"
    /\ is_sending' = TRUE
    /\ pc' = "idle"
    /\ UNCHANGED <<fifo, tx_msg, retrain, direct, pack, hw, bus>>
-----------------------------------------------------------------------------
(* bsp_can_time_task: no transmit interrupt for TX_IRQ_TIMEOUT_MS although *)
(* is_sending is set.  (is_time_delay is never set.)                       *)
Timeout ==
    /\ pc = "idle"
    /\ is_sending
    /\ BusPrompt => hw = NoMsg
    /\ pc' = "resend"
    /\ UNCHANGED <<driver, direct, pack, hw, bus>>

(* Mutant: after BSP_CAN_MAX_RETRAIN repetitions nothing more is done. *)
RetrainStops ==
    /\ pc = "resend"
    /\ IF retrain < MaxRetrain
       THEN hw' = tx_msg /\ retrain' = retrain + 1
       ELSE UNCHANGED <<hw, retrain>>
    /\ pc' = "idle"
    /\ UNCHANGED <<fifo, is_sending, tx_msg, direct, pack, bus>>

(* bsp_can_retrain_send; the total is not reset by a success.  The frame   *)
(* goes out as one of type 1, whatever it was queued as: frames are told   *)
(* apart by what they carry, and their types are left out.                 *)
RetrainSend ==
    /\ pc = "resend"
    /\ IF retrain < MaxRetrain
       THEN hw' = tx_msg /\ retrain' = retrain + 1 /\ pc' = "idle"
            /\ UNCHANGED direct
       ELSE retrain' = 0 /\ direct' = FALSE /\ pc' = "look" /\ UNCHANGED hw
    /\ UNCHANGED <<fifo, is_sending, tx_msg, pack, bus>>
-----------------------------------------------------------------------------
(* The frames in the ring, oldest first, and the invalid ones in front.     *)
Queued(f) ==
    LET n == (f.en - f.de) % MaxMsgNum
    IN  [i \in 1..n |->
            bkfifo_de_read([f EXCEPT !.de = IF i = 1 THEN @
                                            ELSE (@ + i - 1) % MaxMsgNum])]
Skipped(f) ==
    CHOOSE n \in 0..Len(Queued(f)) :
        /\ \A i \in 1..n : Queued(f)[i] \in Invalid
        /\ n + 1 \in DOMAIN Queued(f) => Queued(f)[n + 1] \notin Invalid

(* Mutant: the frame loaded is not remembered for a repetition. *)
IrqForgetsFrame ==
    LET n == Skipped(fifo)
    IN  /\ tx_msg' = tx_msg
        /\ IF n = Len(Queued(fifo))
           THEN /\ is_sending' = FALSE
                /\ hw' = NoMsg
                /\ fifo' = [fifo EXCEPT !.de = fifo.en]
           ELSE /\ hw' = Queued(fifo)[n + 1]
                /\ fifo' = [fifo EXCEPT !.de = (@ + n + 1) % MaxMsgNum]
                /\ UNCHANGED is_sending

(* Mutant: the interrupt clears the flag and leaves the ring alone. *)
IrqLeavesRing ==
    /\ is_sending' = FALSE
    /\ hw' = NoMsg
    /\ UNCHANGED <<fifo, tx_msg>>

(* bsp_can_irq_action when a frame is out: it runs to its end, dequeuing   *)
(* past invalid frames, unless it finds the ring empty.                    *)
IrqTransmit ==
    LET n == Skipped(fifo)
    IN  IF n = Len(Queued(fifo))
        THEN /\ is_sending' = FALSE
             /\ hw' = NoMsg
             /\ fifo' = [fifo EXCEPT !.de = fifo.en]
             /\ tx_msg' = IF n = 0 THEN tx_msg ELSE Queued(fifo)[n]
        ELSE /\ hw' = Queued(fifo)[n + 1]
             /\ tx_msg' = Queued(fifo)[n + 1]
             /\ fifo' = [fifo EXCEPT !.de = (@ + n + 1) % MaxMsgNum]
             /\ UNCHANGED is_sending

Irq ==
    /\ hw # NoMsg
    /\ pc = "overrun" => IrqInEnqueue
    /\ sent' = sent \cup {hw}
    /\ last' = hw
    /\ IrqTransmit
    /\ UNCHANGED <<retrain, main, given, accepted, dropped>>

(* No interrupt comes: the bus loses the frame, or the interrupt's last    *)
(* line clears the flag of one that went out meanwhile.                    *)
BusDrop ==
    /\ hw # NoMsg
    /\ Cardinality(dropped) < MaxDrops
    /\ dropped' = dropped \cup {hw}
    /\ hw' = NoMsg
    /\ UNCHANGED <<driver, main, given, accepted, sent, last>>
-----------------------------------------------------------------------------
Init ==
    /\ fifo = EmptyFifo
    /\ is_sending = FALSE
    /\ tx_msg = NoMsg
    /\ retrain = 0
    /\ pc = "idle"
    /\ direct = FALSE
    /\ pack = NoMsg
    /\ hw = NoMsg
    /\ given = 0
    /\ accepted = {} /\ sent = {} /\ last = 0 /\ dropped = {}

(* The main loop inside a call of the driver, and its periodic task. *)
Driver == \/ TestSending \/ Push \/ Pushed \/ Look \/ Read \/ Step \/ Load
          \/ Flag \/ RetrainSend

Next == Send \/ Driver \/ Timeout \/ Irq \/ BusDrop

Spec == Init /\ [][Next]_vars
(* The loop goes on and calls its tasks; the controller sends or fails.    *)
FairSpec == /\ Spec
            /\ WF_vars(Driver) /\ WF_vars(Timeout) /\ WF_vars(Irq \/ BusDrop)
-----------------------------------------------------------------------------
(* Properties *)

(* bkfifo_is_empty: "true: empty, false: not empty".  Between operations    *)
(* of the main loop, the ring holds the accepted frames that neither the    *)
(* loop nor the interrupt has taken yet, in order, and nothing else.        *)
RingHolds(frames) ==
    LET q == Queued(fifo)
    IN  /\ Len(q) = Cardinality(frames)
        /\ \A i \in DOMAIN q : q[i] \in frames
        /\ \A i, j \in DOMAIN q : i < j => q[i] < q[j]
Waiting == {m \in accepted : tx_msg = NoMsg \/ m > tx_msg}
RingIsWaiting == pc = "idle" => RingHolds(Waiting)

(* No stale frame: once a frame was on the bus, no earlier one follows.     *)
InOrder == [][last' >= last]_vars

(* No frame is passed over but an invalid one or one the bus lost.          *)
NoneSkipped ==
    \A m \in accepted \ Invalid : m < last => m \in sent \cup dropped

(* The flag set with nothing under way is noticed: bsp_can_time_task is     *)
(* there "against abnormal states", and repeats a frame or goes on.         *)
StuckFlagRecovers ==
    is_sending /\ hw = NoMsg ~> ~is_sending \/ hw # NoMsg

(* Every queued frame but the latest gets onto the bus: if the interrupt    *)
(* clears is_sending between its test and the push, the frame waits for     *)
(* the next call of bsp_can_s_send_pack.                                    *)
AllButTheLatest ==
    \A m \in Frames \ Invalid :
        m \in accepted /\ (\E n \in accepted : n > m) ~> m \in sent \cup dropped
=============================================================================

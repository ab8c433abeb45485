----------------------------- MODULE MCBlackBox -----------------------------
(* What a board records for its host: the four parts of the black box, the *)
(* log with the push group that sends it, which has one other item before  *)
(* it, and the energy of the days of a week.  The parts meet only in what  *)
(* their models already leave open (when a record is saved, when saving is *)
(* refused) and share no variable, so each behaviour of the run is one of  *)
(* one part: TLC sees the sum of their state spaces, not the product.      *)
EXTENDS BlackBox, BlackBoxUpload, BlackBoxStates, BlackBoxRecording, LogPush,
        WattStatistics

CONSTANTS log, other

mItems == {log, other}
mPriority == [i \in mItems |-> IF i = other THEN 0 ELSE 1]
mInterval == [i \in mItems |-> IF i = other THEN 2 ELSE 1]

VARIABLE part

mcVars == <<part, bbVars, upVars, stVars, rcVars, logVars, wsVars>>

MCInit ==
    /\ part \in {"store", "upload", "states", "recording", "log", "watt"}
    /\ bbInit /\ upInit /\ stInit /\ rcInit /\ logInit /\ wsInit
    /\ part = "upload" \/ last = 0

MCNext ==
    /\ UNCHANGED part
    /\ \/ part = "store" /\ bbNext /\ UNCHANGED <<upVars, stVars, rcVars, logVars, wsVars>>
       \/ part = "upload" /\ upNext /\ UNCHANGED <<bbVars, stVars, rcVars, logVars, wsVars>>
       \/ part = "states" /\ stNext /\ UNCHANGED <<bbVars, upVars, rcVars, logVars, wsVars>>
       \/ part = "recording" /\ rcNext /\ UNCHANGED <<bbVars, upVars, stVars, logVars, wsVars>>
       \/ part = "log" /\ logNext /\ UNCHANGED <<bbVars, upVars, stVars, rcVars, wsVars>>
       \/ part = "watt" /\ wsNext /\ UNCHANGED <<bbVars, upVars, stVars, rcVars, logVars>>

(* upFairness, stFairness and logFairness, each for the behaviours of its  *)
(* part. *)
MCSpec ==
    /\ MCInit /\ [][MCNext]_mcVars
    /\ WF_upVars(part = "upload" /\ UploadTick(TRUE))
    /\ WF_upVars(part = "upload" /\ TimePasses)
    /\ WF_stVars(part = "states" /\ \E execDue \in BOOLEAN : Task(TRUE, execDue))
    /\ WF_stVars(part = "states" /\ \E inDue \in BOOLEAN : Task(inDue, TRUE))
    /\ WF_logVars(part = "log" /\ PushTask(TRUE))
    /\ WF_logVars(part = "log" /\ FrameArrives)
    /\ WF_logVars(part = "log" /\ AckArrives)

(* The types of the parts. *)
RecordsTypeOK == bbTypeOK /\ upTypeOK /\ stTypeOK /\ rcTypeOK /\ logTypeOK /\ wsTypeOK
=============================================================================

------------------------- MODULE BlackBoxRecording -------------------------
(* Recording around an event (bbox_data_record, bbox_recorded_data_save    *)
(* and the task in xf_bbox.c): samples go to the head ring until the       *)
(* application asks for the recording to be saved, then to the tail ring   *)
(* until it is full, and the task saves both.                              *)
EXTENDS BlackBoxRings

CONSTANTS
    Before,         \* head_cnt: samples kept from before the event
    After,          \* tail_cnt: samples to be taken after it
    MaxTaken        \* bound: samples taken

(* Both rings are used: the branches for a ring of no samples (head_cnt = 0 *)
(* or tail_cnt = 0) are left out.                                          *)
ASSUME RecordingSizes ==
    Before \in Nat \ {0} /\ After \in Nat \ {0} /\ MaxTaken \in Nat

VARIABLES
    rec,            \* the rings
    taken,          \* number of the newest sample
    busy,           \* is_read_all of the partition
    event,          \* samples taken when the saving was asked for
    refusedOnce,    \* the recording was complete and its saving refused
    recording       \* what was saved last

rcVars == <<rec, taken, busy, event, refusedOnce, recording>>

rcInit ==
    /\ rec = EmptyRings(Before, After)
    /\ taken = 0 /\ busy = FALSE /\ event = 0
    /\ refusedOnce = FALSE /\ recording = << >>

bbox_data_record ==
    /\ rec.read_finish = 0 /\ taken < MaxTaken
    /\ taken' = taken + 1
    /\ rec' = IF rec.read_tail = 0
              THEN record_head_data_get(rec, Before, taken + 1)
              ELSE LET p == record_tail_data_get(rec, Before, After, taken + 1)
                   IN [p EXCEPT !.read_finish =
                         IF p.tail_read_cnt = After THEN 1 ELSE @]
    /\ UNCHANGED <<busy, event, refusedOnce, recording>>

bbox_recorded_data_save ==
    /\ rec.read_finish = 0 /\ rec.read_tail = 0
    /\ rec' = [rec EXCEPT !.read_tail = 1]
    /\ event' = taken
    /\ UNCHANGED <<taken, busy, refusedOnce, recording>>

(* __bbox_fsm_in_func; a refused recording goes on being read. *)
SaveRecording ==
    /\ rec.read_finish = 1
    /\ LET p == IF busy THEN rec ELSE AfterSaveAll(rec)
       IN rec' = [p EXCEPT !.read_finish = 0]
    /\ refusedOnce' = busy
    /\ recording' = IF busy THEN recording
                    ELSE SavedHead(rec, Before) \o SavedTail(rec, Before, After)
    /\ UNCHANGED <<taken, busy, event>>

PartitionRead ==
    /\ busy' = ~busy
    /\ UNCHANGED <<rec, taken, event, refusedOnce, recording>>

rcNext == \/ bbox_data_record \/ bbox_recorded_data_save
          \/ SaveRecording \/ PartitionRead

rcSpec == rcInit /\ [][rcNext]_rcVars
-----------------------------------------------------------------------------
rcTypeOK ==
    /\ rec \in Rings(Before, After, 0..MaxTaken)
    /\ {taken, event} \subseteq 0..MaxTaken
    /\ {busy, refusedOnce} \subseteq BOOLEAN
    /\ recording \in Seq(0..MaxTaken)

(* A recording is what the header promises (xf_bbox.h, the example of      *)
(* bbox_recorded_data_save): the samples on both sides of the event, one   *)
(* after the other without a gap, After of them behind it; whatever laps   *)
(* the rings have made.  A recording whose saving was refused once has     *)
(* lost the first ones behind the event, but never has one twice.          *)
RecordingComplete ==
    [][recording' # recording =>
         LET n == Len(recording') - After
         IN /\ n \in 0..Before
            /\ \A i \in 1..n : recording'[i] = event - n + i
            /\ \A i \in 1..After : recording'[n + i] = taken - After + i
            /\ (~refusedOnce => taken = event + After)]_rcVars
=============================================================================

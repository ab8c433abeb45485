--------------------------- MODULE BlackBoxProofs ---------------------------
(* What holds of the recorder for rings of any size, a partition of any    *)
(* size and any sequence of samples, reports and commands: the rings of    *)
(* samples, recording around an event, the recorder's states, an upload,   *)
(* and the store.                                                          *)
EXTENDS BlackBox, BlackBoxUpload, BlackBoxRecording, BlackBoxStates, Arithmetic,
        FiniteSetTheorems, SequenceTheorems, TLAPS

(* The rings *)

(* What a sample for the head ring changes, field by field. *)
HeadTakes(p, q, h, s) ==
    /\ q.buf = [p.buf EXCEPT ![p.head_read_index] = s]
    /\ q.head_read_index = (p.head_read_index + 1) % h
    /\ q.head_read_cnt =
         IF p.head_read_cnt < h THEN p.head_read_cnt + 1 ELSE p.head_read_cnt
    /\ q.tail_read_index = p.tail_read_index
    /\ q.tail_read_cnt = p.tail_read_cnt
    /\ q.read_tail = p.read_tail /\ q.read_finish = p.read_finish

LEMMA HeadGet ==
    ASSUME NEW h \in Nat \ {0}, NEW t \in Nat \ {0}, NEW Sample,
           NEW p \in Rings(h, t, Sample), NEW s \in Sample,
           NEW q, q = record_head_data_get(p, h, s)
    PROVE  q \in Rings(h, t, Sample) /\ HeadTakes(p, q, h, s)
<1> DEFINE b == [p.buf EXCEPT ![p.head_read_index] = s]
           i == (p.head_read_index + 1) % h
           n == IF p.head_read_cnt < h
                THEN p.head_read_cnt + 1 ELSE p.head_read_cnt
<1>1. /\ p.head_read_index \in 0..(h - 1) /\ p.head_read_cnt \in 0..h
      /\ p.buf \in [0..(h + t - 1) -> Sample]
  BY DEF Rings
<1>2. b \in [0..(h + t - 1) -> Sample] /\ i \in 0..(h - 1) /\ n \in 0..h
  <2>1. b \in [0..(h + t - 1) -> Sample]
    BY <1>1
  <2>2. i \in 0..(h - 1)
    BY <1>1, IndexStep
  <2>3. n \in 0..h
    BY <1>1
  <2> QED BY <2>1, <2>2, <2>3
<1>3. q = [p EXCEPT !.buf = b, !.head_read_index = i, !.head_read_cnt = n]
  BY DEF record_head_data_get, UpTo, Rings
<1> HIDE DEF b, i, n
<1>4. [p EXCEPT !.buf = b, !.head_read_index = i, !.head_read_cnt = n]
        \in Rings(h, t, Sample)
  BY <1>2 DEF Rings
<1>5. /\ q.buf = b /\ q.head_read_index = i /\ q.head_read_cnt = n
      /\ q.tail_read_index = p.tail_read_index
      /\ q.tail_read_cnt = p.tail_read_cnt
      /\ q.read_tail = p.read_tail /\ q.read_finish = p.read_finish
  BY <1>3 DEF Rings
<1> QED BY <1>3, <1>4, <1>5 DEF b, i, n, HeadTakes

(* What a sample for the tail ring changes, field by field. *)
TailTakes(p, q, h, t, s) ==
    /\ q.buf = [p.buf EXCEPT ![h + p.tail_read_index] = s]
    /\ q.tail_read_index = (p.tail_read_index + 1) % t
    /\ q.tail_read_cnt =
         IF p.tail_read_cnt < t THEN p.tail_read_cnt + 1 ELSE p.tail_read_cnt
    /\ q.head_read_index = p.head_read_index
    /\ q.head_read_cnt = p.head_read_cnt
    /\ q.read_tail = p.read_tail /\ q.read_finish = p.read_finish

LEMMA TailGet ==
    ASSUME NEW h \in Nat \ {0}, NEW t \in Nat \ {0}, NEW Sample,
           NEW p \in Rings(h, t, Sample), NEW s \in Sample,
           NEW q, q = record_tail_data_get(p, h, t, s)
    PROVE  q \in Rings(h, t, Sample) /\ TailTakes(p, q, h, t, s)
<1> DEFINE b == [p.buf EXCEPT ![h + p.tail_read_index] = s]
           i == (p.tail_read_index + 1) % t
           n == IF p.tail_read_cnt < t
                THEN p.tail_read_cnt + 1 ELSE p.tail_read_cnt
<1>1. /\ p.tail_read_index \in 0..(t - 1) /\ p.tail_read_cnt \in 0..t
      /\ p.buf \in [0..(h + t - 1) -> Sample]
  BY DEF Rings
<1>2. b \in [0..(h + t - 1) -> Sample] /\ i \in 0..(t - 1) /\ n \in 0..t
  <2>1. b \in [0..(h + t - 1) -> Sample]
    BY <1>1
  <2>2. i \in 0..(t - 1)
    BY <1>1, IndexStep
  <2>3. n \in 0..t
    BY <1>1
  <2> QED BY <2>1, <2>2, <2>3
<1>3. q = [p EXCEPT !.buf = b, !.tail_read_index = i, !.tail_read_cnt = n]
  BY DEF record_tail_data_get, UpTo, Rings
<1> HIDE DEF b, i, n
<1>4. [p EXCEPT !.buf = b, !.tail_read_index = i, !.tail_read_cnt = n]
        \in Rings(h, t, Sample)
  BY <1>2 DEF Rings
<1>5. /\ q.buf = b /\ q.tail_read_index = i /\ q.tail_read_cnt = n
      /\ q.head_read_index = p.head_read_index
      /\ q.head_read_cnt = p.head_read_cnt
      /\ q.read_tail = p.read_tail /\ q.read_finish = p.read_finish
  BY <1>3 DEF Rings
<1> QED BY <1>3, <1>4, <1>5 DEF b, i, n, TailTakes

(* A function on 1..n is a sequence of n elements. *)
LEMMA FunctionSeq ==
    ASSUME NEW S, NEW n \in Nat, NEW f \in [1..n -> S]
    PROVE  f \in Seq(S) /\ Len(f) = n
<1>1. f \in Seq(S)
  BY SeqDef
<1>2. Len(f) \in Nat /\ DOMAIN f = 1..Len(f)
  BY <1>1, LenProperties
<1>3. 1..n = 1..Len(f)
  BY <1>2
<1> QED BY <1>1, <1>2, <1>3
-----------------------------------------------------------------------------
(* Recording around an event *)

(* A ring of c places from `at' on in a buffer: the last n of them hold    *)
(* the samples up to `newest'.                                             *)
RingHolds(f, at, c, i, n, newest) ==
    \A k \in 1..n : f[at + ((i + c - k) % c)] = newest + 1 - k

(* Another sample, and the ring holds one more, if it was not full. *)
LEMMA RingGains ==
    ASSUME NEW c \in Nat \ {0}, NEW at \in Nat, NEW D, NEW Sample,
           NEW f \in [D -> Sample], at..(at + c - 1) \subseteq D,
           NEW i \in 0..(c - 1), NEW n \in 0..c, NEW newest \in Int,
           RingHolds(f, at, c, i, n, newest)
    PROVE  RingHolds([f EXCEPT ![at + i] = newest + 1], at, c, (i + 1) % c,
                     IF n < c THEN n + 1 ELSE n, newest + 1)
<1> DEFINE g == [f EXCEPT ![at + i] = newest + 1]
           j == (i + 1) % c
           m == IF n < c THEN n + 1 ELSE n
<1> SUFFICES ASSUME NEW k \in 1..m
             PROVE  g[at + ((j + c - k) % c)] = newest + 1 + 1 - k
  BY DEF RingHolds
<1>0. at + i \in D
  OBVIOUS
<1>1. CASE k = 1
  <2>1. (j + c - k) % c = i
    BY <1>1, IndexStep
  <2> QED BY <1>0, <1>1, <2>1
<1>2. CASE k # 1
  <2>1. PICK l \in Int : l = k - 1
    OBVIOUS
  <2>2. m \in Int /\ m <= n + 1 /\ m <= c
    OBVIOUS
  <2>3. l \in 1..n /\ l \in 1..(c - 1) /\ k = l + 1
    BY <1>2, <2>1, <2>2
  <2>4. /\ (j + c - (l + 1)) % c = (i + c - l) % c
        /\ (i + c - l) % c \in 0..(c - 1)
        /\ (i + c - l) % c # i
    BY <2>3, IndexStep
  <2>5. PICK h \in 0..(c - 1) : h = (i + c - l) % c
    BY <2>4
  <2>6. at + h \in D /\ at + h # at + i
    BY <2>4, <2>5
  <2>7. g[at + h] = f[at + h]
    BY <2>6
  <2>8. f[at + h] = newest + 1 - l
    BY <2>3, <2>5 DEF RingHolds
  <2>9. (j + c - k) % c = h
    BY <2>3, <2>4, <2>5
  <2>10. newest + 1 - l = newest + 1 + 1 - k
    BY <2>3
  <2> QED BY <2>7, <2>8, <2>9, <2>10
<1> QED BY <1>1, <1>2


-----------------------------------------------------------------------------
(* The rings field by field: the provers reason about these names, not     *)
(* about the record.                                                       *)
Buf       == rec.buf
HeadIndex == rec.head_read_index
HeadCount == rec.head_read_cnt
TailIndex == rec.tail_read_index
TailCount == rec.tail_read_cnt
ReadTail      == rec.read_tail
ReadFinish    == rec.read_finish

(* The head ring ends at the event, once there is one. *)
HeadEnd == IF ReadTail = 0 THEN taken ELSE event

RecordingFields ==
    /\ HeadIndex \in 0..(Before - 1) /\ HeadCount \in 0..Before
    /\ TailIndex \in 0..(After - 1) /\ TailCount \in 0..After
    /\ ReadTail \in {0, 1} /\ ReadFinish \in {0, 1}
RecordingNumbers == taken \in 0..MaxTaken /\ event \in 0..MaxTaken
RecordingFlags == busy \in BOOLEAN /\ refusedOnce \in BOOLEAN

(* The head ring holds the last samples up to the event, the tail ring     *)
(* the last of all.                                                        *)
HeadHolds == RingHolds(Buf, 0, Before, HeadIndex, HeadCount, HeadEnd)
TailHolds == RingHolds(Buf, Before, After, TailIndex, TailCount, taken)

(* The tail ring is used behind an event only; it counts the samples since *)
(* as long as the saving was not refused.                                  *)
Phase ==
    /\ ReadTail = 0 => TailCount = 0 /\ ReadFinish = 0 /\ ~refusedOnce
    /\ ReadFinish = 1 => TailCount = After
    /\ ReadTail = 1 /\ ~refusedOnce =>
          /\ taken = event + TailCount
          /\ TailCount = After => ReadFinish = 1

RecordingInv ==
    /\ rec \in Rings(Before, After, 0..MaxTaken)
    /\ RecordingNumbers /\ RecordingFlags
    /\ HeadHolds /\ TailHolds /\ Phase

LEMMA SizesAre ==
    Before \in Nat \ {0} /\ After \in Nat \ {0} /\ MaxTaken \in Nat
BY RecordingSizes

LEMMA RecordingTypes ==
    ASSUME rec \in Rings(Before, After, 0..MaxTaken)
    PROVE  /\ RecordingFields
           /\ Buf \in [0..(Before + After - 1) -> 0..MaxTaken]
<1>1. RecordingFields
  BY DEF Rings, RecordingFields, HeadIndex, HeadCount, TailIndex, TailCount,
     ReadTail, ReadFinish
<1>2. Buf \in [0..(Before + After - 1) -> 0..MaxTaken]
  BY DEF Rings, Buf
<1> QED BY <1>1, <1>2

LEMMA RecordingInit == rcInit => RecordingInv
<1> SUFFICES ASSUME rcInit PROVE RecordingInv
  OBVIOUS
<1>1. rec \in Rings(Before, After, 0..MaxTaken)
  <2>1. [i \in 0..(Before + After - 1) |-> 0]
          \in [0..(Before + After - 1) -> 0..MaxTaken]
    BY SizesAre
  <2>2. 0 \in 0..(Before - 1) /\ 0 \in 0..Before
        /\ 0 \in 0..(After - 1) /\ 0 \in 0..After
    BY SizesAre
  <2> QED BY <2>1, <2>2 DEF rcInit, EmptyRings, Rings
<1>2. HeadCount = 0 /\ TailCount = 0 /\ ReadTail = 0 /\ ReadFinish = 0
  BY DEF rcInit, EmptyRings, HeadCount, TailCount, ReadTail, ReadFinish
<1>3. RecordingNumbers /\ RecordingFlags
  <2>1. RecordingNumbers
    BY SizesAre DEF rcInit, RecordingNumbers
  <2>2. RecordingFlags
    BY DEF rcInit, RecordingFlags
  <2> QED BY <2>1, <2>2
<1>4. HeadHolds /\ TailHolds
  BY <1>2 DEF HeadHolds, TailHolds, RingHolds
<1>5. Phase
  BY <1>2 DEF Phase, rcInit
<1> QED BY <1>1, <1>3, <1>4, <1>5 DEF RecordingInv

(* A sample goes to the head ring. *)
LEMMA HeadSample ==
    ASSUME RecordingInv, bbox_data_record, rec.read_tail = 0
    PROVE  RecordingInv'
<1>0. /\ taken' = taken + 1
      /\ event' = event /\ busy' = busy /\ refusedOnce' = refusedOnce
      /\ taken \in Int /\ taken + 1 \in 0..MaxTaken /\ event \in 0..MaxTaken
  BY SizesAre DEF RecordingInv, RecordingNumbers, bbox_data_record
<1>1. /\ rec' \in Rings(Before, After, 0..MaxTaken)
      /\ Buf' = [Buf EXCEPT ![HeadIndex] = taken + 1]
      /\ HeadIndex' = (HeadIndex + 1) % Before
      /\ HeadCount' = IF HeadCount < Before THEN HeadCount + 1 ELSE HeadCount
      /\ TailIndex' = TailIndex /\ TailCount' = TailCount
      /\ ReadTail' = ReadTail /\ ReadFinish' = ReadFinish
  <2>1. rec' = record_head_data_get(rec, Before, taken + 1)
    BY DEF bbox_data_record
  <2>2. rec \in Rings(Before, After, 0..MaxTaken)
    BY DEF RecordingInv
  <2>3. taken + 1 \in 0..MaxTaken
    BY <1>0
  <2>4. /\ rec' \in Rings(Before, After, 0..MaxTaken)
        /\ HeadTakes(rec, rec', Before, taken + 1)
    BY <2>1, <2>2, <2>3, SizesAre, HeadGet, Zenon
  <2> QED BY <2>4, Zenon
          DEF HeadTakes, Buf, HeadIndex, HeadCount, TailIndex, TailCount,
              ReadTail, ReadFinish
<1>2. /\ RecordingFields /\ ReadTail = 0
      /\ Buf \in [0..(Before + After - 1) -> 0..MaxTaken]
  BY RecordingTypes DEF RecordingInv, ReadTail
<1>3. HeadHolds'
  <2>1. /\ Before \in Nat \ {0} /\ 0 \in Nat
        /\ 0..(0 + Before - 1) \subseteq 0..(Before + After - 1)
        /\ HeadIndex \in 0..(Before - 1) /\ HeadCount \in 0..Before
        /\ 0 + HeadIndex = HeadIndex
    BY SizesAre, <1>2 DEF RecordingFields
  <2>2. RingHolds(Buf, 0, Before, HeadIndex, HeadCount, taken)
    BY <1>2 DEF RecordingInv, HeadHolds, HeadEnd
  <2>3. Buf' = [Buf EXCEPT ![0 + HeadIndex] = taken + 1]
    BY <1>1, <2>1
  <2>4. RingHolds([Buf EXCEPT ![0 + HeadIndex] = taken + 1], 0, Before,
                  (HeadIndex + 1) % Before,
                  IF HeadCount < Before THEN HeadCount + 1 ELSE HeadCount,
                  taken + 1)
    <3>1. taken \in Int
      BY <1>0
    <3> QED BY <1>2, <2>1, <2>2, <3>1, RingGains, Zenon
  <2>5. HeadEnd' = taken + 1
    BY <1>0, <1>1, <1>2 DEF HeadEnd
  <2> QED BY <1>1, <2>3, <2>4, <2>5 DEF HeadHolds
<1>4. TailHolds' /\ Phase'
  <2>1. TailCount' = 0 /\ ReadTail' = 0 /\ ReadFinish' = 0 /\ ~refusedOnce'
    BY <1>0, <1>1, <1>2 DEF RecordingInv, Phase
  <2> QED BY <2>1, SizesAre DEF TailHolds, RingHolds, Phase
<1>5. RecordingNumbers' /\ RecordingFlags'
  BY <1>0 DEF RecordingInv, RecordingNumbers, RecordingFlags
<1> QED BY <1>1, <1>3, <1>4, <1>5 DEF RecordingInv

(* A sample goes to the tail ring, which is full with the last of them. *)
LEMMA TailSample ==
    ASSUME RecordingInv, bbox_data_record, rec.read_tail # 0
    PROVE  RecordingInv'
<1>0. /\ taken' = taken + 1
      /\ event' = event /\ busy' = busy /\ refusedOnce' = refusedOnce
      /\ taken \in Int /\ taken + 1 \in 0..MaxTaken /\ event \in 0..MaxTaken
  BY SizesAre DEF RecordingInv, RecordingNumbers, bbox_data_record
<1>1. /\ RecordingFields /\ ReadTail = 1 /\ ReadFinish = 0
      /\ Buf \in [0..(Before + After - 1) -> 0..MaxTaken]
  <2>1. ReadTail # 0 /\ ReadFinish = 0
    BY DEF bbox_data_record, ReadTail, ReadFinish
  <2> QED BY <2>1, RecordingTypes DEF RecordingInv, RecordingFields
<1>2. /\ rec' \in Rings(Before, After, 0..MaxTaken)
      /\ Buf' = [Buf EXCEPT ![Before + TailIndex] = taken + 1]
      /\ TailIndex' = (TailIndex + 1) % After
      /\ TailCount' = IF TailCount < After THEN TailCount + 1 ELSE TailCount
      /\ HeadIndex' = HeadIndex /\ HeadCount' = HeadCount
      /\ ReadTail' = ReadTail
      /\ ReadFinish' = IF TailCount' = After THEN 1 ELSE ReadFinish
  <2>1. PICK p : p = record_tail_data_get(rec, Before, After, taken + 1)
    OBVIOUS
  <2>2. rec \in Rings(Before, After, 0..MaxTaken) /\ taken + 1 \in 0..MaxTaken
    BY <1>0 DEF RecordingInv
  <2>3. /\ p \in Rings(Before, After, 0..MaxTaken)
        /\ TailTakes(rec, p, Before, After, taken + 1)
    BY <2>1, <2>2, SizesAre, TailGet, Zenon
  <2>4. rec' = [p EXCEPT !.read_finish =
                           IF p.tail_read_cnt = After THEN 1 ELSE @]
    BY <2>1, Zenon DEF bbox_data_record
  <2>5. /\ rec' \in Rings(Before, After, 0..MaxTaken)
        /\ rec'.buf = p.buf
        /\ rec'.head_read_index = p.head_read_index
        /\ rec'.head_read_cnt = p.head_read_cnt
        /\ rec'.tail_read_index = p.tail_read_index
        /\ rec'.tail_read_cnt = p.tail_read_cnt
        /\ rec'.read_tail = p.read_tail
        /\ rec'.read_finish = IF p.tail_read_cnt = After
                              THEN 1 ELSE p.read_finish
    BY <2>3, <2>4 DEF Rings
  <2> QED BY <2>3, <2>5, Zenon
          DEF TailTakes, Buf, HeadIndex, HeadCount, TailIndex, TailCount,
              ReadTail, ReadFinish
<1>3. TailHolds'
  <2>1. /\ After \in Nat \ {0} /\ Before \in Nat
        /\ Before..(Before + After - 1) \subseteq 0..(Before + After - 1)
        /\ TailIndex \in 0..(After - 1) /\ TailCount \in 0..After
    BY SizesAre, <1>1 DEF RecordingFields
  <2>2. RingHolds(Buf, Before, After, TailIndex, TailCount, taken)
    BY DEF RecordingInv, TailHolds
  <2>3. RingHolds([Buf EXCEPT ![Before + TailIndex] = taken + 1], Before, After,
                  (TailIndex + 1) % After,
                  IF TailCount < After THEN TailCount + 1 ELSE TailCount,
                  taken + 1)
    <3>1. taken \in Int
      BY <1>0
    <3> QED BY <1>1, <2>1, <2>2, <3>1, RingGains, Zenon
  <2> QED BY <1>0, <1>2, <2>3 DEF TailHolds
<1>4. HeadHolds'
  <2>1. RingHolds(Buf, 0, Before, HeadIndex, HeadCount, event)
    BY <1>1 DEF RecordingInv, HeadHolds, HeadEnd
  <2>2. ASSUME NEW k \in 1..HeadCount
        PROVE  Buf'[0 + ((HeadIndex + Before - k) % Before)] = event + 1 - k
    <3>1. HeadIndex + Before - k \in Int /\ TailIndex \in Nat
      BY <1>1, SizesAre DEF RecordingFields
    <3>2. (HeadIndex + Before - k) % Before \in 0..(Before - 1)
      BY <3>1, SizesAre, DivMod
    <3>3. PICK x \in 0..(Before - 1) : x = (HeadIndex + Before - k) % Before
      BY <3>2
    <3>4. Buf[0 + x] = event + 1 - k
      BY <2>1, <3>3 DEF RingHolds
    <3>5. 0 + x \in 0..(Before + After - 1) /\ 0 + x # Before + TailIndex
      BY <3>1, SizesAre
    <3>6. Buf'[0 + x] = Buf[0 + x]
      BY <1>1, <1>2, <3>5
    <3> QED BY <3>3, <3>4, <3>6
  <2>3. RingHolds(Buf', 0, Before, HeadIndex, HeadCount, event)
    BY <2>2 DEF RingHolds
  <2> QED BY <1>0, <1>1, <1>2, <2>3 DEF HeadHolds, HeadEnd
<1>5. Phase'
  <2>1. TailCount \in 0..After /\ After \in Nat \ {0}
    BY <1>1, SizesAre DEF RecordingFields
  <2>2. TailCount < After \/ refusedOnce
    BY <1>1, <2>1 DEF RecordingInv, Phase
  <2>3. ~refusedOnce => taken = event + TailCount
    BY <1>1 DEF RecordingInv, Phase
  <2> QED BY <1>0, <1>1, <1>2, <2>1, <2>2, <2>3 DEF Phase
<1>6. RecordingNumbers' /\ RecordingFlags'
  BY <1>0 DEF RecordingInv, RecordingNumbers, RecordingFlags
<1> QED BY <1>2, <1>3, <1>4, <1>5, <1>6 DEF RecordingInv

LEMMA SaveAskedKeeps ==
    ASSUME RecordingInv, bbox_recorded_data_save
    PROVE  RecordingInv'
<1>1. /\ rec \in Rings(Before, After, 0..MaxTaken)
      /\ rec' = [rec EXCEPT !.read_tail = 1]
      /\ event' = taken
      /\ taken' = taken /\ busy' = busy /\ refusedOnce' = refusedOnce
      /\ rec.read_finish = 0 /\ rec.read_tail = 0
  BY DEF RecordingInv, bbox_recorded_data_save
<1>2. /\ rec' \in Rings(Before, After, 0..MaxTaken)
      /\ Buf' = Buf /\ HeadIndex' = HeadIndex /\ HeadCount' = HeadCount
      /\ TailIndex' = TailIndex /\ TailCount' = TailCount
      /\ ReadTail = 0 /\ ReadTail' = 1 /\ ReadFinish = 0 /\ ReadFinish' = 0
  BY <1>1 DEF Rings, Buf, HeadIndex, HeadCount, TailIndex, TailCount,
              ReadTail, ReadFinish
<1>3. RecordingFields /\ taken \in Nat /\ TailCount = 0
  BY <1>1, <1>2, RecordingTypes, SizesAre
     DEF RecordingInv, RecordingNumbers, Phase
<1>4. HeadHolds' /\ TailHolds'
  BY <1>1, <1>2 DEF RecordingInv, HeadHolds, HeadEnd, TailHolds
<1>5. Phase'
  BY <1>1, <1>2, <1>3, SizesAre DEF Phase
<1>6. RecordingNumbers' /\ RecordingFlags'
  BY <1>1 DEF RecordingInv, RecordingNumbers, RecordingFlags
<1> QED BY <1>2, <1>4, <1>5, <1>6 DEF RecordingInv

(* The task saves what was recorded, or is refused. *)
LEMMA SaveRecordingKeeps ==
    ASSUME RecordingInv, SaveRecording
    PROVE  RecordingInv'
<1>1. /\ rec \in Rings(Before, After, 0..MaxTaken)
      /\ event' = event /\ taken' = taken /\ busy' = busy
      /\ refusedOnce' = busy /\ rec.read_finish = 1
  BY DEF RecordingInv, SaveRecording
<1>2. RecordingFields /\ ReadFinish = 1 /\ ReadTail = 1 /\ TailCount = After
  <2>1. RecordingFields /\ ReadFinish = 1
    BY <1>1, RecordingTypes DEF ReadFinish
  <2> QED BY <2>1 DEF RecordingInv, Phase, RecordingFields
<1>3. CASE busy
  <2>1. rec' = [rec EXCEPT !.read_finish = 0]
    BY <1>3 DEF SaveRecording
  <2>2. /\ rec' \in Rings(Before, After, 0..MaxTaken)
        /\ Buf' = Buf /\ HeadIndex' = HeadIndex /\ HeadCount' = HeadCount
        /\ TailIndex' = TailIndex /\ TailCount' = TailCount
        /\ ReadTail' = ReadTail /\ ReadFinish' = 0
    BY <1>1, <2>1 DEF Rings, Buf, HeadIndex, HeadCount, TailIndex, TailCount,
                      ReadTail, ReadFinish
  <2>3. HeadHolds' /\ TailHolds'
    BY <1>1, <2>2 DEF RecordingInv, HeadHolds, HeadEnd, TailHolds
  <2>4. Phase'
    BY <1>1, <1>2, <1>3, <2>2 DEF Phase
  <2>5. RecordingNumbers' /\ RecordingFlags'
    BY <1>1 DEF RecordingInv, RecordingNumbers, RecordingFlags
  <2> QED BY <2>2, <2>3, <2>4, <2>5 DEF RecordingInv
<1>4. CASE ~busy
  <2>1. rec' = [AfterSaveAll(rec) EXCEPT !.read_finish = 0]
    BY <1>4 DEF SaveRecording
  <2>2. /\ rec' \in Rings(Before, After, 0..MaxTaken)
        /\ rec'.head_read_cnt = 0 /\ rec'.tail_read_cnt = 0
        /\ rec'.read_tail = 0 /\ rec'.read_finish = 0
    <3>1. rec.read_tail = 1
      BY <1>2 DEF ReadTail
    <3>2. PICK p : p = AfterSaveAll(rec)
      OBVIOUS
    <3>3. p = [rec EXCEPT !.head_read_cnt = 0, !.tail_read_cnt = 0,
                          !.read_tail = 0]
      BY <3>1, <3>2 DEF AfterSaveAll
    <3>4. 0 \in 0..Before /\ 0 \in 0..After
      BY SizesAre
    <3>5. /\ p \in Rings(Before, After, 0..MaxTaken)
          /\ p.head_read_cnt = 0 /\ p.tail_read_cnt = 0 /\ p.read_tail = 0
      BY <1>1, <3>3, <3>4 DEF Rings
    <3> QED BY <2>1, <3>2, <3>5 DEF Rings
  <2>3. HeadCount' = 0 /\ TailCount' = 0 /\ ReadTail' = 0 /\ ReadFinish' = 0
    BY <2>2 DEF HeadCount, TailCount, ReadTail, ReadFinish
  <2>4. HeadHolds' /\ TailHolds'
    BY <2>3 DEF HeadHolds, TailHolds, RingHolds
  <2>5. Phase'
    BY <1>1, <1>4, <2>3 DEF Phase
  <2>6. RecordingNumbers' /\ RecordingFlags'
    BY <1>1 DEF RecordingInv, RecordingNumbers, RecordingFlags
  <2> QED BY <2>2, <2>4, <2>5, <2>6 DEF RecordingInv
<1> QED BY <1>3, <1>4

LEMMA RecordingStep == RecordingInv /\ [rcNext]_rcVars => RecordingInv'
<1> SUFFICES ASSUME RecordingInv, [rcNext]_rcVars PROVE RecordingInv'
  OBVIOUS
<1> DEFINE Same == /\ rec' = rec /\ taken' = taken /\ event' = event
                   /\ refusedOnce' = refusedOnce /\ busy' \in BOOLEAN
<1>1. CASE bbox_data_record
  BY <1>1, HeadSample, TailSample
<1>2. CASE bbox_recorded_data_save
  BY <1>2, SaveAskedKeeps
<1>3. CASE SaveRecording
  BY <1>3, SaveRecordingKeeps
<1>4. ASSUME Same PROVE RecordingInv'
  <2>1. /\ Buf' = Buf /\ HeadIndex' = HeadIndex /\ HeadCount' = HeadCount
        /\ TailIndex' = TailIndex /\ TailCount' = TailCount
        /\ ReadTail' = ReadTail /\ ReadFinish' = ReadFinish
    BY <1>4 DEF Buf, HeadIndex, HeadCount, TailIndex, TailCount, ReadTail,
                ReadFinish
  <2> QED BY <1>4, <2>1, Zenon
          DEF RecordingInv, RecordingNumbers, RecordingFlags, HeadHolds,
              HeadEnd, TailHolds, Phase
<1>5. CASE PartitionRead
  <2>1. Same
    BY <1>5 DEF PartitionRead, RecordingInv, RecordingFlags
  <2> QED BY <1>4, <2>1
<1>6. CASE UNCHANGED rcVars
  <2>1. Same
    BY <1>6 DEF rcVars, RecordingInv, RecordingFlags
  <2> QED BY <1>4, <2>1
<1> QED BY <1>1, <1>2, <1>3, <1>5, <1>6 DEF rcNext

(* The same samples from the oldest on, the order in which a saving reads. *)
ReadInOrderFrom(f, at, c, i, n, newest) ==
    \A k \in 1..n : f[at + ((i + c - n + k - 1) % c)] = newest - n + k

LEMMA RingInOrder ==
    ASSUME NEW c \in Nat \ {0}, NEW at \in Nat, NEW f, NEW newest \in Int,
           NEW i \in 0..(c - 1), NEW n \in 0..c,
           RingHolds(f, at, c, i, n, newest)
    PROVE  ReadInOrderFrom(f, at, c, i, n, newest)
<1> SUFFICES ASSUME NEW k \in 1..n
             PROVE  f[at + ((i + c - n + k - 1) % c)] = newest - n + k
  BY DEF ReadInOrderFrom
<1>1. PICK l \in 1..n : l = n + 1 - k
  OBVIOUS
<1>2. f[at + ((i + c - l) % c)] = newest + 1 - l
  BY DEF RingHolds
<1>3. i + c - l = i + c - n + k - 1 /\ newest + 1 - l = newest - n + k
  BY <1>1
<1> QED BY <1>2, <1>3

(* What a recording saves, sample by sample. *)
LEMMA SavedInOrder ==
    ASSUME RecordingInv, SaveRecording, ~busy
    PROVE  /\ recording' \in Seq(0..MaxTaken)
           /\ Len(recording') = HeadCount + After
           /\ \A k \in 1..HeadCount : recording'[k] = event - HeadCount + k
           /\ \A k \in 1..After : recording'[HeadCount + k] = taken - After + k
<1>1. /\ RecordingFields /\ ReadTail = 1 /\ TailCount = After
      /\ Before \in Nat \ {0} /\ After \in Nat \ {0}
  <2>1. RecordingFields /\ ReadFinish = 1
    BY RecordingTypes DEF RecordingInv, SaveRecording, ReadFinish
  <2> QED BY <2>1, SizesAre DEF RecordingInv, Phase, RecordingFields
<1>2. Buf \in [0..(Before + After - 1) -> 0..MaxTaken]
  BY RecordingTypes DEF RecordingInv
<1> DEFINE h == SavedHead(rec, Before)
           t == SavedTail(rec, Before, After)
<1>3. h = [k \in 1..HeadCount |->
             Buf[(HeadIndex + Before - HeadCount + k - 1) % Before]]
  BY DEF SavedHead, Buf, HeadIndex, HeadCount
<1>4. t = [k \in 1..After |->
             Buf[Before + ((TailIndex + After - After + k - 1) % After)]]
  <2>1. rec.read_tail # 0 /\ rec.tail_read_cnt = After
    BY <1>1 DEF ReadTail, TailCount
  <2> QED BY <2>1 DEF SavedTail, Buf, TailIndex
<1>5. recording' = h \o t
  BY DEF SaveRecording
<1> HIDE DEF h, t
<1>6. h \in Seq(0..MaxTaken) /\ Len(h) = HeadCount
  <2>1. ASSUME NEW k \in 1..HeadCount
        PROVE  Buf[(HeadIndex + Before - HeadCount + k - 1) % Before]
                 \in 0..MaxTaken
    <3>1. HeadIndex + Before - HeadCount + k - 1 \in Int
      BY <1>1 DEF RecordingFields
    <3>2. (HeadIndex + Before - HeadCount + k - 1) % Before \in 0..(Before - 1)
      BY <1>1, <3>1, DivMod
    <3> QED BY <1>1, <1>2, <3>2
  <2>2. HeadCount \in Nat
    BY <1>1 DEF RecordingFields
  <2>3. h \in [1..HeadCount -> 0..MaxTaken]
    BY <1>3, <2>1
  <2> QED BY <2>2, <2>3, FunctionSeq
<1>7. t \in Seq(0..MaxTaken) /\ Len(t) = After
  <2>1. ASSUME NEW k \in 1..After
        PROVE  Buf[Before + ((TailIndex + After - After + k - 1) % After)]
                 \in 0..MaxTaken
    <3>1. TailIndex + After - After + k - 1 \in Int
      BY <1>1 DEF RecordingFields
    <3>2. (TailIndex + After - After + k - 1) % After \in 0..(After - 1)
      BY <1>1, <3>1, DivMod
    <3> QED BY <1>1, <1>2, <3>2
  <2>2. t \in [1..After -> 0..MaxTaken]
    BY <1>4, <2>1
  <2>3. After \in Nat
    BY <1>1
  <2> QED BY <2>2, <2>3, FunctionSeq
<1>8. ASSUME NEW k \in 1..HeadCount
      PROVE  recording'[k] = event - HeadCount + k
  <2>1. recording'[k] = h[k]
    BY <1>5, <1>6, <1>7
  <2>2. RingHolds(Buf, 0, Before, HeadIndex, HeadCount, event)
    BY <1>1 DEF RecordingInv, HeadHolds, HeadEnd
  <2>3. event \in Int /\ HeadIndex \in 0..(Before - 1)
        /\ HeadCount \in 0..Before /\ 0 \in Nat
    BY <1>1, SizesAre DEF RecordingInv, RecordingNumbers, RecordingFields
  <2>4. Buf[0 + ((HeadIndex + Before - HeadCount + k - 1) % Before)]
          = event - HeadCount + k
    <3>1. ReadInOrderFrom(Buf, 0, Before, HeadIndex, HeadCount, event)
      BY <1>1, <2>2, <2>3, RingInOrder, Zenon
    <3> QED BY <3>1 DEF ReadInOrderFrom
  <2>5. HeadIndex + Before - HeadCount + k - 1 \in Int
    BY <1>1, <2>3
  <2>6. 0 + ((HeadIndex + Before - HeadCount + k - 1) % Before)
          = (HeadIndex + Before - HeadCount + k - 1) % Before
    BY <1>1, <2>5, DivMod
  <2> QED BY <1>3, <2>1, <2>4, <2>6
<1>9. ASSUME NEW k \in 1..After
      PROVE  recording'[HeadCount + k] = taken - After + k
  <2>1. recording'[HeadCount + k] = t[k]
    BY <1>1, <1>5, <1>6, <1>7
  <2>2. RingHolds(Buf, Before, After, TailIndex, After, taken)
    BY <1>1 DEF RecordingInv, TailHolds
  <2>3. taken \in Int /\ TailIndex \in 0..(After - 1)
        /\ After \in 0..After /\ Before \in Nat
    BY <1>1, SizesAre DEF RecordingInv, RecordingNumbers, RecordingFields
  <2>4. Buf[Before + ((TailIndex + After - After + k - 1) % After)]
          = taken - After + k
    <3>1. ReadInOrderFrom(Buf, Before, After, TailIndex, After, taken)
      BY <1>1, <2>2, <2>3, RingInOrder, Zenon
    <3> QED BY <3>1 DEF ReadInOrderFrom
  <2> QED BY <1>4, <2>1, <2>4
<1>10. recording' \in Seq(0..MaxTaken) /\ Len(recording') = HeadCount + After
  <2>1. h \o t \in Seq(0..MaxTaken) /\ Len(h \o t) = Len(h) + Len(t)
    BY <1>6, <1>7, ConcatProperties
  <2> QED BY <1>5, <1>6, <1>7, <2>1
<1> QED BY <1>8, <1>9, <1>10

LEMMA RecordingAlways == rcSpec => []RecordingInv
BY RecordingInit, RecordingStep, PTL DEF rcSpec

(* What is saved is a sequence of sample numbers, and the rings are rings. *)
THEOREM RecordingTypeCorrect == rcSpec => []rcTypeOK
<1> DEFINE Saved == recording \in Seq(0..MaxTaken)
<1>1. rcInit => Saved
  BY DEF rcInit
<1>2. RecordingInv /\ Saved /\ [rcNext]_rcVars
        => Saved'
  <2> SUFFICES ASSUME RecordingInv, Saved,
                      [rcNext]_rcVars, recording' # recording
               PROVE  Saved'
    OBVIOUS
  <2>1. SaveRecording /\ ~busy
    BY DEF rcNext, rcVars, bbox_data_record, bbox_recorded_data_save,
           SaveRecording, PartitionRead
  <2> QED BY <2>1, SavedInOrder
<1>3. RecordingInv /\ Saved => rcTypeOK
  <2> SUFFICES ASSUME RecordingInv, Saved
               PROVE  rcTypeOK
    OBVIOUS
  <2>1. {taken, event} \subseteq 0..MaxTaken
    BY DEF RecordingInv, RecordingNumbers
  <2>2. {busy, refusedOnce} \subseteq BOOLEAN
    BY Zenon DEF RecordingInv, RecordingFlags
  <2> QED BY <2>1, <2>2 DEF RecordingInv, rcTypeOK
<1> HIDE DEF Saved
<1> QED BY <1>1, <1>2, <1>3, RecordingAlways, PTL DEF rcSpec

(* RecordingComplete, for rings of any size and any number of laps: a saved *)
(* recording has the samples on both sides of the event, without a gap,    *)
(* as many behind the event as the tail ring holds.                        *)
THEOREM RecordingIsComplete == rcSpec => RecordingComplete
<1> DEFINE Complete ==
      recording' # recording =>
         LET n == Len(recording') - After
         IN /\ n \in 0..Before
            /\ \A i \in 1..n : recording'[i] = event - n + i
            /\ \A i \in 1..After : recording'[n + i] = taken - After + i
            /\ (~refusedOnce => taken = event + After)
<1>1. RecordingInv /\ [rcNext]_rcVars => [Complete]_rcVars
  <2> SUFFICES ASSUME RecordingInv, [rcNext]_rcVars, recording' # recording
               PROVE  Complete
    OBVIOUS
  <2>1. SaveRecording /\ ~busy
    BY DEF rcNext, rcVars, bbox_data_record, bbox_recorded_data_save,
           SaveRecording, PartitionRead
  <2>2. /\ Len(recording') = HeadCount + After
        /\ \A k \in 1..HeadCount : recording'[k] = event - HeadCount + k
        /\ \A k \in 1..After : recording'[HeadCount + k] = taken - After + k
    BY <2>1, SavedInOrder
  <2>3. RecordingFields /\ ReadFinish = 1
    BY <2>1, RecordingTypes DEF RecordingInv, SaveRecording, ReadFinish
  <2>4. Len(recording') - After = HeadCount /\ HeadCount \in 0..Before
    BY <2>2, <2>3, SizesAre DEF RecordingFields
  <2>5. ~refusedOnce => taken = event + After
    BY <2>3 DEF RecordingInv, Phase, RecordingFields
  <2> QED BY <2>2, <2>4, <2>5
<1> QED BY <1>1, RecordingAlways, PTL DEF RecordingComplete, rcSpec
-----------------------------------------------------------------------------
(* The recorder's states *)

(* The k-th newest sample of the head ring. *)
Newest(p, h, k) == p.buf[(p.head_read_index + h - k) % h]

(* A new sample moves the others one back. *)
Shifted(p, q, h, s) ==
    /\ Newest(q, h, 1) = s
    /\ \A k \in 1..(h - 1) : Newest(q, h, k + 1) = Newest(p, h, k)

LEMMA NewestAfterGet ==
    ASSUME NEW h \in Nat \ {0}, NEW t \in Nat \ {0}, NEW Sample,
           NEW p \in Rings(h, t, Sample), NEW s \in Sample,
           NEW q, HeadTakes(p, q, h, s)
    PROVE  Shifted(p, q, h, s)
<1> DEFINE f == p.buf
           i == p.head_read_index
           g == q.buf
           j == q.head_read_index
<1>1. f \in [0..(h + t - 1) -> Sample]
  BY DEF Rings
<1>2. i \in 0..(h - 1)
  BY DEF Rings
<1>3. g = [f EXCEPT ![i] = s] /\ j = (i + 1) % h
  BY Zenon DEF HeadTakes
<1>4. /\ Newest(q, h, 1) = g[(j + h - 1) % h]
      /\ \A k \in 1..(h - 1) :
           /\ Newest(q, h, k + 1) = g[(j + h - (k + 1)) % h]
           /\ Newest(p, h, k) = f[(i + h - k) % h]
  BY Zenon DEF Newest
<1> HIDE DEF f, g, i, j
<1>5. (j + h - 1) % h = i
  BY <1>2, <1>3, IndexStep
<1>6. g[i] = s
  BY <1>1, <1>2, <1>3
<1>7. ASSUME NEW k \in 1..(h - 1)
      PROVE  Newest(q, h, k + 1) = Newest(p, h, k)
  <2>1. /\ (j + h - (k + 1)) % h = (i + h - k) % h
        /\ (i + h - k) % h \in 0..(h - 1)
        /\ (i + h - k) % h # i
    <3>1. /\ (((i + 1) % h) + h - (k + 1)) % h = (i + h - k) % h
          /\ (i + h - k) % h \in 0..(h - 1)
          /\ (i + h - k) % h # i
      BY <1>2, IndexStep
    <3> QED BY <1>3, <3>1, Zenon
  <2>2. PICK m \in 0..(h - 1) : m = (i + h - k) % h
    BY <2>1
  <2>3. g[m] = f[m]
    BY <1>1, <1>2, <1>3, <2>1, <2>2
  <2> QED BY <1>4, <2>1, <2>2, <2>3
<1> QED BY <1>4, <1>5, <1>6, <1>7 DEF Shifted

At(p, k) == Newest(p, HeadCnt, k)
Numbers == 0..MaxSamples

(* The head ring holds samples in the order they were taken, none newer    *)
(* than top, the newest no older than floor; and of those older than floor *)
(* there is room in it for HeadCnt - 2, counted from the oldest.           *)
Window(p, top, floor) ==
    \A k \in 1..p.head_read_cnt :
        /\ At(p, k) \in Numbers /\ At(p, k) <= top
        /\ k = 1 => floor <= At(p, 1)
        /\ k > 1 => At(p, k) <= At(p, k - 1)
        /\ At(p, k) < floor => p.head_read_cnt - k + 1 <= HeadCnt - 2

(* What the rings are between two steps. *)
Good(p, top, floor) ==
    /\ p \in Rings(HeadCnt, TailCnt, Numbers)
    /\ p.read_tail = 0 /\ Window(p, top, floor)

LEMMA RingSizesAre ==
    /\ HeadCnt \in Nat \ {0} /\ TailCnt \in Nat \ {0}
    /\ MaxSamples \in Nat \ {0} /\ MaxReports \in Nat
BY RingSizes

LEMMA CountIs ==
    ASSUME NEW p \in Rings(HeadCnt, TailCnt, Numbers)
    PROVE  p.head_read_cnt \in 0..HeadCnt
BY DEF Rings

LEMMA GoodSample ==
    ASSUME NEW p, NEW top \in Numbers, NEW floor \in Numbers,
           Good(p, top, floor), NEW s \in Numbers, top <= s, floor <= s,
           NEW q, q = record_head_data_get(p, HeadCnt, s)
    PROVE  Good(q, s, floor)
<1>1. q \in Rings(HeadCnt, TailCnt, Numbers) /\ HeadTakes(p, q, HeadCnt, s)
  BY RingSizesAre, HeadGet, Zenon DEF Good
<1>2. Shifted(p, q, HeadCnt, s)
  BY <1>1, RingSizesAre, NewestAfterGet, Zenon DEF Good
<1> DEFINE n == p.head_read_cnt
           m == q.head_read_cnt
<1>3. /\ n \in 0..HeadCnt /\ m = IF n < HeadCnt THEN n + 1 ELSE n
      /\ q.read_tail = 0
  BY <1>1, CountIs DEF Good, HeadTakes
<1>4. \A k \in 1..n :
        /\ At(p, k) \in Numbers /\ At(p, k) <= top
        /\ k = 1 => floor <= At(p, 1)
        /\ k > 1 => At(p, k) <= At(p, k - 1)
        /\ At(p, k) < floor => n - k + 1 <= HeadCnt - 2
  BY DEF Good, Window
<1> HIDE DEF n, m
<1>5. At(q, 1) = s /\ \A k \in 1..(HeadCnt - 1) : At(q, k + 1) = At(p, k)
  BY <1>2 DEF At, Shifted
<1>6. ASSUME NEW k \in 1..m
      PROVE  /\ At(q, k) \in Numbers /\ At(q, k) <= s
             /\ k = 1 => floor <= At(q, 1)
             /\ k > 1 => At(q, k) <= At(q, k - 1)
             /\ At(q, k) < floor => m - k + 1 <= HeadCnt - 2
  <2>1. CASE k = 1
    BY <1>5, <2>1 DEF Numbers
  <2>2. CASE k # 1
    <3>1. PICK l \in Int : l = k - 1
      OBVIOUS
    <3>2. l \in 1..n /\ l \in 1..(HeadCnt - 1) /\ k = l + 1
      BY <1>3, <2>2, <3>1, RingSizesAre
    <3>3. /\ At(q, k) = At(p, l) /\ At(p, l) \in Numbers /\ At(p, l) <= s
          /\ At(p, l) < floor => m - k + 1 <= HeadCnt - 2
      BY <1>3, <1>4, <1>5, <3>2, RingSizesAre DEF Numbers
    <3>4. At(q, k) <= At(q, k - 1)
      <4>1. CASE l = 1
        BY <1>5, <3>2, <3>3, <4>1
      <4>2. CASE l # 1
        <5>1. PICK j \in Int : j = l - 1
          OBVIOUS
        <5>2. j \in 1..(HeadCnt - 1) /\ l = j + 1 /\ k - 1 = j + 1
          BY <3>2, <4>2, <5>1, RingSizesAre
        <5>3. At(q, k - 1) = At(p, j) /\ At(p, l) <= At(p, l - 1) /\ l - 1 = j
          BY <1>4, <1>5, <3>2, <4>2, <5>1, <5>2
        <5> QED BY <3>3, <5>3
      <4> QED BY <4>1, <4>2
    <3> QED BY <2>2, <3>3, <3>4
  <2> QED BY <2>1, <2>2
<1>7. Window(q, s, floor)
  BY <1>6 DEF Window, m
<1> QED BY <1>1, <1>3, <1>7 DEF Good

(* A sample in the tail ring leaves the head ring alone. *)
LEMMA GoodTailSample ==
    ASSUME NEW p, NEW top \in Numbers, NEW floor \in Numbers,
           Good(p, top, floor), NEW s \in Numbers, top <= s,
           NEW q, q = record_tail_data_get(p, HeadCnt, TailCnt, s)
    PROVE  Good(q, s, floor)
<1>1. /\ q \in Rings(HeadCnt, TailCnt, Numbers)
      /\ TailTakes(p, q, HeadCnt, TailCnt, s)
  BY RingSizesAre, TailGet, Zenon DEF Good
<1>2. /\ q.head_read_cnt = p.head_read_cnt /\ q.read_tail = 0
      /\ q.head_read_index = p.head_read_index
  BY <1>1, Zenon DEF TailTakes, Good
<1>3. ASSUME NEW k \in 1..p.head_read_cnt PROVE At(q, k) = At(p, k)
  <2> DEFINE f == p.buf
             g == q.buf
             i == p.head_read_index
             j == p.tail_read_index
  <2>1. f \in [0..(HeadCnt + TailCnt - 1) -> Numbers]
    BY DEF Good, Rings
  <2>2. i \in 0..(HeadCnt - 1) /\ j \in 0..(TailCnt - 1)
        /\ p.head_read_cnt \in 0..HeadCnt
    BY DEF Good, Rings
  <2>3. g = [f EXCEPT ![HeadCnt + j] = s]
    BY <1>1, Zenon DEF TailTakes
  <2>4. At(q, k) = g[(i + HeadCnt - k) % HeadCnt]
        /\ At(p, k) = f[(i + HeadCnt - k) % HeadCnt]
    BY <1>2, Zenon DEF At, Newest
  <2>5. i + HeadCnt - k \in Int
    BY <2>2, RingSizesAre
  <2> HIDE DEF f, g, i, j
  <2>6. (i + HeadCnt - k) % HeadCnt \in 0..(HeadCnt - 1)
    BY <2>5, RingSizesAre, DivMod
  <2>7. PICK m \in 0..(HeadCnt - 1) : m = (i + HeadCnt - k) % HeadCnt
    BY <2>6
  <2>8. m # HeadCnt + j /\ m \in 0..(HeadCnt + TailCnt - 1)
    BY <2>2, RingSizesAre
  <2>9. g[m] = f[m]
    BY <2>1, <2>3, <2>8
  <2> QED BY <2>4, <2>7, <2>9
<1>4. Window(q, s, floor)
  <2> SUFFICES ASSUME NEW k \in 1..p.head_read_cnt
               PROVE  /\ At(q, k) \in Numbers /\ At(q, k) <= s
                      /\ k = 1 => floor <= At(q, 1)
                      /\ k > 1 => At(q, k) <= At(q, k - 1)
                      /\ At(q, k) < floor
                           => p.head_read_cnt - k + 1 <= HeadCnt - 2
    BY <1>2 DEF Window
  <2>1. /\ At(p, k) \in Numbers /\ At(p, k) <= top
        /\ k = 1 => floor <= At(p, 1)
        /\ k > 1 => At(p, k) <= At(p, k - 1)
        /\ At(p, k) < floor => p.head_read_cnt - k + 1 <= HeadCnt - 2
    BY DEF Good, Window
  <2>2. p.head_read_cnt \in Nat
    BY CountIs, RingSizesAre DEF Good
  <2>3. At(q, k) = At(p, k) /\ (k = 1 => At(q, 1) = At(p, 1))
    BY <1>3
  <2>4. k > 1 => At(q, k - 1) = At(p, k - 1)
    BY <1>3, <2>2
  <2> QED BY <2>1, <2>3, <2>4 DEF Numbers
<1> QED BY <1>1, <1>2, <1>4 DEF Good

(* The oldest sample is forgotten, after the newest was saved or instead.  *)
LEMMA GoodForgotten ==
    ASSUME NEW p, NEW top \in Numbers, NEW floor \in Numbers,
           Good(p, top, floor), NEW q, q = AfterHeadRecent(p)
    PROVE  /\ Good(q, top, floor)
           /\ p.head_read_cnt > 0 => Good(q, top, At(p, 1))
<1> DEFINE n == p.head_read_cnt
           m == q.head_read_cnt
<1>0. p \in Rings(HeadCnt, TailCnt, Numbers) /\ p.read_tail = 0
  BY DEF Good
<1>1. n \in 0..HeadCnt
  BY <1>0, CountIs
<1>2. /\ q \in Rings(HeadCnt, TailCnt, Numbers)
      /\ m = IF n = 0 THEN 0 ELSE n - 1
      /\ q.read_tail = 0
      /\ q.buf = p.buf /\ q.head_read_index = p.head_read_index
  <2> DEFINE left == IF n = 0 THEN 0 ELSE n - 1
  <2>1. left \in 0..HeadCnt
    BY <1>1, RingSizesAre
  <2>2. q = [p EXCEPT !.head_read_cnt = left]
    BY DEF AfterHeadRecent
  <2> HIDE DEF left
  <2>3. /\ q \in Rings(HeadCnt, TailCnt, Numbers) /\ m = left
        /\ q.read_tail = 0
        /\ q.buf = p.buf /\ q.head_read_index = p.head_read_index
    BY <1>0, <2>1, <2>2 DEF Rings
  <2> QED BY <2>3 DEF left
<1>3. ASSUME NEW k PROVE At(q, k) = At(p, k)
  BY <1>2, Zenon DEF At, Newest
<1>4. \A k \in 1..n :
        /\ At(p, k) \in Numbers /\ At(p, k) <= top
        /\ k = 1 => floor <= At(p, 1)
        /\ k > 1 => At(p, k) <= At(p, k - 1)
        /\ At(p, k) < floor => n - k + 1 <= HeadCnt - 2
  BY DEF Good, Window
<1> HIDE DEF n, m
<1>5. Window(q, top, floor)
  <2> SUFFICES ASSUME NEW k \in 1..m
               PROVE  /\ At(p, k) \in Numbers /\ At(p, k) <= top
                      /\ k = 1 => floor <= At(p, 1)
                      /\ k > 1 => At(p, k) <= At(p, k - 1)
                      /\ At(p, k) < floor => m - k + 1 <= HeadCnt - 2
    BY <1>3 DEF Window, m
  <2>1. k \in 1..n
    BY <1>1, <1>2
  <2> QED BY <1>1, <1>2, <1>4, <2>1, RingSizesAre
<1>6. n > 0 => Window(q, top, At(p, 1))
  <2> SUFFICES ASSUME NEW k \in 1..m
               PROVE  /\ At(p, k) \in Numbers /\ At(p, k) <= top
                      /\ k = 1 => At(p, 1) <= At(p, 1)
                      /\ k > 1 => At(p, k) <= At(p, k - 1)
                      /\ At(p, k) < At(p, 1) => m - k + 1 <= HeadCnt - 2
    BY <1>3 DEF Window, m
  <2>1. k \in 1..n /\ 1 \in 1..n
    BY <1>1, <1>2
  <2>2. At(p, k) < At(p, 1) => k # 1
    BY <1>4, <2>1 DEF Numbers
  <2> QED BY <1>1, <1>2, <1>4, <2>1, <2>2, RingSizesAre DEF Numbers
<1> QED BY <1>2, <1>5, <1>6 DEF Good, n

LEMMA GoodCleared ==
    ASSUME NEW p, NEW top \in Numbers, NEW floor \in Numbers,
           Good(p, top, floor), NEW q, q = AfterSaveAll(p), NEW other
    PROVE  Good(q, top, other)
<1>0. p \in Rings(HeadCnt, TailCnt, Numbers) /\ p.read_tail = 0
      /\ 0 \in 0..HeadCnt
  BY RingSizesAre DEF Good
<1>1. /\ q \in Rings(HeadCnt, TailCnt, Numbers)
      /\ q.head_read_cnt = 0 /\ q.read_tail = 0
  <2>1. q = [p EXCEPT !.head_read_cnt = 0, !.tail_read_cnt = p.tail_read_cnt,
                      !.read_tail = 0]
    BY <1>0 DEF AfterSaveAll
  <2> QED BY <1>0, <2>1 DEF Rings
<1>2. Window(q, top, other)
  BY <1>1 DEF Window
<1> QED BY <1>1, <1>2 DEF Good

LEMMA GoodTailForgotten ==
    ASSUME NEW p, NEW top \in Numbers, NEW floor \in Numbers,
           Good(p, top, floor), NEW q, q = AfterTailRecent(p)
    PROVE  Good(q, top, floor)
<1>0. p \in Rings(HeadCnt, TailCnt, Numbers) /\ p.read_tail = 0
  BY DEF Good
<1>1. /\ q \in Rings(HeadCnt, TailCnt, Numbers) /\ q.read_tail = 0
      /\ q.head_read_cnt = p.head_read_cnt
      /\ q.buf = p.buf /\ q.head_read_index = p.head_read_index
  <2> DEFINE left == IF p.tail_read_cnt = 0 THEN 0 ELSE p.tail_read_cnt - 1
  <2>1. left \in 0..TailCnt
    BY <1>0, RingSizesAre DEF Rings
  <2>2. q = [p EXCEPT !.tail_read_cnt = left, !.read_tail = 0]
    BY <1>0 DEF AfterTailRecent
  <2> HIDE DEF left
  <2> QED BY <1>0, <2>1, <2>2 DEF Rings
<1>3. ASSUME NEW k PROVE At(q, k) = At(p, k)
  BY <1>1, Zenon DEF At, Newest
<1>4. Window(q, top, floor)
  BY <1>1, <1>3 DEF Good, Window
<1> QED BY <1>1, <1>4 DEF Good

LEMMA GoodHigher ==
    ASSUME NEW p, NEW top \in Numbers, NEW floor, Good(p, top, floor),
           NEW s \in Numbers, top <= s
    PROVE  Good(p, s, floor)
<1>1. Window(p, s, floor)
  BY DEF Good, Window, Numbers
<1> QED BY <1>1 DEF Good
-----------------------------------------------------------------------------
(* What may be saved: samples in order, the last no older than floor, of   *)
(* those older than floor HeadCnt - 2 at most.                             *)
Orderly(b, floor) ==
    /\ b \in Seq(Numbers)
    /\ \A i \in 1..Len(b) : /\ i > 1 => b[i - 1] <= b[i]
                            /\ b[i] < floor => i <= HeadCnt - 2
    /\ b # << >> => floor <= b[Len(b)]

LEMMA AllIsOrderly ==
    ASSUME NEW p, NEW top \in Numbers, NEW floor \in Numbers,
           Good(p, top, floor)
    PROVE  /\ Orderly(AllOf(p), floor)
           /\ AllOf(p) # << >> => AllOf(p)[Len(AllOf(p))] <= top
<1> DEFINE n == p.head_read_cnt
           b == SavedHead(p, HeadCnt)
<1>1. n \in 0..HeadCnt /\ p.head_read_index \in 0..(HeadCnt - 1)
  BY DEF Good, Rings
<1>2. \A k \in 1..n :
        /\ At(p, k) \in Numbers /\ At(p, k) <= top
        /\ k = 1 => floor <= At(p, 1)
        /\ k > 1 => At(p, k) <= At(p, k - 1)
        /\ At(p, k) < floor => n - k + 1 <= HeadCnt - 2
  BY DEF Good, Window
<1>3. b = [i \in 1..n |-> At(p, n + 1 - i)]
  <2>1. ASSUME NEW i \in 1..n
        PROVE  p.head_read_index + HeadCnt - n + i - 1
                 = p.head_read_index + HeadCnt - (n + 1 - i)
    BY <1>1, RingSizesAre
  <2> QED BY <2>1 DEF SavedHead, At, Newest
<1> HIDE DEF n, b
<1>4. ASSUME NEW i \in 1..n
      PROVE  /\ b[i] = At(p, n + 1 - i) /\ b[i] \in Numbers /\ b[i] <= top
             /\ i = n => floor <= b[i]
             /\ b[i] < floor => i <= HeadCnt - 2
  <2>1. PICK k \in 1..n : k = n + 1 - i /\ (i = n => k = 1) /\ n - k + 1 = i
    BY <1>1
  <2>2. b[i] = At(p, k)
    BY <1>3, <2>1
  <2> QED BY <1>2, <2>1, <2>2
<1>5. ASSUME NEW i \in 1..n, i > 1 PROVE b[i - 1] <= b[i]
  <2>1. PICK k \in 1..n : k = n + 1 - (i - 1) /\ k > 1 /\ k - 1 = n + 1 - i
    BY <1>1, <1>5
  <2>2. i - 1 \in 1..n
    BY <1>1, <1>5
  <2>3. b[i - 1] = At(p, k) /\ b[i] = At(p, k - 1)
    BY <1>4, <2>1, <2>2
  <2> QED BY <1>2, <2>1, <2>3
<1>6. b \in Seq(Numbers) /\ Len(b) = n
  <2>1. b \in [1..n -> Numbers]
    BY <1>3, <1>4
  <2> QED BY <1>1, <2>1, FunctionSeq
<1>7. Orderly(b, floor) /\ (b # << >> => b[Len(b)] <= top)
  <2>1. b # << >> => n \in 1..n
    BY <1>1, <1>6
  <2> QED BY <1>4, <1>5, <1>6, <2>1 DEF Orderly
<1>8. AllOf(p) = b
  <2>1. SavedTail(p, HeadCnt, TailCnt) = << >>
    BY DEF Good, SavedTail
  <2> QED BY <1>6, <2>1, ConcatEmptySeq DEF AllOf, b
<1> QED BY <1>7, <1>8

LEMMA RecentIsOrderly ==
    ASSUME NEW p, NEW top \in Numbers, NEW floor \in Numbers,
           Good(p, top, floor), p.head_read_cnt > 0
    PROVE  /\ HeadRecent(p, HeadCnt) = <<At(p, 1)>>
           /\ At(p, 1) \in Numbers /\ floor <= At(p, 1) /\ At(p, 1) <= top
           /\ Orderly(<<At(p, 1)>>, floor)
<1>1. p.head_read_cnt \in 0..HeadCnt
  BY CountIs DEF Good
<1>2. 1 \in 1..p.head_read_cnt
  BY <1>1, RingSizesAre
<1>3. At(p, 1) \in Numbers /\ floor <= At(p, 1) /\ At(p, 1) <= top
  BY <1>2 DEF Good, Window
<1>4. HeadRecent(p, HeadCnt) = <<At(p, 1)>>
  <2>1. p.head_read_cnt # 0
    BY <1>1, RingSizesAre
  <2> QED BY <2>1, Zenon DEF HeadRecent, At, Newest
<1>5. Orderly(<<At(p, 1)>>, floor)
  <2>1. PICK x \in Numbers : x = At(p, 1)
    BY <1>3
  <2>2. <<x>> \in Seq(Numbers) /\ Len(<<x>>) = 1 /\ <<x>>[1] = x
    OBVIOUS
  <2> QED BY <1>3, <2>1, <2>2 DEF Orderly, Numbers
<1> QED BY <1>3, <1>4, <1>5
-----------------------------------------------------------------------------
(* What holds between two steps, and what a step leaves behind: the rings  *)
(* good for the samples taken, and a batch that goes on from what was in   *)
(* the partition for errors.                                               *)
StatesInv ==
    /\ sample \in Numbers /\ serious \in Numbers /\ serious <= sample
    /\ Good(rings, sample, serious)
    /\ batch \in Seq(Numbers)

Outcome ==
    /\ sample' \in Numbers /\ serious' \in Numbers
    /\ serious <= serious' /\ serious' <= sample'
    /\ Good(rings', sample', serious')
    /\ Orderly(batch', serious)

LEMMA OutcomeKeeps ==
    ASSUME Outcome
    PROVE  StatesInv'
BY DEF Outcome, StatesInv, Orderly

(* Samples x are saved to a partition, and the rings are after it unless   *)
(* that is refused.                                                        *)
LEMMA SavingKeeps ==
    ASSUME NEW p, NEW after, NEW x, NEW part,
           serious \in Numbers, sample' \in Numbers, serious <= sample',
           Good(p, sample', serious), Good(after, sample', serious),
           x # << >> => /\ Orderly(x, serious)
                        /\ x[Len(x)] \in Numbers /\ x[Len(x)] <= sample'
                        /\ Good(after, sample', x[Len(x)]),
           rings' = Kept(part, p, after), Saves(part, x)
    PROVE  Outcome
<1>1. Good(rings', sample', serious)
  BY DEF Kept
<1>2. CASE batch' = << >>
  <2>1. serious' = serious
    BY <1>2 DEF Saves
  <2>2. Orderly(batch', serious)
    BY <1>2 DEF Orderly
  <2> QED BY <1>1, <2>1, <2>2 DEF Outcome, Numbers
<1>3. CASE batch' # << >>
  <2>1. part \notin refusing /\ batch' = x /\ serious' = x[Len(x)]
    BY <1>3 DEF Saves
  <2>2. rings' = after
    BY <2>1 DEF Kept
  <2>3. serious <= x[Len(x)]
    BY <1>3, <2>1 DEF Orderly
  <2> QED BY <1>3, <2>1, <2>2, <2>3 DEF Outcome
<1> QED BY <1>2, <1>3

(* save_all, a sample of the second-by-second saving, and nothing saved.   *)
LEMMA SavingAll ==
    ASSUME NEW p, NEW part,
           serious \in Numbers, sample' \in Numbers, serious <= sample',
           Good(p, sample', serious),
           rings' = Kept(part, p, AfterSaveAll(p)), Saves(part, AllOf(p))
    PROVE  Outcome
<1> DEFINE x == AllOf(p)
           after == AfterSaveAll(p)
<1>1. Orderly(x, serious) /\ (x # << >> => x[Len(x)] <= sample')
  BY AllIsOrderly, Zenon
<1>2. Good(after, sample', serious) /\ Good(after, sample', x[Len(x)])
  BY GoodCleared, Zenon
<1>3. Saves(part, x) /\ rings' = Kept(part, p, after)
  OBVIOUS
<1> HIDE DEF x, after
<1>4. x # << >> => x[Len(x)] \in Numbers
  <2> SUFFICES ASSUME x # << >> PROVE x[Len(x)] \in Numbers
    OBVIOUS
  <2>1. x \in Seq(Numbers)
    BY <1>1 DEF Orderly
  <2> QED BY <2>1
<1> QED BY <1>1, <1>2, <1>3, <1>4, SavingKeeps, Zenon

LEMMA SavingRecent ==
    ASSUME NEW p, NEW part,
           serious \in Numbers, sample' \in Numbers, serious <= sample',
           Good(p, sample', serious), p.head_read_cnt > 0,
           rings' = Kept(part, p, AfterHeadRecent(p)),
           Saves(part, HeadRecent(p, HeadCnt))
    PROVE  Outcome
<1> DEFINE x == HeadRecent(p, HeadCnt)
           after == AfterHeadRecent(p)
<1>1. /\ x = <<At(p, 1)>> /\ At(p, 1) \in Numbers /\ At(p, 1) <= sample'
      /\ Orderly(<<At(p, 1)>>, serious)
  BY RecentIsOrderly, Zenon
<1>2. Good(after, sample', serious) /\ Good(after, sample', At(p, 1))
  BY GoodForgotten, Zenon
<1>3. Saves(part, x) /\ rings' = Kept(part, p, after)
  OBVIOUS
<1> HIDE DEF x, after
<1>4. x[Len(x)] = At(p, 1)
  BY <1>1
<1> QED BY <1>1, <1>2, <1>3, <1>4, SavingKeeps, Zenon

LEMMA SavingNothing ==
    ASSUME NEW part, sample \in Numbers, serious \in Numbers,
           sample' \in Numbers, serious <= sample', sample <= sample',
           Good(rings', sample', serious), Saves(part, << >>)
    PROVE  Outcome
<1>1. batch' = << >> /\ serious' = serious
  BY DEF Saves
<1>2. Orderly(batch', serious)
  BY <1>1 DEF Orderly
<1> QED BY <1>1, <1>2 DEF Outcome, Numbers

LEMMA NextIs ==
    ASSUME StatesInv
    PROVE  NextSample \in Numbers /\ sample <= NextSample
BY RingSizesAre DEF StatesInv, NextSample, Numbers

(* A report: its sample goes to the tail ring; a fault or an error saves   *)
(* all, anything else the newest of the tail, which goes elsewhere.        *)
LEMMA ReportKeeps ==
    ASSUME StatesInv, NEW save, NEW new, StateSet(save, new)
    PROVE  Outcome
<1> DEFINE s == NextSample
           p == record_tail_data_get(rings, HeadCnt, TailCnt, s)
<1>1. s \in Numbers /\ sample <= s /\ sample' = s
  BY NextIs DEF StateSet
<1>2. /\ sample \in Numbers /\ serious \in Numbers /\ serious <= sample
      /\ Good(rings, sample, serious)
  BY DEF StatesInv
<1>3. Good(p, s, serious)
  <2> HIDE DEF s
  <2> QED BY <1>1, <1>2, GoodTailSample, Zenon
<1>4. \/ \E part \in Partitions :
           /\ rings' = Kept(part, p, AfterSaveAll(p))
           /\ Saves(part, AllOf(p))
      \/ /\ rings' = Kept("common", p, AfterTailRecent(p))
         /\ Saves("common", TailRecent(p, HeadCnt, TailCnt))
  BY DEF StateSet, Partitions
<1> HIDE DEF s, p
<1>5. serious <= sample' /\ sample' \in Numbers /\ Good(p, sample', serious)
  BY <1>1, <1>2, <1>3 DEF Numbers
<1>6. ASSUME NEW part,
             rings' = Kept(part, p, AfterSaveAll(p)), Saves(part, AllOf(p))
      PROVE  Outcome
  BY <1>2, <1>5, <1>6, SavingAll, Zenon
<1>7. CASE /\ rings' = Kept("common", p, AfterTailRecent(p))
           /\ Saves("common", TailRecent(p, HeadCnt, TailCnt))
  <2>1. Good(AfterTailRecent(p), sample', serious)
    BY <1>2, <1>5, GoodTailForgotten, Zenon
  <2>2. Good(rings', sample', serious)
    BY <1>5, <1>7, <2>1 DEF Kept
  <2>3. Saves("common", << >>)
    BY <1>7 DEF Saves
  <2> QED BY <1>1, <1>2, <1>5, <2>2, <2>3, SavingNothing
<1> QED BY <1>4, <1>6, <1>7

(* The rings with the sample of this second, when one is due. *)
LEMMA SecondKeeps ==
    ASSUME StatesInv, NEW inDue \in BOOLEAN,
           sample' = IF Sampled(inDue) THEN NextSample ELSE sample
    PROVE  /\ sample' \in Numbers /\ sample <= sample' /\ serious <= sample'
           /\ Good(RingsNow(inDue), sample', serious)
<1>1. /\ sample \in Numbers /\ serious \in Numbers /\ serious <= sample
      /\ Good(rings, sample, serious)
  BY DEF StatesInv
<1>2. CASE Sampled(inDue)
  <2> DEFINE s == NextSample
  <2>1. s \in Numbers /\ sample <= s /\ sample' = s
    BY <1>2, NextIs
  <2>2. RingsNow(inDue) = record_head_data_get(rings, HeadCnt, s)
    BY <1>2 DEF RingsNow
  <2> HIDE DEF s
  <2>3. serious <= s
    BY <1>1, <2>1 DEF Numbers
  <2>4. Good(RingsNow(inDue), s, serious)
    BY <1>1, <2>1, <2>2, <2>3, GoodSample, Zenon
  <2> QED BY <2>1, <2>3, <2>4
<1>3. CASE ~Sampled(inDue)
  BY <1>1, <1>3 DEF RingsNow, Numbers
<1> QED BY <1>2, <1>3

LEMMA TaskKeeps ==
    ASSUME StatesInv, NEW inDue \in BOOLEAN, NEW execDue \in BOOLEAN,
           Task(inDue, execDue)
    PROVE  Outcome
<1> DEFINE p == RingsNow(inDue)
<1>0. /\ sample \in Numbers /\ serious \in Numbers
  BY DEF StatesInv
<1>1. /\ sample' \in Numbers /\ sample <= sample' /\ serious <= sample'
      /\ Good(p, sample', serious)
  <2>1. sample' = IF Sampled(inDue) THEN NextSample ELSE sample
    BY DEF Task, Enter, ExecNormal, ExecRemaining
  <2> QED BY <2>1, SecondKeeps
<1>2. \/ /\ rings' = Kept(PartOf(new_state), p, AfterSaveAll(p))
         /\ Saves(PartOf(new_state), AllOf(p))
      \/ rings' = p /\ Saves("common", << >>)
      \/ /\ rings' = Kept("common", p, AfterHeadRecent(p))
         /\ Saves("common", << >>)
      \/ /\ p.head_read_cnt > 0
         /\ rings' = Kept(PartOf(cur_state), p, AfterHeadRecent(p))
         /\ Saves(PartOf(cur_state), HeadRecent(p, HeadCnt))
      \/ rings' = p /\ Saves(PartOf(cur_state), << >>)
  <2>1. CASE Enter(inDue)
    BY <2>1 DEF Enter
  <2>2. CASE ExecNormal(inDue, execDue)
    BY <2>2 DEF ExecNormal
  <2>3. CASE ExecRemaining(inDue, execDue)
    BY <2>3 DEF ExecRemaining
  <2> QED BY <2>1, <2>2, <2>3 DEF Task
<1> HIDE DEF p
<1>3. Good(AfterHeadRecent(p), sample', serious)
  BY <1>0, <1>1, GoodForgotten, Zenon
<1>4. ASSUME NEW part, rings' = Kept(part, p, AfterSaveAll(p)),
             Saves(part, AllOf(p))
      PROVE  Outcome
  BY <1>0, <1>1, <1>4, SavingAll, Zenon
<1>5. ASSUME NEW part, p.head_read_cnt > 0,
             rings' = Kept(part, p, AfterHeadRecent(p)),
             Saves(part, HeadRecent(p, HeadCnt))
      PROVE  Outcome
  BY <1>0, <1>1, <1>5, SavingRecent, Zenon
<1>6. ASSUME NEW part, Saves(part, << >>),
             rings' = p \/ rings' = Kept("common", p, AfterHeadRecent(p))
      PROVE  Outcome
  <2>1. Good(rings', sample', serious)
    BY <1>1, <1>3, <1>6 DEF Kept
  <2> QED BY <1>0, <1>1, <1>6, <2>1, SavingNothing, Zenon
<1> QED BY <1>2, <1>4, <1>5, <1>6

LEMMA StatesStep ==
    ASSUME StatesInv, [stNext]_stVars
    PROVE  StatesInv' /\ (UNCHANGED stVars \/ Outcome)
<1>1. CASE stNext
  <2>1. CASE ReportNormal \/ ReportClose \/ ReportFault \/ ReportError
    <3>1. \E save, new : StateSet(save, new)
      BY <2>1 DEF ReportNormal, ReportClose, ReportFault, ReportError
    <3> QED BY <3>1, ReportKeeps, OutcomeKeeps
  <2>2. CASE \E inDue, execDue \in BOOLEAN : Task(inDue, execDue)
    BY <2>2, TaskKeeps, OutcomeKeeps
  <2>3. CASE Reading
    <3>1. /\ batch' = << >> /\ rings' = rings /\ sample' = sample
          /\ serious' = serious
      BY <2>3 DEF Reading
    <3>2. Orderly(batch', serious)
      BY <3>1 DEF Orderly
    <3>3. Outcome
      BY <3>1, <3>2 DEF Outcome, StatesInv, Numbers
    <3> QED BY <3>3, OutcomeKeeps
  <2> QED BY <1>1, <2>1, <2>2, <2>3 DEF stNext
<1>2. CASE UNCHANGED stVars
  BY <1>2 DEF stVars, StatesInv
<1> QED BY <1>1, <1>2

LEMMA StatesInit == stInit => StatesInv
<1> SUFFICES ASSUME stInit PROVE StatesInv
  OBVIOUS
<1>1. /\ sample = 0 /\ serious = 0 /\ batch = << >>
      /\ rings = EmptyRings(HeadCnt, TailCnt)
  BY DEF stInit
<1>2. /\ rings \in Rings(HeadCnt, TailCnt, Numbers)
      /\ rings.head_read_cnt = 0 /\ rings.read_tail = 0
  <2>1. [i \in 0..(HeadCnt + TailCnt - 1) |-> 0]
          \in [0..(HeadCnt + TailCnt - 1) -> Numbers]
    BY RingSizesAre DEF Numbers
  <2>2. /\ 0 \in 0..(HeadCnt - 1) /\ 0 \in 0..(TailCnt - 1)
        /\ 0 \in 0..HeadCnt /\ 0 \in 0..TailCnt
    BY RingSizesAre
  <2> QED BY <1>1, <2>1, <2>2 DEF EmptyRings, Rings
<1>3. Window(rings, sample, serious)
  BY <1>2 DEF Window
<1> QED BY <1>1, <1>2, <1>3, RingSizesAre DEF StatesInv, Good, Numbers

LEMMA StatesAlways == stSpec => []StatesInv
<1>1. StatesInv /\ [stNext]_stVars => StatesInv'
  BY StatesStep
<1> QED BY <1>1, StatesInit, PTL DEF stSpec

(* The machine's own variables keep within their ranges. *)
Machine ==
    /\ on_off \in {0, 1}
    /\ cur_state \in CLOSE..NORMAL /\ new_state \in CLOSE..NORMAL
    /\ change_flag \in {0, 1} /\ error_remained \in 0..HeadCnt
    /\ refusing \subseteq Partitions /\ reports \in 0..MaxReports

LEMMA MachineStep == Machine /\ [stNext]_stVars => Machine'
<1> SUFFICES ASSUME Machine, [stNext]_stVars PROVE Machine'
  OBVIOUS
<1>1. ASSUME NEW save, NEW new \in CLOSE..NORMAL, StateSet(save, new)
      PROVE  Machine'
  BY <1>1, RingSizesAre DEF Machine, StateSet, StateChange
<1>2. CASE ReportNormal \/ ReportClose \/ ReportFault \/ ReportError
  <2>1. {CLOSE, ERROR, FAULT, NORMAL} \subseteq CLOSE..NORMAL
    BY DEF CLOSE, ERROR, FAULT, NORMAL
  <2> QED BY <1>1, <1>2, <2>1
          DEF ReportNormal, ReportClose, ReportFault, ReportError
<1>3. ASSUME NEW inDue \in BOOLEAN, NEW execDue \in BOOLEAN,
             Task(inDue, execDue)
      PROVE  Machine'
  <2>1. CASE Enter(inDue)
    BY <2>1, RingSizesAre DEF Machine, Enter
  <2>2. CASE ExecNormal(inDue, execDue)
    BY <2>2 DEF Machine, ExecNormal, fsmVars
  <2>3. CASE ExecRemaining(inDue, execDue)
    <3>1. error_remained' \in {error_remained, error_remained - 1}
          /\ (error_remained' # error_remained => error_remained > 0)
      BY <2>3, RingSizesAre DEF ExecRemaining
    <3>2. error_remained' \in 0..HeadCnt
      BY <3>1, RingSizesAre DEF Machine
    <3> QED BY <2>3, <3>2 DEF Machine, ExecRemaining, CLOSE, NORMAL
  <2> QED BY <1>3, <2>1, <2>2, <2>3 DEF Task
<1>4. CASE Reading
  <2>1. refusing' \subseteq Partitions
    BY <1>4 DEF Machine, Reading
  <2> QED BY <1>4, <2>1 DEF Machine, Reading, fsmVars
<1>5. CASE UNCHANGED stVars
  BY <1>5 DEF Machine, stVars
<1> QED BY <1>2, <1>3, <1>4, <1>5 DEF stNext

(* The recorder's states, rings and samples are what they should be.       *)
THEOREM StatesTypeCorrect == stSpec => []stTypeOK
<1>1. stInit => Machine
  BY RingSizesAre DEF stInit, Machine, CLOSE, NORMAL
<1>2. StatesInv /\ Machine => stTypeOK
  <2> SUFFICES ASSUME StatesInv, Machine PROVE stTypeOK
    OBVIOUS
  <2>1. /\ {sample, serious} \subseteq 0..MaxSamples
        /\ batch \in Seq(0..MaxSamples)
        /\ rings \in Rings(HeadCnt, TailCnt, 0..MaxSamples)
    BY DEF StatesInv, Good, Numbers
  <2>2. {cur_state, new_state} \subseteq CLOSE..NORMAL
    BY DEF Machine
  <2> QED BY <2>1, <2>2 DEF Machine, stTypeOK
<1> QED BY <1>1, <1>2, MachineStep, StatesAlways, PTL DEF stSpec

(* SeriousInOrder, for rings of any size: whatever is reported, refused    *)
(* and saved in between, a batch that goes to the partition for errors is  *)
(* in order, ends with a sample no older than all that is there and begins *)
(* with HeadCnt - 2 older ones at most.                                    *)
THEOREM SeriousGoInOrder == stSpec => SeriousInOrder
<1>1. StatesInv /\ [stNext]_stVars => [Ordered /\ serious <= serious']_stVars
  <2> SUFFICES ASSUME StatesInv, [stNext]_stVars, ~UNCHANGED stVars
               PROVE  Ordered /\ serious <= serious'
    OBVIOUS
  <2>1. Outcome
    BY StatesStep
  <2> QED BY <2>1 DEF Outcome, Orderly, Ordered
<1> QED BY <1>1, StatesAlways, PTL DEF SeriousInOrder, stSpec
-----------------------------------------------------------------------------
(* Uploading *)

LEMMA SizesLinear ==
    /\ Capacity \in Nat /\ Capacity > 0
    /\ MaxIndex \in Nat /\ Capacity <= MaxIndex
    /\ UPLOAD_RETRY_COUNT \in Nat /\ UPLOAD_RETRY_COUNT > 0
    /\ BBOX_PAGE_SIZE_MAX \in Nat
    /\ MaxCommands \in Nat
    /\ \A p \in PageSizes : p \in Nat /\ p > 0
BY Sizes

Left == {o \in bits_index..(upload_len - 1) : o \notin upload_bits}

(* What NextWanted is: the least offset that is left, or the window's end. *)
LEMMA NextWantedIs ==
    ASSUME upTypeOK
    PROVE  /\ Left = {} => NextWanted = upload_len
           /\ Left # {} => /\ NextWanted \in Left
                           /\ \A o \in Left : NextWanted <= o
<1>1. CASE Left = {}
  BY <1>1 DEF NextWanted, Left
<1>2. CASE Left # {}
  <2>1. Left \in SUBSET Nat
    BY DEF Left, upTypeOK
  <2>2. \E o \in Left : \A p \in Left : o <= p
    BY <1>2, <2>1, LeastNat
  <2>3. NextWanted = CHOOSE o \in Left : \A p \in Left : o <= p
    BY <1>2 DEF NextWanted, Left
  <2> QED BY <1>2, <2>2, <2>3
<1> QED BY <1>1, <1>2

(* The type invariant in two halves, since few provers like both. *)
Flags ==
    refuseOut \in BOOLEAN /\ baseOut \in BOOLEAN /\ hung \in BOOLEAN
Counters ==
    /\ last \in 0..MaxIndex /\ held \in 0..Capacity /\ held <= last
    /\ is_read_all \in {0, 1}
    /\ start_index \in 0..MaxIndex /\ upload_len \in 0..Capacity
    /\ remain_len \in 0..upload_len
    /\ upload_bits \in SUBSET (0..(Capacity - 1))
    /\ bits_index \in 0..Capacity /\ state \in {0, 1}
    /\ {cfg_retry_cnt, finish_retry_cnt} \subseteq 0..UPLOAD_RETRY_COUNT
    /\ asked \in SUBSET (0..(Capacity - 1))
    /\ commands \in 0..MaxCommands

LEMMA TypeHalves == upTypeOK <=> Flags /\ Counters
BY DEF upTypeOK, Flags, Counters

(* What is left to send is asked for; while records are being sent the     *)
(* counter of those remaining covers the rest of the window, so that the   *)
(* sending cannot stop before the window's end.                            *)
SendingInv ==
    /\ state = 0 => asked = {}
    /\ state = 1 => /\ asked \subseteq Left
                    /\ remain_len + bits_index >= upload_len
CountInv  == Counters /\ SendingInv
UploadInv == Flags /\ CountInv
-----------------------------------------------------------------------------
LEMMA UploadInit == upInit => UploadInv
<1> SUFFICES ASSUME upInit PROVE UploadInv
  OBVIOUS
<1>1. Flags
  BY DEF upInit, Flags
<1>2. Counters
  <2>1. last \in 0..MaxIndex /\ held \in 0..Capacity /\ held <= last
    BY SizesLinear DEF upInit
  <2> QED BY <2>1, SizesLinear DEF upInit, Counters
<1> QED BY <1>1, <1>2 DEF upInit, UploadInv, CountInv, SendingInv

(* No step makes a flag anything but a truth value. *)
LEMMA FlagsStep == UploadInv /\ upNext => Flags'
<1> SUFFICES ASSUME Flags, upNext PROVE Flags'
  BY DEF UploadInv
<1> USE DEF Flags, store, refusal, window, sending, retries, ghosts
<1>1. CASE SaveOne
  BY <1>1 DEF SaveOne
<1>2. ASSUME NEW p \in PageSizes, NEW n \in 0..2, bbox_upload_param_set(p, n)
      PROVE  Flags'
  BY <1>2, Zenon DEF bbox_upload_param_set
<1>3. ASSUME NEW i \in 0..MaxIndex, NEW have,
             bbox_record_replenish_data_act(i, have)
      PROVE  Flags'
  <2>1. hung' \in BOOLEAN
    <3>1. \/ UNCHANGED hung
          \/ hung' = (i < last - held)
      BY <1>3 DEF bbox_record_replenish_data_act
    <3>2. (i < last - held) \in BOOLEAN
      OBVIOUS
    <3> QED BY <3>1, <3>2, Zenon
  <2>2. refuseOut' \in BOOLEAN /\ baseOut' \in BOOLEAN
    BY <1>3, Zenon DEF bbox_record_replenish_data_act
  <2> QED BY <2>1, <2>2
<1>4. CASE RecordStop \/ RecordErase
  BY <1>4 DEF RecordStop, RecordErase, SessionCleared
<1>5. CASE bbox_config_upload_set \/ bbox_finish_upload_set
  BY <1>5 DEF bbox_config_upload_set, bbox_finish_upload_set
<1>6. ASSUME NEW sent \in BOOLEAN, UploadTick(sent) PROVE Flags'
  BY <1>6, Zenon DEF UploadTick, ConfigTick, FinishTick, SendTick, GiveUpTick
<1>7. CASE ReadAllEnds
  BY <1>7 DEF ReadAllEnds
<1>8. CASE TimePasses
  BY <1>8, Zenon DEF TimePasses
<1> HIDE DEF Flags
<1> QED BY <1>1, <1>2, <1>3, <1>4, <1>5, <1>6, <1>7, <1>8 DEF upNext
-----------------------------------------------------------------------------
LEMMA SaveKeeps == UploadInv /\ SaveOne => CountInv'
BY SizesLinear DEF UploadInv, CountInv, SaveOne, Counters, SendingInv, Left,
   Smaller, refusal, window, sending, retries, ghosts

(* A read command: its window ends at the newest record at the latest. *)
LEMMA ReadKeeps ==
    ASSUME UploadInv, NEW p \in PageSizes, NEW n \in 0..2,
           bbox_upload_param_set(p, n)
    PROVE  CountInv'
<1>0. p \in Nat /\ p > 0 /\ n * p \in Nat /\ (n # 0 => n * p > 0)
  BY SizesLinear
<1> USE SizesLinear DEF UploadInv, CountInv, Counters, SendingInv, Left
<1>1. CASE remain_len # 0
  <2>1. UNCHANGED <<refusal, window, sending, baseOut, retries, ghosts, store>>
        /\ commands < MaxCommands /\ commands' = commands + 1
    BY <1>1 DEF bbox_upload_param_set, Command
  <2> QED BY <2>1 DEF store, refusal, window, sending, retries, ghosts
<1>2. CASE remain_len = 0
  <2> DEFINE whole == p >= held \/ n = 0
             back  == IF whole THEN held ELSE Smaller(n * p, held)
             len   == IF whole THEN held ELSE Smaller(p, back)
             sent  == Smaller(len, BBOX_PAGE_SIZE_MAX)
  <2>1. back \in 0..held /\ sent \in 0..back
    <3>1. back \in 0..held /\ len \in 0..back
      BY <1>0 DEF Smaller
    <3> HIDE DEF back, len
    <3> QED BY <3>1 DEF Smaller
  <2>2. /\ start_index' = last - back
        /\ upload_len' = sent /\ remain_len' = sent
        /\ is_read_all' \in {is_read_all, 1}
        /\ cfg_retry_cnt' = 0 /\ finish_retry_cnt' = 0
        /\ asked' = {}
        /\ UNCHANGED <<upload_bits, bits_index, state, last, held>>
        /\ commands < MaxCommands /\ commands' = commands + 1
    BY <1>2 DEF bbox_upload_param_set, Command, store
  <2> HIDE DEF back, len, whole, sent
  <2> QED BY <2>1, <2>2
<1> QED BY <1>1, <1>2

LEMMA ReplenishKeeps ==
    ASSUME UploadInv, NEW i \in 0..MaxIndex,
           NEW have \in SUBSET (0..(upload_len - 1)),
           bbox_record_replenish_data_act(i, have)
    PROVE  CountInv'
<1> USE SizesLinear DEF UploadInv, CountInv, Counters, SendingInv, Left,
        window, retries, store
<1>0. commands < MaxCommands /\ commands' = commands + 1 /\ UNCHANGED store
  BY DEF bbox_record_replenish_data_act, Command
<1>1. CASE upload_len > 0 /\ state = 0
  <2>1. /\ upload_bits' = have /\ bits_index' = 0 /\ state' = 1
        /\ remain_len' = upload_len
        /\ start_index' = i
        /\ asked' = (0..(upload_len - 1)) \ have
        /\ UNCHANGED <<is_read_all, upload_len, retries>>
    BY <1>1 DEF bbox_record_replenish_data_act
  <2> QED BY <1>0, <2>1
<1>2. CASE ~(upload_len > 0 /\ state = 0)
  <2>1. UNCHANGED <<refusal, window, sending, retries, ghosts>>
    BY <1>2 DEF bbox_record_replenish_data_act
  <2> QED BY <1>0, <2>1 DEF refusal, sending, ghosts
<1> QED BY <1>1, <1>2

LEMMA CommandsKeep ==
    ASSUME UploadInv,
           RecordStop \/ RecordErase \/ bbox_config_upload_set
           \/ bbox_finish_upload_set
    PROVE  CountInv'
<1> USE SizesLinear DEF UploadInv, CountInv, Counters, SendingInv, Left,
        store, refusal, window, sending, retries, ghosts
<1>0. commands < MaxCommands /\ commands' = commands + 1
  BY DEF RecordStop, RecordErase, bbox_config_upload_set,
     bbox_finish_upload_set, Command
<1>1. CASE RecordStop \/ RecordErase
  BY <1>0, <1>1 DEF RecordStop, RecordErase, SessionCleared
<1>2. CASE bbox_config_upload_set
  BY <1>0, <1>2 DEF bbox_config_upload_set
<1>3. CASE bbox_finish_upload_set
  BY <1>0, <1>3 DEF bbox_finish_upload_set
<1> QED BY <1>1, <1>2, <1>3
-----------------------------------------------------------------------------
(* The sending of one record is the only step that needs NextWanted to be  *)
(* the least offset left: one passed over would never be sent.             *)
LEMMA SendKeeps ==
    ASSUME UploadInv, NEW sent \in BOOLEAN, SendTick(sent)
    PROVE  CountInv'
<1>0. upTypeOK
  BY TypeHalves DEF UploadInv, CountInv
<1>1. CASE remain_len > 0 /\ NextWanted < upload_len
  <2>0. NextWanted \in Left /\ \A o \in Left : NextWanted <= o
    <3>1. Left = {} => NextWanted = upload_len
      BY <1>0, NextWantedIs
    <3>2. upload_len \in Nat
      BY DEF UploadInv, CountInv, Counters
    <3> QED BY <1>0, <1>1, <3>1, <3>2, NextWantedIs
  <2>1. /\ UNCHANGED <<last, held, is_read_all, start_index, upload_len>>
        /\ UNCHANGED <<cfg_retry_cnt, commands, state, finish_retry_cnt>>
        /\ state = 1
    BY <1>1 DEF SendTick, store, window
  <2> DEFINE w == NextWanted
  <2>2. \/ /\ upload_bits' = upload_bits \union {w}
           /\ remain_len' = remain_len - 1
           /\ bits_index' = w + 1
           /\ asked' = asked \ {w}
        \/ /\ bits_index' = w
           /\ UNCHANGED <<upload_bits, remain_len, asked>>
    BY <1>1 DEF SendTick
  <2>3. w \in Left /\ (\A o \in Left : w <= o) /\ remain_len > 0
    BY <1>1, <2>0
  <2> HIDE DEF w
  <2>4. w \in bits_index..(upload_len - 1) /\ w \in Nat /\ upload_len \in Nat
    BY <2>3 DEF Left, UploadInv, CountInv, Counters
  <2>5. Counters'
    <3>1. /\ bits_index' \in 0..Capacity /\ remain_len' \in 0..upload_len'
          /\ w \in 0..(Capacity - 1)
      BY <2>1, <2>2, <2>3, <2>4, SizesLinear DEF UploadInv, CountInv, Counters
    <3>2. /\ upload_bits' \in SUBSET (0..(Capacity - 1))
          /\ asked' \in SUBSET (0..(Capacity - 1))
      BY <2>2, <3>1 DEF UploadInv, CountInv, Counters
    <3> QED BY <2>1, <3>1, <3>2 DEF UploadInv, CountInv, Counters
  <2>6. asked' \subseteq Left'
    <3> SUFFICES ASSUME NEW o \in asked' PROVE o \in Left'
      OBVIOUS
    <3>1. o \in asked /\ o \in Left /\ w <= o
      BY <2>1, <2>2, <2>3 DEF UploadInv, CountInv, SendingInv
    <3>2. /\ o \in bits_index..(upload_len - 1) /\ o \notin upload_bits
          /\ bits_index \in Nat
      BY <3>1 DEF Left, UploadInv, CountInv, Counters
    <3>3. o \in bits_index'..(upload_len' - 1) /\ o \notin upload_bits'
      BY <2>1, <2>2, <2>4, <3>1, <3>2
    <3> QED BY <3>3 DEF Left
  <2>7. remain_len' + bits_index' >= upload_len'
    BY <2>1, <2>2, <2>3, <2>4
    DEF UploadInv, CountInv, Counters, SendingInv
  <2> QED BY <2>1, <2>5, <2>6, <2>7 DEF CountInv, SendingInv
<1>2. CASE ~(remain_len > 0 /\ NextWanted < upload_len)
  <2>0. Left # {} => NextWanted \in Left
    BY <1>0, NextWantedIs
  <2>1. asked = {}
    <3>1. CASE Left = {}
      BY <3>1 DEF SendTick, UploadInv, CountInv, SendingInv
    <3>2. CASE Left # {}
      <4>1. remain_len = 0 \/ ~(NextWanted < upload_len)
        BY <1>2 DEF UploadInv, CountInv, Counters
      <4>2. NextWanted < upload_len
        BY <2>0, <3>2 DEF Left, UploadInv, CountInv, Counters
      <4> QED BY <4>1, <4>2
              DEF SendTick, UploadInv, CountInv, Counters, SendingInv, Left
    <3> QED BY <3>1, <3>2
  <2>2. /\ UNCHANGED <<last, held, is_read_all, start_index, upload_len>>
        /\ UNCHANGED <<cfg_retry_cnt, commands, upload_bits, asked>>
        /\ state' = 0 /\ remain_len' = 0
        /\ bits_index' \in {upload_len, bits_index}
        /\ finish_retry_cnt' = UPLOAD_RETRY_COUNT
    BY <1>2 DEF SendTick, store, window
  <2> QED BY <2>1, <2>2, SizesLinear
          DEF UploadInv, CountInv, Counters, SendingInv, Left
<1> QED BY <1>1, <1>2

LEMMA OtherTicksKeep ==
    ASSUME UploadInv, NEW sent \in BOOLEAN,
           ConfigTick(sent) \/ FinishTick(sent) \/ GiveUpTick
           \/ ReadAllEnds \/ TimePasses
    PROVE  CountInv'
<1> USE SizesLinear DEF UploadInv, CountInv, Counters, SendingInv, Left,
        store, refusal, window, sending, retries, ghosts
<1>1. CASE ConfigTick(sent)
  <2>1. cfg_retry_cnt > 0 /\ cfg_retry_cnt' \in {cfg_retry_cnt, cfg_retry_cnt - 1}
    BY <1>1 DEF ConfigTick
  <2> QED BY <1>1, <2>1 DEF ConfigTick
<1>2. CASE FinishTick(sent)
  <2>1. /\ finish_retry_cnt > 0
        /\ finish_retry_cnt' \in {finish_retry_cnt, finish_retry_cnt - 1}
    BY <1>2 DEF FinishTick
  <2> QED BY <1>2, <2>1 DEF FinishTick
<1>3. CASE GiveUpTick
  BY <1>3 DEF GiveUpTick
<1>4. CASE ReadAllEnds
  BY <1>4 DEF ReadAllEnds
<1>5. CASE TimePasses
  BY <1>5 DEF TimePasses
<1> HIDE DEF UploadInv, CountInv
<1> QED BY <1>1, <1>2, <1>3, <1>4, <1>5

LEMMA UploadStep == UploadInv /\ [upNext]_upVars => UploadInv'
<1> SUFFICES ASSUME UploadInv, [upNext]_upVars PROVE UploadInv'
  OBVIOUS
<1>1. CASE UNCHANGED upVars
  BY <1>1 DEF UploadInv, CountInv, Flags, Counters, SendingInv, Left, upVars,
     store, refusal, window, sending, retries, ghosts
<1>2. CASE upNext
  <2>1. CountInv'
    BY <1>2, SaveKeeps, ReadKeeps, ReplenishKeeps, CommandsKeep, SendKeeps,
       OtherTicksKeep
    DEF upNext, UploadTick
  <2> QED BY <1>2, <2>1, FlagsStep DEF UploadInv
<1> QED BY <1>1, <1>2

(* The counters and the window of a session stay inside the partition.     *)
THEOREM UploadCounters == upSpec => []upTypeOK
<1>1. UploadInv => upTypeOK
  BY TypeHalves DEF UploadInv, CountInv
<1> QED BY <1>1, UploadInit, UploadStep, PTL DEF upSpec

(* A host that is told the upload has ended has been sent every record it  *)
(* asked for: remain_len, counted down from the whole window and not from  *)
(* the records asked for, never stops the sending too early.               *)
THEOREM UploadEndIsTrue == upSpec => []EndIsTrue
<1>1. UploadInv => EndIsTrue
  BY DEF UploadInv, CountInv, Counters, SendingInv, Left, EndIsTrue, EndAnnounced
<1> QED BY <1>1, UploadInit, UploadStep, PTL DEF upSpec

(* The store *)

(* There is only one quotient. *)
LEMMA DivUnique ==
    ASSUME NEW c \in Nat \ {0}, NEW q \in Int, NEW s \in 0..(c - 1)
    PROVE  (c * q + s) \div c = q
<1> DEFINE a == c * q + s
           d == a \div c
<1>1. d \in Int /\ a % c \in 0..(c - 1) /\ a = c * d + (a % c)
  <2>1. a \in Int
    OBVIOUS
  <2> QED BY <2>1, DivMod
<1>2. a % c = s
  BY ModUnique
<1> HIDE DEF d
<1>3. c * (d - q) = 0
  BY <1>1, <1>2
<1>4. d - q >= 1 => c * (d - q) >= c
  BY <1>1
<1>5. d - q <= -1 => c * (d - q) <= -c
  BY <1>1
<1> QED BY <1>1, <1>3, <1>4, <1>5 DEF d

(* A set of naturals that is not empty and bounded has a greatest member,  *)
(* and Max is that.                                                        *)
LEMMA MaxNat ==
    ASSUME NEW M \in SUBSET Nat, M # {}, NEW c \in Nat, \A x \in M : x <= c
    PROVE  Max(M) \in M /\ \A x \in M : x <= Max(M)
<1> DEFINE T == {c - x : x \in M}
<1>1. T \in SUBSET Nat /\ T # {}
  <2>1. \A x \in M : x \in Nat /\ c - x \in Nat
    OBVIOUS
  <2>2. T \in SUBSET Nat
    BY <2>1
  <2>3. PICK x \in M : TRUE
    OBVIOUS
  <2>4. c - x \in T
    BY <2>3
  <2> QED BY <2>2, <2>4
<1>2. PICK o \in T : \A p \in T : o <= p
  <2> HIDE DEF T
  <2> QED BY <1>1, LeastNat
<1>3. PICK m \in M : o = c - m
  BY <1>2
<1>4. \A x \in M : m >= x
  <2>1. ASSUME NEW x \in M PROVE m >= x
    <3>1. c - m <= c - x
      BY <1>2, <1>3
    <3> QED BY <3>1
  <2> QED BY <2>1
<1> QED BY <1>3, <1>4 DEF Max

(* The least member of an interval. *)
LEMMA MinOfInterval ==
    ASSUME NEW a \in Int, NEW b \in Int, a <= b
    PROVE  Min(a..b) = a
BY DEF Min

(* What the sizes come to. *)
LEMMA StoreSizes ==
    /\ IndexBlocks \in Nat \ {0} /\ BlockWords \in Nat \ {0, 1}
    /\ index_cnt \in Nat \ {0}
    /\ DataBlocks \in Nat \ {0} /\ BlockUnits \in Nat \ {0}
    /\ RecUnits \in Nat \ {0} /\ RecUnits <= BlockUnits
    /\ data_size \in Nat \ {0} /\ data_size >= BlockUnits
    /\ data_cnt \in Nat \ {0}
    /\ MaxSaves \in Nat \ {0} /\ MaxFails \in Nat /\ LookBack \in Nat
<1>1. /\ IndexBlocks \in Nat \ {0} /\ BlockWords \in Nat \ {0, 1}
      /\ DataBlocks \in Nat \ {0} /\ BlockUnits \in Nat \ {0}
      /\ RecUnits \in Nat \ {0} /\ RecUnits <= BlockUnits
      /\ MaxSaves \in Nat \ {0} /\ MaxFails \in Nat /\ LookBack \in Nat
  BY Geometry
<1>2. index_cnt \in Nat \ {0}
  BY <1>1 DEF index_cnt
<1>3. data_size \in Nat \ {0} /\ data_size >= BlockUnits
  BY <1>1 DEF data_size
<1>4. /\ data_cnt \in Int /\ data_size % RecUnits \in 0..(RecUnits - 1)
      /\ data_size = RecUnits * data_cnt + (data_size % RecUnits)
  BY <1>1, <1>3, DivMod DEF data_cnt
<1>5. data_cnt \in Nat \ {0}
  <2>1. data_cnt <= 0 => RecUnits * data_cnt <= 0
    BY <1>1, <1>4
  <2> QED BY <1>1, <1>3, <1>4, <2>1
<1> QED BY <1>1, <1>2, <1>3, <1>5

(* What the code does not see to: the data area holds a whole number of    *)
(* records, and power fails less often inside an operation than the search *)
(* looks back.                                                             *)
WholeRecords == data_size % RecUnits = 0
FewFailures  == MaxFails < LookBack

LEMMA WholeSizes ==
    ASSUME WholeRecords
    PROVE  data_cnt * RecUnits = data_size
<1>1. RecUnits \in Nat \ {0} /\ data_size \in Nat
  BY StoreSizes
<1>2. data_cnt \in Int /\ data_size = RecUnits * data_cnt + (data_size % RecUnits)
  BY <1>1, DivMod DEF data_cnt
<1> QED BY <1>1, <1>2 DEF WholeRecords

(* Positions on the data area unrolled: the area begins anew every         *)
(* data_size units.                                                        *)
LEMMA Straight ==
    ASSUME NEW c \in Nat \ {0}, NEW p \in Int, NEW t \in Nat,
           (p % c) + t < c
    PROVE  (p + t) % c = (p % c) + t
<1>1. /\ p % c \in 0..(c - 1) /\ p \div c \in Int
      /\ p = c * (p \div c) + (p % c)
  BY DivMod
<1> DEFINE d == p \div c
           m == p % c
<1> HIDE DEF d, m
<1>2. m + t \in 0..(c - 1) /\ d \in Int /\ p + t = c * d + (m + t)
  BY <1>1 DEF d, m
<1>3. (c * d + (m + t)) % c = m + t
  BY <1>2, ModUnique
<1> QED BY <1>2, <1>3 DEF m

(* Where record i begins, and all its units. *)
LEMMA RecordPlace ==
    ASSUME WholeRecords,
           NEW i \in Nat
    PROVE  /\ (i % data_cnt) * RecUnits = (i * RecUnits) % data_size
           /\ ((i * RecUnits) % data_size) + RecUnits <= data_size
<1> DEFINE q == i \div data_cnt
           r == i % data_cnt
<1>1. q \in Int /\ r \in 0..(data_cnt - 1) /\ i = data_cnt * q + r
  BY StoreSizes, DivMod
<1> HIDE DEF q, r
<1>2. r * RecUnits \in Nat /\ r * RecUnits + RecUnits <= data_cnt * RecUnits
  <2>1. (data_cnt - 1 - r) * RecUnits >= 0
    BY <1>1, StoreSizes
  <2>2. (data_cnt - 1 - r) * RecUnits = data_cnt * RecUnits - RecUnits - (r * RecUnits)
    BY <1>1, StoreSizes
  <2>3. r * RecUnits \in Nat /\ data_cnt * RecUnits \in Nat
    BY <1>1, StoreSizes
  <2> QED BY <2>1, <2>2, <2>3, StoreSizes
<1>3. i * RecUnits = (data_cnt * RecUnits) * q + (r * RecUnits)
  BY <1>1, StoreSizes
<1>4. i * RecUnits = data_size * q + (r * RecUnits)
  BY <1>3, WholeSizes
<1>5. r * RecUnits \in 0..(data_size - 1)
  BY <1>2, StoreSizes, WholeSizes
<1>6. (data_size * q + (r * RecUnits)) % data_size = r * RecUnits
  BY <1>1, <1>5, StoreSizes, ModUnique
<1> QED BY <1>2, <1>4, <1>6, StoreSizes, WholeSizes DEF r

LEMMA RecordUnitsAre ==
    ASSUME WholeRecords,
           NEW i \in Nat
    PROVE  /\ RecordUnits(i) = ((i * RecUnits) % data_size)
                               ..(((i * RecUnits) % data_size) + RecUnits - 1)
           /\ RecordUnits(i) \subseteq 0..(data_size - 1)
           /\ Min(RecordUnits(i)) = (i * RecUnits) % data_size
           /\ Min(RecordUnits(i)) \in RecordUnits(i)
           /\ \A u : u \in RecordUnits(i) <=>
                \E x \in (i * RecUnits)..(i * RecUnits + RecUnits - 1) :
                   u = x % data_size
<1> DEFINE a == (i * RecUnits) % data_size
           p == i * RecUnits
<1>1. p \in Nat
  BY StoreSizes
<1>2. a \in Nat /\ a + RecUnits <= data_size
  <2>1. a \in 0..(data_size - 1)
    BY <1>1, StoreSizes, DivMod
  <2> QED BY <2>1, RecordPlace
<1>3. RecordUnits(i) = a..(a + RecUnits - 1)
  BY RecordPlace DEF RecordUnits
<1>4. \A t \in 0..(RecUnits - 1) : (p + t) % data_size = a + t
  <2>1. ASSUME NEW t \in 0..(RecUnits - 1)
        PROVE  (p + t) % data_size = a + t
    <3>1. t \in Nat /\ a + t < data_size
      BY <1>2, StoreSizes
    <3> QED BY <1>1, <3>1, StoreSizes, Straight
  <2> QED BY <2>1
<1> HIDE DEF a, p
<1>5. Min(RecordUnits(i)) = a
  BY <1>2, <1>3, StoreSizes, MinOfInterval
<1>6. ASSUME NEW u
      PROVE  u \in RecordUnits(i) <=>
                \E x \in p..(p + RecUnits - 1) : u = x % data_size
  <2>1. ASSUME u \in RecordUnits(i)
        PROVE  \E x \in p..(p + RecUnits - 1) : u = x % data_size
    <3>1. u - a \in 0..(RecUnits - 1) /\ u = a + (u - a)
      BY <1>2, <1>3, <2>1, StoreSizes
    <3>2. p + (u - a) \in p..(p + RecUnits - 1)
      BY <1>1, <3>1, StoreSizes
    <3> QED BY <1>4, <3>1, <3>2
  <2>2. ASSUME NEW x \in p..(p + RecUnits - 1), u = x % data_size
        PROVE  u \in RecordUnits(i)
    <3>1. x - p \in 0..(RecUnits - 1) /\ x = p + (x - p)
      BY <1>1, StoreSizes
    <3>2. u = a + (x - p)
      BY <1>4, <2>2, <3>1
    <3> QED BY <1>2, <1>3, <3>1, <3>2, StoreSizes
  <2> QED BY <2>1, <2>2
<1> QED BY <1>2, <1>3, <1>5, <1>6, StoreSizes DEF a, p

(* The sectors of the data area, by position. *)
LEMMA SectorUnits ==
    ASSUME NEW q \in Nat
    PROVE  /\ DataBlock(q % DataBlocks) \subseteq 0..(data_size - 1)
           /\ \A u : u \in DataBlock(q % DataBlocks) <=>
                \E x \in (BlockUnits * q)..(BlockUnits * q + BlockUnits - 1) :
                   u = x % data_size
<1> DEFINE e == q \div DataBlocks
           f == q % DataBlocks
           p == BlockUnits * q
           a == f * BlockUnits
<1>1. e \in Int /\ f \in 0..(DataBlocks - 1) /\ q = DataBlocks * e + f
  BY StoreSizes, DivMod
<1>2. DataBlock(f) = a..(a + BlockUnits - 1)
  BY DEF DataBlock
<1> HIDE DEF e, f
<1>3. a \in Nat /\ a + BlockUnits <= data_size
  <2>1. (DataBlocks - 1 - f) * BlockUnits >= 0 /\ f * BlockUnits \in Nat
    BY <1>1, StoreSizes
  <2>2. (DataBlocks - 1 - f) * BlockUnits
          = DataBlocks * BlockUnits - BlockUnits - (f * BlockUnits)
    BY <1>1, StoreSizes
  <2>3. DataBlocks * BlockUnits \in Nat
    BY StoreSizes
  <2> QED BY <2>1, <2>2, <2>3, StoreSizes DEF data_size
<1>4. p \in Nat /\ p = data_size * e + a
  <2>1. p \in Nat
    BY StoreSizes
  <2>2. BlockUnits * q = (DataBlocks * BlockUnits) * e + (f * BlockUnits)
    BY <1>1, StoreSizes
  <2> QED BY <2>1, <2>2 DEF data_size
<1> HIDE DEF p, a
<1>5. \A t \in 0..(BlockUnits - 1) : (p + t) % data_size = a + t
  <2>1. ASSUME NEW t \in 0..(BlockUnits - 1)
        PROVE  (p + t) % data_size = a + t
    <3>1. a + t \in 0..(data_size - 1)
      BY <1>3, StoreSizes
    <3>2. (data_size * e + (a + t)) % data_size = a + t
      BY <1>1, <3>1, StoreSizes, ModUnique
    <3>3. data_size * e \in Int
      BY <1>1, StoreSizes
    <3>4. data_size * e + (a + t) = p + t
      BY <1>3, <1>4, <3>3
    <3> QED BY <3>2, <3>4
  <2> QED BY <2>1
<1>6. ASSUME NEW u
      PROVE  u \in DataBlock(f) <=>
                \E x \in p..(p + BlockUnits - 1) : u = x % data_size
  <2>1. ASSUME u \in DataBlock(f)
        PROVE  \E x \in p..(p + BlockUnits - 1) : u = x % data_size
    <3>1. u - a \in 0..(BlockUnits - 1) /\ u = a + (u - a)
      BY <1>2, <1>3, <2>1, StoreSizes
    <3>2. p + (u - a) \in p..(p + BlockUnits - 1)
      BY <1>4, <3>1, StoreSizes
    <3> QED BY <1>5, <3>1, <3>2
  <2>2. ASSUME NEW x \in p..(p + BlockUnits - 1), u = x % data_size
        PROVE  u \in DataBlock(f)
    <3>1. x - p \in 0..(BlockUnits - 1) /\ x = p + (x - p)
      BY <1>4, StoreSizes
    <3>2. u = a + (x - p)
      BY <1>5, <2>2, <3>1
    <3> QED BY <1>2, <1>3, <3>1, <3>2, StoreSizes
  <2> QED BY <2>1, <2>2
<1> QED BY <1>2, <1>3, <1>6, StoreSizes DEF f, p

(* The position of the sector in which record n begins, and when it        *)
(* reaches the next one.                                                   *)
SectorOf(n) == n * RecUnits - ((n * RecUnits) % BlockUnits)
Crosses(n) == n * RecUnits + RecUnits >= SectorOf(n) + BlockUnits

(* The start of record n as the code computes it. *)
StartOf(n) == (n % data_cnt) * RecUnits

LEMMA SectorPlace ==
    ASSUME WholeRecords,
           NEW n \in Nat
    PROVE  /\ n * RecUnits \in Nat /\ SectorOf(n) \in Nat
           /\ SectorOf(n) <= n * RecUnits
           /\ n * RecUnits < SectorOf(n) + BlockUnits
           /\ StartOf(n) % BlockUnits = (n * RecUnits) % BlockUnits
           /\ (n * RecUnits) % BlockUnits = 0 <=> SectorOf(n) = n * RecUnits
           /\ (StartOf(n) \div BlockUnits # (StartOf(n) + RecUnits) \div BlockUnits)
                <=> Crosses(n)
           /\ \A u : u \in DataBlock(StartOf(n) \div BlockUnits) <=>
                \E x \in SectorOf(n)..(SectorOf(n) + BlockUnits - 1) :
                   u = x % data_size
           /\ \A u : u \in DataBlock((StartOf(n) \div BlockUnits + 1) % DataBlocks)
                <=> \E x \in (SectorOf(n) + BlockUnits)
                              ..(SectorOf(n) + 2 * BlockUnits - 1) :
                       u = x % data_size
           /\ DataBlock(StartOf(n) \div BlockUnits) \subseteq 0..(data_size - 1)
           /\ DataBlock((StartOf(n) \div BlockUnits + 1) % DataBlocks)
                \subseteq 0..(data_size - 1)
<1> DEFINE p == n * RecUnits
           q == p \div BlockUnits
           r == p % BlockUnits
           e == q \div DataBlocks
           f == q % DataBlocks
<1>1. p \in Nat
  BY StoreSizes
<1>2. q \in Int /\ r \in 0..(BlockUnits - 1) /\ p = BlockUnits * q + r
  <2>1. p \in Int
    BY <1>1
  <2> HIDE DEF p
  <2> QED BY <2>1, StoreSizes, DivMod
<1>3. SectorOf(n) = BlockUnits * q
  <2>1. BlockUnits * q \in Int
    BY <1>2, StoreSizes
  <2> QED BY <1>2, <2>1 DEF SectorOf
<1> HIDE DEF p, q, r
<1>4. q \in Nat
  <2>1. q <= -1 => BlockUnits * q <= -BlockUnits
    BY <1>2, StoreSizes
  <2> QED BY <1>1, <1>2, <2>1, StoreSizes
<1>5. e \in Int /\ f \in 0..(DataBlocks - 1) /\ q = DataBlocks * e + f
  BY <1>2, StoreSizes, DivMod
<1> HIDE DEF e, f
<1>6. StartOf(n) = BlockUnits * f + r
  <2>1. BlockUnits * f \in Nat /\ BlockUnits * f + BlockUnits <= data_size
    <3>1. (DataBlocks - 1 - f) * BlockUnits >= 0 /\ BlockUnits * f \in Nat
      BY <1>5, StoreSizes
    <3>2. (DataBlocks - 1 - f) * BlockUnits
            = DataBlocks * BlockUnits - BlockUnits - (BlockUnits * f)
      BY <1>5, StoreSizes
    <3>3. DataBlocks * BlockUnits \in Nat
      BY StoreSizes
    <3> QED BY <3>1, <3>2, <3>3, StoreSizes DEF data_size
  <2>2. BlockUnits * q + r = (DataBlocks * BlockUnits) * e + (BlockUnits * f + r)
    BY <1>2, <1>5, StoreSizes
  <2>3. p = data_size * e + (BlockUnits * f + r)
    BY <1>2, <2>2 DEF data_size
  <2>4. BlockUnits * f + r \in 0..(data_size - 1)
    BY <1>2, <2>1, StoreSizes
  <2>5. (data_size * e + (BlockUnits * f + r)) % data_size = BlockUnits * f + r
    BY <1>5, <2>4, StoreSizes, ModUnique
  <2> QED BY <2>3, <2>5, RecordPlace DEF StartOf, p
<1>7. StartOf(n) \div BlockUnits = f /\ StartOf(n) % BlockUnits = r
  BY <1>2, <1>5, <1>6, StoreSizes, ModUnique, DivUnique
<1>8. (StartOf(n) \div BlockUnits # (StartOf(n) + RecUnits) \div BlockUnits)
        <=> r + RecUnits >= BlockUnits
  <2>1. CASE r + RecUnits >= BlockUnits
    <3>1. r + RecUnits - BlockUnits \in 0..(BlockUnits - 1)
      BY <1>2, <2>1, StoreSizes
    <3>2. (BlockUnits * (f + 1) + (r + RecUnits - BlockUnits)) \div BlockUnits = f + 1
      <4>1. f + 1 \in Int
        BY <1>5, StoreSizes
      <4> QED BY <3>1, <4>1, StoreSizes, DivUnique
    <3>3. BlockUnits * (f + 1) + (r + RecUnits - BlockUnits)
            = StartOf(n) + RecUnits
      BY <1>2, <1>5, <1>6, StoreSizes
    <3> QED BY <1>5, <1>7, <2>1, <3>2, <3>3, StoreSizes
  <2>2. CASE r + RecUnits < BlockUnits
    <3>1. r + RecUnits \in 0..(BlockUnits - 1)
      BY <1>2, <2>2, StoreSizes
    <3>2. (BlockUnits * f + (r + RecUnits)) \div BlockUnits = f
      <4>1. f \in Int
        BY <1>5
      <4> QED BY <3>1, <4>1, StoreSizes, DivUnique
    <3>3. BlockUnits * f + (r + RecUnits) = StartOf(n) + RecUnits
      BY <1>2, <1>5, <1>6, StoreSizes
    <3> QED BY <1>2, <1>7, <2>2, <3>2, <3>3, StoreSizes
  <2> QED BY <1>2, <2>1, <2>2, StoreSizes
<1>9. BlockUnits * (q + 1) = BlockUnits * q + BlockUnits
      /\ BlockUnits * q \in Nat
  BY <1>4, StoreSizes
<1>10. (f + 1) % DataBlocks = (q + 1) % DataBlocks
  <2>1. f = q % DataBlocks
    BY DEF f
  <2>2. ((q % DataBlocks) + 1) % DataBlocks = (q + 1) % DataBlocks
    <3>1. DataBlocks \in Nat \ {0}
      BY StoreSizes
    <3>2. q \in Int /\ 1 \in Int
      BY <1>2
    <3> QED BY <3>1, <3>2, ModAdd
  <2> QED BY <2>1, <2>2
<1>11. \A u : u \in DataBlock(f) <=>
          \E x \in SectorOf(n)..(SectorOf(n) + BlockUnits - 1) : u = x % data_size
  BY <1>3, <1>4, SectorUnits DEF f
<1>12. \A u : u \in DataBlock((q + 1) % DataBlocks) <=>
          \E x \in (BlockUnits * (q + 1))
                    ..(BlockUnits * (q + 1) + BlockUnits - 1) : u = x % data_size
  BY <1>4, SectorUnits
<1>13. \A u : u \in DataBlock((f + 1) % DataBlocks) <=>
          \E x \in (SectorOf(n) + BlockUnits)
                    ..(SectorOf(n) + 2 * BlockUnits - 1) : u = x % data_size
  <2>1. BlockUnits * (q + 1) = SectorOf(n) + BlockUnits
    BY <1>3, <1>9
  <2>2. BlockUnits * (q + 1) + BlockUnits - 1 = SectorOf(n) + 2 * BlockUnits - 1
    BY <1>3, <1>9, StoreSizes
  <2> QED BY <1>10, <1>12, <2>1, <2>2
<1>14. /\ DataBlock(f) \subseteq 0..(data_size - 1)
       /\ DataBlock((f + 1) % DataBlocks) \subseteq 0..(data_size - 1)
  <2>1. DataBlock(q % DataBlocks) \subseteq 0..(data_size - 1)
    BY <1>4, SectorUnits
  <2>2. DataBlock((q + 1) % DataBlocks) \subseteq 0..(data_size - 1)
    BY <1>4, SectorUnits
  <2> QED BY <1>10, <2>1, <2>2 DEF f
<1>15. Crosses(n) <=> r + RecUnits >= BlockUnits
  BY <1>2, <1>3, <1>9, StoreSizes DEF Crosses, p
<1>16. /\ SectorOf(n) \in Nat /\ SectorOf(n) <= p
       /\ p < SectorOf(n) + BlockUnits /\ (r = 0 <=> SectorOf(n) = p)
  BY <1>2, <1>3, <1>9, StoreSizes
<1> QED BY <1>1, <1>7, <1>8, <1>11, <1>13, <1>14, <1>15, <1>16 DEF p, r

(* The sector of the next record. *)
LEMMA NextSector ==
    ASSUME NEW n \in Nat
    PROVE  /\ Crosses(n) => SectorOf(n + 1) = SectorOf(n) + BlockUnits
           /\ ~Crosses(n) => SectorOf(n + 1) = SectorOf(n)
           /\ (n + 1) * RecUnits = n * RecUnits + RecUnits
<1> DEFINE p == n * RecUnits
           q == p \div BlockUnits
           r == p % BlockUnits
<1>1. p \in Nat /\ (n + 1) * RecUnits = p + RecUnits
  BY StoreSizes
<1>2. q \in Int /\ r \in 0..(BlockUnits - 1) /\ p = BlockUnits * q + r
  <2>1. p \in Int
    BY <1>1
  <2> HIDE DEF p
  <2> QED BY <2>1, StoreSizes, DivMod
<1>3. /\ SectorOf(n) = p - r
      /\ SectorOf(n + 1) = (p + RecUnits) - ((p + RecUnits) % BlockUnits)
      /\ Crosses(n) <=> p + RecUnits >= SectorOf(n) + BlockUnits
  <2>1. SectorOf(n) = p - r
    BY DEF SectorOf
  <2>2. SectorOf(n + 1) = (n + 1) * RecUnits - (((n + 1) * RecUnits) % BlockUnits)
    BY DEF SectorOf
  <2>3. Crosses(n) <=> p + RecUnits >= SectorOf(n) + BlockUnits
    BY DEF Crosses
  <2> DEFINE z == (n + 1) * RecUnits
  <2>5. z = p + RecUnits /\ SectorOf(n + 1) = z - (z % BlockUnits)
    BY <1>1, <2>2
  <2> HIDE DEF p, r, z
  <2>4. SectorOf(n + 1) = (p + RecUnits) - ((p + RecUnits) % BlockUnits)
    <3>1. z % BlockUnits = (p + RecUnits) % BlockUnits
      BY <2>5
    <3>2. z - (z % BlockUnits) = (p + RecUnits) - ((p + RecUnits) % BlockUnits)
      BY <2>5, <3>1, Zenon
    <3> QED BY <2>5, <3>2
  <2> QED BY <2>1, <2>3, <2>4
<1> HIDE DEF p, q, r
<1>4. Crosses(n) <=> r + RecUnits >= BlockUnits
  BY <1>1, <1>2, <1>3, StoreSizes
<1>5. CASE r + RecUnits >= BlockUnits
  <2>1. r + RecUnits - BlockUnits \in 0..(BlockUnits - 1) /\ q + 1 \in Int
    BY <1>2, <1>5, StoreSizes
  <2>2. (BlockUnits * (q + 1) + (r + RecUnits - BlockUnits)) % BlockUnits
          = r + RecUnits - BlockUnits
    BY <2>1, StoreSizes, ModUnique
  <2>3. BlockUnits * (q + 1) + (r + RecUnits - BlockUnits) = p + RecUnits
    BY <1>2, StoreSizes
  <2>4. SectorOf(n + 1) = SectorOf(n) + BlockUnits
    BY <1>1, <1>2, <1>3, <2>2, <2>3, StoreSizes
  <2> QED BY <1>1, <1>4, <1>5, <2>4 DEF p
<1>6. CASE r + RecUnits < BlockUnits
  <2>1. r + RecUnits \in 0..(BlockUnits - 1)
    BY <1>2, <1>6, StoreSizes
  <2>2. (BlockUnits * q + (r + RecUnits)) % BlockUnits = r + RecUnits
    BY <1>2, <2>1, StoreSizes, ModUnique
  <2>3. BlockUnits * q + (r + RecUnits) = p + RecUnits
    BY <1>2, StoreSizes
  <2>4. SectorOf(n + 1) = SectorOf(n)
    BY <1>1, <1>2, <1>3, <2>2, <2>3, StoreSizes
  <2>5. ~(r + RecUnits >= BlockUnits)
    BY <1>2, <1>6, StoreSizes
  <2> QED BY <1>1, <1>4, <2>4, <2>5 DEF p
<1> QED BY <1>2, <1>5, <1>6, StoreSizes

(* What the save, the power failure and the restart tell apart of the data *)
(* area: whether positions p to q - 1 are erased, whether the sector of    *)
(* record n is from the record on, and whether it is behind the record.    *)
Clear(d, p, q) == \A x \in p..(q - 1) : d[x % data_size] = Erased
Clean(d, n) == Clear(d, n * RecUnits, SectorOf(n) + BlockUnits)
Rest(d, n) ==
    \/ (n * RecUnits) % BlockUnits = 0
    \/ Clear(d, n * RecUnits + RecUnits, SectorOf(n) + BlockUnits)
Ahead(d, n) ==
    Crosses(n) => Clear(d, SectorOf(n) + BlockUnits, SectorOf(n) + 2 * BlockUnits)
(* Record m was begun and is to be written again. *)
Redo(d, m) ==
    /\ m >= 1 /\ ~Sound(d, m) /\ Rest(d, m)
    /\ m = 1 \/ Sound(d, m - 1)
(* In the save of record n, after f power failures. *)
DataOK(d, f, n) ==
    \/ n = 0
    \/ n >= 1 /\ Clean(d, n) /\ (n = 1 \/ f = 1 \/ Sound(d, n - 1))
    \/ n >= 2 /\ f = 1 /\ Rest(d, n) /\ Sound(d, n - 1)
(* Records that are looked for. *)
Is(d, k, e, i) == k[i] > e /\ Sound(d, i) /\ ReadAt(d, i).id = k[i]
Below(d, k, e, n) == \A i \in 1..MaxSaves : Is(d, k, e, i) => i < n

(* Units that an erase or a power failure has changed are no data. *)
Spoils(d, e, T) ==
    \A u \in 0..(data_size - 1) :
        e[u] = d[u] \/ (u \in T /\ e[u] \in {Erased, Junk})
Leaves(d, e, T) == \A u \in (0..(data_size - 1)) \ T : e[u] = d[u]
Within(p, q, T) == \A u \in T : \E x \in p..(q - 1) : u = x % data_size

LEMMA SoundIs ==
    ASSUME WholeRecords,
           NEW d, NEW i \in Nat
    PROVE  /\ ReadAt(d, i) = d[(i * RecUnits) % data_size]
           /\ Sound(d, i) <=>
                /\ d[(i * RecUnits) % data_size] \in Records
                /\ \A x \in (i * RecUnits)..(i * RecUnits + RecUnits - 1) :
                     d[x % data_size] = d[(i * RecUnits) % data_size]
           /\ (i * RecUnits) % data_size \in 0..(data_size - 1)
           /\ \A x \in (i * RecUnits)..(i * RecUnits + RecUnits - 1) :
                x % data_size \in 0..(data_size - 1)
           /\ i * RecUnits \in (i * RecUnits)..(i * RecUnits + RecUnits - 1)
<1> DEFINE p == i * RecUnits
           a == p % data_size
<1>1. /\ Min(RecordUnits(i)) = a /\ RecordUnits(i) \subseteq 0..(data_size - 1)
      /\ a \in RecordUnits(i)
      /\ \A u : u \in RecordUnits(i) <=>
           \E x \in p..(p + RecUnits - 1) : u = x % data_size
  BY RecordUnitsAre
<1>2. p \in Nat /\ p \in p..(p + RecUnits - 1)
  BY StoreSizes
<1> HIDE DEF p
<1>3. ReadAt(d, i) = d[a]
  BY <1>1 DEF ReadAt
<1>4. Sound(d, i) <=> /\ d[a] \in Records
                      /\ \A x \in p..(p + RecUnits - 1) : d[x % data_size] = d[a]
  BY <1>1 DEF Sound
<1>5. \A x \in p..(p + RecUnits - 1) : x % data_size \in 0..(data_size - 1)
  BY <1>1
<1> QED BY <1>1, <1>2, <1>3, <1>4, <1>5 DEF p

LEMMA SoundBefore ==
    ASSUME WholeRecords,
           NEW d, NEW e, NEW T, Spoils(d, e, T), NEW i \in Nat, Sound(e, i)
    PROVE  Sound(d, i) /\ ReadAt(d, i) = ReadAt(e, i)
<1> DEFINE p == i * RecUnits
           a == p % data_size
<1>1. e[a] \in Records /\ a \in 0..(data_size - 1) /\ p \in p..(p + RecUnits - 1)
  BY SoundIs
<1>2. \A x \in p..(p + RecUnits - 1) :
        e[x % data_size] = e[a] /\ x % data_size \in 0..(data_size - 1)
  BY SoundIs
<1> HIDE DEF p
<1>3. \A x \in p..(p + RecUnits - 1) : e[x % data_size] \notin {Erased, Junk}
  BY <1>1, <1>2, NoData
<1>4. \A x \in p..(p + RecUnits - 1) : d[x % data_size] = e[a]
  BY <1>2, <1>3 DEF Spoils
<1> HIDE DEF a
<1>5. d[a] = e[a]
  BY <1>1, <1>4 DEF a
<1> QED BY <1>1, <1>4, <1>5, SoundIs DEF a, p

LEMMA SpoilsLeaves ==
    ASSUME NEW d, NEW e, NEW T, Spoils(d, e, T)
    PROVE  Leaves(d, e, T)
BY DEF Spoils, Leaves

LEMMA BelowStays ==
    ASSUME WholeRecords,
           NEW d, NEW e, NEW T, Spoils(d, e, T), NEW k, NEW r, NEW n,
           Below(d, k, r, n)
    PROVE  Below(e, k, r, n)
<1> SUFFICES ASSUME NEW i \in 1..MaxSaves, Is(e, k, r, i) PROVE i < n
  BY DEF Below
<1>1. i \in Nat
  BY StoreSizes
<1>2. Sound(d, i) /\ ReadAt(d, i) = ReadAt(e, i)
  BY <1>1, SoundBefore DEF Is
<1>3. Is(d, k, r, i)
  BY <1>2 DEF Is
<1> QED BY <1>3 DEF Below

(* Positions less than a lap apart are different units. *)
LEMMA Disjoint ==
    ASSUME NEW x \in Int, NEW y \in Int, x < y, y < x + data_size
    PROVE  x % data_size # y % data_size
BY StoreSizes, ModDistinct

LEMMA ClearStays ==
    ASSUME NEW d, NEW e, NEW T, Leaves(d, e, T),
           NEW p \in Int, NEW q \in Int, Clear(d, p, q),
           \A x \in p..(q - 1) : x % data_size \notin T
    PROVE  Clear(e, p, q)
<1> SUFFICES ASSUME NEW x \in p..(q - 1) PROVE e[x % data_size] = Erased
  BY DEF Clear
<1>1. x % data_size \in 0..(data_size - 1)
  BY StoreSizes, DivMod
<1> QED BY <1>1 DEF Leaves, Clear

LEMMA SoundStays ==
    ASSUME WholeRecords,
           NEW d, NEW e, NEW T, Leaves(d, e, T), NEW i \in Nat, Sound(d, i),
           \A x \in (i * RecUnits)..(i * RecUnits + RecUnits - 1) :
             x % data_size \notin T
    PROVE  Sound(e, i)
<1> DEFINE p == i * RecUnits
           a == p % data_size
<1>1. d[a] \in Records /\ p \in p..(p + RecUnits - 1)
  BY SoundIs
<1>2. \A x \in p..(p + RecUnits - 1) :
        d[x % data_size] = d[a] /\ x % data_size \in 0..(data_size - 1)
  BY SoundIs
<1>3. \A x \in p..(p + RecUnits - 1) : x % data_size \notin T
  OBVIOUS
<1> HIDE DEF p
<1>4. \A x \in p..(p + RecUnits - 1) : e[x % data_size] = d[a]
  BY <1>2, <1>3 DEF Leaves
<1> HIDE DEF a
<1>5. e[a] = d[a]
  BY <1>1, <1>4 DEF a
<1> QED BY <1>1, <1>4, <1>5, SoundIs DEF a, p

(* What is touched in the save of record n leaves the record before it. *)
LEMMA RecordBefore ==
    ASSUME WholeRecords,
           DataBlocks >= 3, NEW n \in Nat \ {0}, NEW T,
           Within(n * RecUnits, SectorOf(n) + 2 * BlockUnits, T)
    PROVE  \A x \in ((n - 1) * RecUnits)..((n - 1) * RecUnits + RecUnits - 1) :
             x % data_size \notin T
<1> DEFINE p == n * RecUnits
           s == SectorOf(n)
           z == (n - 1) * RecUnits
           q == s + 2 * BlockUnits
<1>1. /\ p \in Nat /\ s \in Nat /\ s <= p /\ p < s + BlockUnits
      /\ q = s + 2 * BlockUnits
  BY SectorPlace
<1>0. Within(p, q, T)
  OBVIOUS
<1>2. z \in Int /\ z + RecUnits = p
  BY StoreSizes
<1>3. data_size >= 3 * BlockUnits
  <2>1. (DataBlocks - 3) * BlockUnits >= 0
    BY StoreSizes
  <2>2. (DataBlocks - 3) * BlockUnits = DataBlocks * BlockUnits - (3 * BlockUnits)
    BY StoreSizes
  <2>3. DataBlocks * BlockUnits \in Nat
    BY StoreSizes
  <2> QED BY <2>1, <2>2, <2>3, StoreSizes DEF data_size
<1> HIDE DEF p, s, z, q
<1>4. ASSUME NEW x \in z..(z + RecUnits - 1), x % data_size \in T PROVE FALSE
  <2>1. PICK y \in p..(q - 1) : x % data_size = y % data_size
    BY <1>0, <1>4 DEF Within
  <2>2. x \in Int /\ y \in Int /\ x < y /\ y < x + data_size
    BY <1>1, <1>2, <1>3, StoreSizes
  <2> QED BY <2>1, <2>2, Disjoint
<1> QED BY <1>4 DEF z

LEMMA SoundBeforeStays ==
    ASSUME WholeRecords,
           DataBlocks >= 3, NEW n \in Nat \ {0}, NEW d, NEW e, NEW T,
           Leaves(d, e, T),
           Within(n * RecUnits, SectorOf(n) + 2 * BlockUnits, T),
           Sound(d, n - 1)
    PROVE  Sound(e, n - 1)
<1>1. n - 1 \in Nat
  OBVIOUS
<1>2. \A x \in ((n - 1) * RecUnits)..((n - 1) * RecUnits + RecUnits - 1) :
        x % data_size \notin T
  BY RecordBefore
<1> QED BY <1>1, <1>2, SoundStays

(* Erased from record n on is erased behind the record before. *)
LEMMA CleanRest ==
    ASSUME WholeRecords,
           NEW n \in Nat, NEW d, Clean(d, n + 1)
    PROVE  Rest(d, n)
<1> DEFINE p == n * RecUnits
           s == SectorOf(n)
<1>1. p \in Nat /\ s \in Nat
  BY SectorPlace
<1>2. Crosses(n) => ~(p + RecUnits < s + BlockUnits)
  BY <1>1, StoreSizes DEF Crosses
<1>3. CASE Crosses(n)
  <2>1. \A x \in (p + RecUnits)..((s + BlockUnits) - 1) : FALSE
    BY <1>1, <1>2, <1>3, StoreSizes
  <2> QED BY <2>1 DEF Rest, Clear
<1>4. CASE ~Crosses(n)
  <2>1. SectorOf(n + 1) = s /\ (n + 1) * RecUnits = p + RecUnits
    BY <1>4, NextSector
  <2> QED BY <2>1 DEF Clean, Rest
<1> QED BY <1>3, <1>4

(* A record whose first unit is blank is not sound. *)
LEMMA CleanNotSound ==
    ASSUME WholeRecords,
           NEW n \in Nat, NEW d, NEW e, NEW T, Clean(d, n), Spoils(d, e, T)
    PROVE  ~Sound(e, n)
<1> DEFINE p == n * RecUnits
           q == SectorOf(n) + BlockUnits
<1>0. p \in Nat /\ q \in Nat /\ p < q /\ p % data_size \in 0..(data_size - 1)
  <2>1. p \in Nat /\ SectorOf(n) \in Nat /\ p < SectorOf(n) + BlockUnits
    BY SectorPlace
  <2>2. p % data_size \in 0..(data_size - 1)
    BY SoundIs
  <2> HIDE DEF p
  <2> QED BY <2>1, <2>2, StoreSizes
<1>1. Clear(d, p, q)
  BY DEF Clean
<1>2. d[p % data_size] = Erased /\ p % data_size \in 0..(data_size - 1)
  <2> HIDE DEF p, q
  <2>1. p \in p..(q - 1)
    BY <1>0
  <2> QED BY <1>0, <1>1, <2>1 DEF Clear
<1>3. e[p % data_size] \in {Erased, Junk}
  BY <1>2 DEF Spoils
<1> QED BY <1>3, SoundIs, NoData

(* Power fails in the save of record n: it is to be written again. *)
LEMMA SaveTorn ==
    ASSUME WholeRecords,
           DataBlocks >= 3, NEW n \in Nat \ {0}, NEW d, NEW e, NEW T,
           Spoils(d, e, T), DataOK(d, 0, n),
           Within(n * RecUnits, SectorOf(n) + 2 * BlockUnits, T),
           \/ (n * RecUnits) % BlockUnits = 0
           \/ \A x \in (n * RecUnits + RecUnits)..((SectorOf(n) + BlockUnits) - 1) :
                x % data_size \notin T
    PROVE  Redo(e, n)
<1>0. Leaves(d, e, T)
  BY SpoilsLeaves
<1>1. Clean(d, n) /\ (n = 1 \/ Sound(d, n - 1))
  BY DEF DataOK
<1>2. ~Sound(e, n)
  BY <1>1, CleanNotSound
<1>3. n = 1 \/ Sound(e, n - 1)
  BY <1>0, <1>1, SoundBeforeStays
<1>4. Rest(e, n)
  <2> DEFINE p == n * RecUnits
             s == SectorOf(n)
  <2>1. CASE p % BlockUnits = 0
    BY <2>1 DEF Rest
  <2>2. CASE p % BlockUnits # 0
    <3> DEFINE y == p + RecUnits
               z == s + BlockUnits
    <3>1. p \in Nat /\ y \in Int /\ z \in Int /\ p <= y
      BY SectorPlace, StoreSizes
    <3>2. Clear(d, p, z)
      BY <1>1 DEF Clean
    <3>3. \A x \in y..(z - 1) : x % data_size \notin T
      BY <2>2
    <3> HIDE DEF y, z
    <3>4. Clear(d, y, z)
      BY <3>1, <3>2 DEF Clear
    <3>5. Clear(e, y, z)
      BY <1>0, <3>1, <3>3, <3>4, ClearStays
    <3> QED BY <3>5 DEF Rest, y, z
  <2> QED BY <2>1, <2>2
<1> QED BY <1>2, <1>3, <1>4 DEF Redo

LEMMA EraseSpoils ==
    ASSUME NEW d, DOMAIN d = 0..(data_size - 1), NEW T, NEW e, e = ErasedIn(d, T)
    PROVE  /\ Spoils(d, e, T) /\ DOMAIN e = 0..(data_size - 1)
           /\ \A u \in 0..(data_size - 1) : u \in T => e[u] = Erased
BY DEF ErasedIn, Spoils

LEMMA TornSpoils ==
    ASSUME NEW d, DOMAIN d = 0..(data_size - 1), NEW T,
           NEW e, e \in {d} \union Torn(d, T)
    PROVE  Spoils(d, e, T)
<1>1. CASE e = d
  BY <1>1 DEF Spoils
<1>2. ASSUME NEW c \in {Erased, Junk},
             e = [u \in DOMAIN d |-> IF u \in T THEN c ELSE d[u]]
      PROVE  Spoils(d, e, T)
  BY <1>2 DEF Spoils
<1> QED BY <1>1, <1>2 DEF Torn

(* Positions that lie less than a lap before or behind. *)
LEMMA ApartBefore ==
    ASSUME NEW a \in Int, NEW b \in Int, NEW c \in Int, NEW q \in Int, NEW T,
           Within(c, q, T), b <= c, q <= a + data_size
    PROVE  \A x \in a..(b - 1) : x % data_size \notin T
<1> SUFFICES ASSUME NEW x \in a..(b - 1), x % data_size \in T PROVE FALSE
  OBVIOUS
<1>1. PICK y \in c..(q - 1) : x % data_size = y % data_size
  BY DEF Within
<1>2. x \in Int /\ y \in Int /\ x < y /\ y < x + data_size
  BY StoreSizes
<1> QED BY <1>1, <1>2, Disjoint

LEMMA ApartBehind ==
    ASSUME NEW a \in Int, NEW b \in Int, NEW c \in Int, NEW q \in Int, NEW T,
           Within(c, q, T), q <= a, b <= c + data_size
    PROVE  \A x \in a..(b - 1) : x % data_size \notin T
<1> SUFFICES ASSUME NEW x \in a..(b - 1), x % data_size \in T PROVE FALSE
  OBVIOUS
<1>1. PICK y \in c..(q - 1) : x % data_size = y % data_size
  BY DEF Within
<1>2. x \in Int /\ y \in Int /\ y < x /\ x < y + data_size
  BY StoreSizes
<1> QED BY <1>1, <1>2, Disjoint

LEMMA AtWider ==
    ASSUME NEW a \in Int, NEW b \in Int, NEW c \in Int, NEW q \in Int, NEW T,
           Within(a, b, T), c <= a, b <= q
    PROVE  Within(c, q, T)
<1> SUFFICES ASSUME NEW u \in T PROVE \E x \in c..(q - 1) : u = x % data_size
  BY DEF Within
<1>1. PICK x \in a..(b - 1) : u = x % data_size
  BY DEF Within
<1>2. x \in c..(q - 1)
  OBVIOUS
<1> QED BY <1>1, <1>2

LEMMA ThreeSectors ==
    ASSUME DataBlocks >= 3
    PROVE  data_size >= 3 * BlockUnits
<1>1. (DataBlocks - 3) * BlockUnits >= 0
  BY StoreSizes
<1>2. (DataBlocks - 3) * BlockUnits = DataBlocks * BlockUnits - (3 * BlockUnits)
  BY StoreSizes
<1>3. DataBlocks * BlockUnits \in Nat
  BY StoreSizes
<1> QED BY <1>1, <1>2, <1>3, StoreSizes DEF data_size

(* The sectors and the units a save touches, by position. *)
NextOf(n) == DataBlock((StartOf(n) \div BlockUnits + 1) % DataBlocks)
CurOf(n) == DataBlock(StartOf(n) \div BlockUnits)

LEMMA Touched ==
    ASSUME WholeRecords,
           NEW n \in Nat
    PROVE  /\ Within(SectorOf(n) + BlockUnits, SectorOf(n) + 2 * BlockUnits, NextOf(n))
           /\ Within(SectorOf(n), SectorOf(n) + BlockUnits, CurOf(n))
           /\ Within(n * RecUnits, n * RecUnits + RecUnits, RecordUnits(n))
           /\ \A x \in (SectorOf(n) + BlockUnits)..((SectorOf(n) + 2 * BlockUnits) - 1) :
                x % data_size \in NextOf(n)
           /\ \A x \in SectorOf(n)..((SectorOf(n) + BlockUnits) - 1) :
                x % data_size \in CurOf(n)
           /\ \A x \in (n * RecUnits)..((n * RecUnits + RecUnits) - 1) :
                x % data_size \in RecordUnits(n)
<1> DEFINE p == n * RecUnits
           s == SectorOf(n)
<1>1. p \in Nat /\ s \in Nat /\ BlockUnits \in Nat /\ RecUnits \in Nat
  BY SectorPlace, StoreSizes
<1>2. /\ s + 2 * BlockUnits - 1 = (s + 2 * BlockUnits) - 1
      /\ s + BlockUnits - 1 = (s + BlockUnits) - 1
      /\ p + RecUnits - 1 = (p + RecUnits) - 1
  BY <1>1
<1>3. /\ \A u : u \in CurOf(n) <=>
           \E x \in s..(s + BlockUnits - 1) : u = x % data_size
      /\ \A u : u \in NextOf(n) <=>
           \E x \in (s + BlockUnits)..(s + 2 * BlockUnits - 1) : u = x % data_size
  BY SectorPlace DEF CurOf, NextOf
<1>4. \A u : u \in RecordUnits(n) <=>
         \E x \in p..(p + RecUnits - 1) : u = x % data_size
  BY RecordUnitsAre
<1> HIDE DEF p, s
<1>5. /\ Within(s + BlockUnits, s + 2 * BlockUnits, NextOf(n))
      /\ Within(s, s + BlockUnits, CurOf(n))
      /\ Within(p, p + RecUnits, RecordUnits(n))
  BY <1>2, <1>3, <1>4 DEF Within
<1>6. /\ \A x \in (s + BlockUnits)..((s + 2 * BlockUnits) - 1) :
           x % data_size \in NextOf(n)
      /\ \A x \in s..((s + BlockUnits) - 1) : x % data_size \in CurOf(n)
      /\ \A x \in p..((p + RecUnits) - 1) : x % data_size \in RecordUnits(n)
  BY <1>2, <1>3, <1>4
<1> QED BY <1>5, <1>6 DEF p, s

(* The erase ahead. *)
LEMMA EraseAhead ==
    ASSUME WholeRecords,
           DataBlocks >= 3, NEW n \in Nat, NEW f, NEW d,
           DOMAIN d = 0..(data_size - 1), DataOK(d, f, n),
           NEW e, e = ErasedIn(d, NextOf(n))
    PROVE  DataOK(e, f, n) /\ Ahead(e, n)
<1> DEFINE p == n * RecUnits
           s == SectorOf(n)
           y == p + RecUnits
           z == s + BlockUnits
           q == s + 2 * BlockUnits
<1>1. /\ p \in Nat /\ s \in Nat /\ s <= p /\ p < z /\ y = p + RecUnits
      /\ z = s + BlockUnits /\ q = s + 2 * BlockUnits
  BY SectorPlace
<1>2. /\ Spoils(d, e, NextOf(n)) /\ DOMAIN e = 0..(data_size - 1)
      /\ \A u \in 0..(data_size - 1) : u \in NextOf(n) => e[u] = Erased
  BY EraseSpoils
<1>3. Leaves(d, e, NextOf(n))
  BY <1>2, SpoilsLeaves
<1>4. Within(z, q, NextOf(n)) /\ \A x \in z..(q - 1) : x % data_size \in NextOf(n)
  BY Touched
<1> HIDE DEF p, s, y, z, q
<1>5. data_size >= 3 * BlockUnits
  BY ThreeSectors
<1>6. Within(p, q, NextOf(n))
  <2>1. p \in Int /\ q \in Int /\ z \in Int /\ p <= z /\ q <= q
    BY <1>1, StoreSizes
  <2> QED BY <1>4, <2>1, AtWider
<1>7. Clear(e, z, q)
  <2> SUFFICES ASSUME NEW x \in z..(q - 1) PROVE e[x % data_size] = Erased
    BY DEF Clear
  <2>1. x \in Int
    BY <1>1, StoreSizes
  <2>2. x % data_size \in 0..(data_size - 1)
    BY <2>1, StoreSizes, DivMod
  <2> QED BY <1>2, <1>4, <2>2
<1>8. Ahead(e, n)
  BY <1>7 DEF Ahead, z, q, s
<1>9. ASSUME Clear(d, p, z) PROVE Clear(e, p, z)
  <2>1. p \in Int /\ z \in Int /\ q \in Int /\ z <= z /\ q <= p + data_size
    BY <1>1, <1>5, StoreSizes
  <2>2. \A x \in p..(z - 1) : x % data_size \notin NextOf(n)
    BY <1>4, <2>1, ApartBefore
  <2> QED BY <1>3, <1>9, <2>1, <2>2, ClearStays
<1>10. ASSUME Clear(d, y, z) PROVE Clear(e, y, z)
  <2>1. y \in Int /\ z \in Int /\ q \in Int /\ z <= z /\ q <= y + data_size
    BY <1>1, <1>5, StoreSizes
  <2>2. \A x \in y..(z - 1) : x % data_size \notin NextOf(n)
    BY <1>4, <2>1, ApartBefore
  <2> QED BY <1>3, <1>10, <2>1, <2>2, ClearStays
<1>11. ASSUME n # 0, Sound(d, n - 1) PROVE Sound(e, n - 1)
  BY <1>3, <1>6, <1>11, SoundBeforeStays DEF p, q, s
<1>12. Clean(d, n) => Clean(e, n)
  BY <1>9 DEF Clean, p, z, s
<1>13. Rest(d, n) => Rest(e, n)
  BY <1>10 DEF Rest, y, z, p, s
<1>14. DataOK(e, f, n)
  BY <1>11, <1>12, <1>13 DEF DataOK
<1> QED BY <1>8, <1>14

(* The erase of the sector a record begins. *)
LEMMA EraseCurrent ==
    ASSUME WholeRecords,
           DataBlocks >= 3, NEW n \in Nat, NEW f, NEW d,
           DOMAIN d = 0..(data_size - 1), DataOK(d, f, n), Ahead(d, n),
           (n * RecUnits) % BlockUnits = 0,
           NEW e, e = ErasedIn(d, CurOf(n))
    PROVE  DataOK(e, f, n) /\ Ahead(e, n) /\ Clean(e, n)
<1> DEFINE p == n * RecUnits
           s == SectorOf(n)
           z == s + BlockUnits
           q == s + 2 * BlockUnits
<1>1. /\ p \in Nat /\ s \in Nat /\ s = p
      /\ z = s + BlockUnits /\ q = s + 2 * BlockUnits
  BY SectorPlace
<1>2. /\ Spoils(d, e, CurOf(n)) /\ DOMAIN e = 0..(data_size - 1)
      /\ \A u \in 0..(data_size - 1) : u \in CurOf(n) => e[u] = Erased
  BY EraseSpoils
<1>3. Leaves(d, e, CurOf(n))
  BY <1>2, SpoilsLeaves
<1>4. Within(s, z, CurOf(n)) /\ \A x \in s..(z - 1) : x % data_size \in CurOf(n)
  BY Touched
<1> HIDE DEF p, s, z, q
<1>5. data_size >= 3 * BlockUnits
  BY ThreeSectors
<1>6. Within(p, q, CurOf(n))
  <2>1. p \in Int /\ q \in Int /\ z \in Int /\ s \in Int /\ p <= s /\ z <= q
    BY <1>1, StoreSizes
  <2> QED BY <1>4, <2>1, AtWider
<1>7. Clear(e, p, z)
  <2> SUFFICES ASSUME NEW x \in s..(z - 1) PROVE e[x % data_size] = Erased
    BY <1>1 DEF Clear
  <2>1. x \in Int
    BY <1>1, StoreSizes
  <2>2. x % data_size \in 0..(data_size - 1)
    BY <2>1, StoreSizes, DivMod
  <2> QED BY <1>2, <1>4, <2>2
<1>8. Clean(e, n)
  BY <1>7 DEF Clean, p, z, s
<1>9. ASSUME Clear(d, z, q) PROVE Clear(e, z, q)
  <2>1. s \in Int /\ z \in Int /\ q \in Int /\ z <= z /\ q <= s + data_size
    BY <1>1, <1>5, StoreSizes
  <2>2. \A x \in z..(q - 1) : x % data_size \notin CurOf(n)
    BY <1>4, <2>1, ApartBehind
  <2> QED BY <1>3, <1>9, <2>1, <2>2, ClearStays
<1>10. Ahead(e, n)
  BY <1>9 DEF Ahead, z, q, s
<1>11. ASSUME n # 0, Sound(d, n - 1) PROVE Sound(e, n - 1)
  BY <1>3, <1>6, <1>11, SoundBeforeStays DEF p, q, s
<1>12. DataOK(e, f, n)
  BY <1>8, <1>11 DEF DataOK
<1> QED BY <1>8, <1>10, <1>12

(* What the program of record n leaves in flash. *)
Writes(d, e, T, c) == \A u \in T : e[u] = Program(d[u], c)

LEMMA WriteUnits ==
    ASSUME WholeRecords,
           NEW n \in Nat, NEW d, DOMAIN d = 0..(data_size - 1), NEW c,
           NEW e, e = ProgrammedIn(d, RecordUnits(n), c)
    PROVE  /\ Leaves(d, e, RecordUnits(n)) /\ DOMAIN e = 0..(data_size - 1)
           /\ Writes(d, e, RecordUnits(n), c)
           /\ Within(n * RecUnits, n * RecUnits + RecUnits, RecordUnits(n))
<1>1. RecordUnits(n) \subseteq 0..(data_size - 1)
  BY RecordUnitsAre
<1>2. Within(n * RecUnits, n * RecUnits + RecUnits, RecordUnits(n))
  BY Touched
<1>3. /\ \A u \in RecordUnits(n) : e[u] = Program(d[u], c)
      /\ DOMAIN e = 0..(data_size - 1)
      /\ \A u \in (0..(data_size - 1)) \ RecordUnits(n) : e[u] = d[u]
  BY <1>1 DEF ProgrammedIn
<1> QED BY <1>1, <1>2, <1>3 DEF Leaves, Writes

LEMMA WriteSound ==
    ASSUME WholeRecords,
           NEW n \in Nat, NEW d, DOMAIN d = 0..(data_size - 1),
           NEW c \in Records,
           NEW e, e = ProgrammedIn(d, RecordUnits(n), c),
           Clean(d, n), Ahead(d, n)
    PROVE  Sound(e, n)
<1> DEFINE p == n * RecUnits
           s == SectorOf(n)
           z == s + BlockUnits
           q == s + 2 * BlockUnits
<1>1. /\ p \in Nat /\ s \in Nat /\ s <= p /\ p < z
      /\ z = s + BlockUnits /\ q = s + 2 * BlockUnits
  BY SectorPlace
<1>2. /\ Clear(d, p, z) /\ (p + RecUnits >= z => Clear(d, z, q))
  BY DEF Clean, Ahead, Crosses
<1>3. /\ \A u \in RecordUnits(n) : e[u] = Program(d[u], c)
      /\ \A x \in p..((p + RecUnits) - 1) : x % data_size \in RecordUnits(n)
  <2>1. \A u \in RecordUnits(n) : e[u] = Program(d[u], c)
    <3>1. Writes(d, e, RecordUnits(n), c)
      BY WriteUnits
    <3> QED BY <3>1 DEF Writes
  <2>2. \A x \in p..((p + RecUnits) - 1) : x % data_size \in RecordUnits(n)
    BY Touched
  <2> QED BY <2>1, <2>2
<1> HIDE DEF p, s, z, q
<1>4. ASSUME NEW x \in p..((p + RecUnits) - 1) PROVE e[x % data_size] = c
  <2>1. x \in p..(z - 1) \/ (p + RecUnits >= z /\ x \in z..(q - 1))
    BY <1>1, StoreSizes
  <2>2. d[x % data_size] = Erased
    BY <1>2, <2>1 DEF Clear
  <2> QED BY <1>3, <2>2 DEF Program
<1>5. (p + RecUnits) - 1 = p + RecUnits - 1 /\ p \in p..((p + RecUnits) - 1)
  BY <1>1, StoreSizes
<1>6. \A x \in p..(p + RecUnits - 1) : e[x % data_size] = c
  BY <1>4, <1>5
<1>7. e[p % data_size] = c
  BY <1>4, <1>5
<1> QED BY <1>6, <1>7, SoundIs DEF p

LEMMA WriteData ==
    ASSUME WholeRecords,
           DataBlocks >= 3, NEW n \in Nat, NEW f, NEW d,
           DOMAIN d = 0..(data_size - 1), DataOK(d, f, n), Ahead(d, n),
           (n * RecUnits) % BlockUnits = 0 => Clean(d, n),
           NEW c \in Records,
           NEW e, e = ProgrammedIn(d, RecordUnits(n), c)
    PROVE  /\ Clean(e, n + 1)
           /\ n = 0 \/ Sound(e, n) \/ (f = 1 /\ Redo(e, n))
<1> DEFINE p == n * RecUnits
           s == SectorOf(n)
           y == p + RecUnits
           z == s + BlockUnits
           q == s + 2 * BlockUnits
<1>1. /\ p \in Nat /\ s \in Nat /\ s <= p /\ p < z /\ y = p + RecUnits
      /\ z = s + BlockUnits /\ q = s + 2 * BlockUnits
  BY SectorPlace
<1>2. /\ Leaves(d, e, RecordUnits(n)) /\ Within(p, y, RecordUnits(n))
  BY WriteUnits
<1>3. /\ Clean(d, n) <=> Clear(d, p, z)
      /\ Rest(d, n) <=> p % BlockUnits = 0 \/ Clear(d, y, z)
      /\ Crosses(n) <=> y >= z
      /\ Crosses(n) => Clear(d, z, q)
  BY DEF Clean, Rest, Crosses, Ahead
<1>4. n = 0 => Clean(d, n)
  <2>1. ASSUME n = 0 PROVE p % BlockUnits = 0
    <3>1. p = 0
      BY <2>1, StoreSizes
    <3> HIDE DEF p
    <3> QED BY <3>1, StoreSizes, ModSmall
  <2> QED BY <2>1
<1>5. Clean(d, n) \/ Clear(d, y, z)
  BY <1>3, <1>4 DEF DataOK
<1>6. (n + 1) * RecUnits = y /\ (Crosses(n) => SectorOf(n + 1) = z)
      /\ (~Crosses(n) => SectorOf(n + 1) = s)
  BY NextSector
<1>7. data_size >= 3 * BlockUnits
  BY ThreeSectors
<1>8. Clean(e, n + 1)
  <2> DEFINE b == SectorOf(n + 1) + BlockUnits
  <2> HIDE DEF p, s, y, z, q
  <2>1. Clear(d, y, b) /\ b \in Int /\ b <= p + data_size
    <3>1. CASE Crosses(n)
      <4>1. Clear(d, z, q) /\ b = z + BlockUnits /\ y >= z
        BY <1>3, <1>6, <3>1
      <4>2. b = q /\ q \in Int /\ q <= p + data_size
        BY <1>1, <1>7, <4>1, StoreSizes
      <4>3. \A x \in y..(q - 1) : x \in z..(q - 1)
        BY <1>1, <4>1, <4>2, StoreSizes
      <4>4. Clear(d, y, q)
        BY <4>1, <4>3 DEF Clear
      <4> QED BY <4>2, <4>4
    <3>2. CASE ~Crosses(n)
      <4>1. b = z /\ z \in Int /\ z <= p + data_size
        BY <1>1, <1>6, <1>7, <3>2, StoreSizes
      <4>2. \A x \in y..(z - 1) : x \in p..(z - 1)
        BY <1>1, StoreSizes
      <4>3. Clear(d, p, z) => Clear(d, y, z)
        BY <4>2 DEF Clear
      <4> QED BY <1>3, <1>5, <4>1, <4>3
    <3> QED BY <3>1, <3>2
  <2> HIDE DEF b
  <2>2. y \in Int /\ p \in Int /\ y <= y
    BY <1>1, StoreSizes
  <2>3. \A x \in y..(b - 1) : x % data_size \notin RecordUnits(n)
    BY <1>2, <2>1, <2>2, ApartBehind
  <2>4. Clear(e, y, b)
    BY <1>2, <2>1, <2>2, <2>3, ClearStays
  <2> QED BY <1>6, <2>4 DEF Clean, b
<1>9. Clean(d, n) => Sound(e, n)
  BY WriteSound
<1>10. ASSUME n >= 2, f = 1, Sound(d, n - 1), ~Sound(e, n)
       PROVE  Redo(e, n)
  <2>1. Within(p, q, RecordUnits(n))
    <3> HIDE DEF p, s, y, z, q
    <3>1. p \in Int /\ y \in Int /\ q \in Int /\ p <= p /\ y <= q
      BY <1>1, StoreSizes
    <3> QED BY <1>2, <3>1, AtWider
  <2>2. Sound(e, n - 1)
    <3>1. n \in Nat \ {0}
      BY <1>10
    <3> QED BY <1>2, <1>10, <2>1, <3>1, SoundBeforeStays
  <2>3. Rest(e, n)
    BY <1>8, CleanRest
  <2> QED BY <1>10, <2>2, <2>3 DEF Redo
<1>11. n = 0 \/ Sound(e, n) \/ (f = 1 /\ Redo(e, n))
  BY <1>9, <1>10 DEF DataOK
<1> QED BY <1>8, <1>11

(* A record just written is the only one that is new. *)
LEMMA BelowWrite ==
    ASSUME WholeRecords,
           NEW n \in 0..MaxSaves, NEW s \in Nat, NEW r, NEW d,
           DOMAIN d = 0..(data_size - 1),
           NEW k \in [0..MaxSaves -> Nat], \A i \in 0..MaxSaves : k[i] < s,
           Below(d, k, r, n), NEW c, c.id = s,
           NEW e, e = ProgrammedIn(d, RecordUnits(n), c)
    PROVE  Below(e, [k EXCEPT ![n] = s], r, n + 1)
<1> SUFFICES ASSUME NEW i \in 1..MaxSaves, Is(e, [k EXCEPT ![n] = s], r, i)
             PROVE  i < n + 1
  BY DEF Below
<1>0. n \in Nat /\ i \in Nat /\ i \in 0..MaxSaves
  BY StoreSizes
<1>1. CASE i = n
  BY <1>0, <1>1
<1>2. CASE i # n
  <2> DEFINE p == i * RecUnits
             a == p % data_size
  <2>1. /\ k[i] > r /\ Sound(e, i) /\ ReadAt(e, i).id = k[i] /\ k[i] < s
        /\ k[i] \in Nat
    BY <1>0, <1>2 DEF Is
  <2>2. /\ e[a] \in Records /\ e[a].id # s
        /\ \A x \in p..(p + RecUnits - 1) :
             e[x % data_size] = e[a] /\ x % data_size \in 0..(data_size - 1)
        /\ p \in p..(p + RecUnits - 1)
    BY <1>0, <2>1, SoundIs
  <2>3. /\ \A u \in (0..(data_size - 1)) \ RecordUnits(n) : e[u] = d[u]
        /\ \A u \in RecordUnits(n) : e[u] = Program(d[u], c)
    <3>1. Leaves(d, e, RecordUnits(n))
      BY <1>0, WriteUnits
    <3>2. Writes(d, e, RecordUnits(n), c)
      BY <1>0, WriteUnits
    <3> QED BY <3>1, <3>2 DEF Leaves, Writes
  <2> HIDE DEF p
  <2>4. e[a] # c /\ e[a] # Junk
    BY <2>2, NoData
  <2>5. \A x \in p..(p + RecUnits - 1) : d[x % data_size] = e[a]
    BY <2>2, <2>3, <2>4 DEF Program
  <2> HIDE DEF a
  <2>6. d[a] = e[a]
    BY <2>2, <2>5 DEF a
  <2>7. Sound(d, i) /\ ReadAt(d, i) = ReadAt(e, i)
    <3>1. /\ ReadAt(d, i) = d[a] /\ ReadAt(e, i) = e[a]
          /\ Sound(d, i) <=>
               /\ d[a] \in Records
               /\ \A x \in p..(p + RecUnits - 1) : d[x % data_size] = d[a]
      BY <1>0, SoundIs DEF a, p
    <3> QED BY <2>2, <2>5, <2>6, <3>1
  <2>8. Is(d, k, r, i)
    BY <2>1, <2>7 DEF Is
  <2> QED BY <1>0, <2>8 DEF Below
<1> QED BY <1>1, <1>2

(* Power fails while the data of record n is written. *)
LEMMA DataTorn ==
    ASSUME WholeRecords,
           DataBlocks >= 3, NEW n \in Nat \ {0}, NEW d,
           DOMAIN d = 0..(data_size - 1), DataOK(d, 0, n),
           NEW T,
           \/ T = {} \/ T = NextOf(n) \/ T = RecordUnits(n)
           \/ T = CurOf(n) /\ (n * RecUnits) % BlockUnits = 0,
           NEW e, e \in {d} \union Torn(d, T)
    PROVE  Redo(e, n)
<1> DEFINE p == n * RecUnits
           s == SectorOf(n)
           y == p + RecUnits
           z == s + BlockUnits
           q == s + 2 * BlockUnits
<1>1. /\ p \in Nat /\ s \in Nat /\ s <= p /\ p < z /\ y = p + RecUnits
      /\ z = s + BlockUnits /\ q = s + 2 * BlockUnits
      /\ p % BlockUnits = 0 => s = p
  BY SectorPlace
<1>2. Spoils(d, e, T)
  BY TornSpoils
<1>3. /\ Within(z, q, NextOf(n)) /\ Within(s, z, CurOf(n)) /\ Within(p, y, RecordUnits(n))
  BY Touched
<1>4. T = {} \/ T = NextOf(n) \/ T = RecordUnits(n)
      \/ (T = CurOf(n) /\ p % BlockUnits = 0)
  OBVIOUS
<1> HIDE DEF p, s, y, z, q
<1>5. data_size >= 3 * BlockUnits
  BY ThreeSectors
<1>6. /\ p \in Int /\ y \in Int /\ z \in Int /\ q \in Int /\ s \in Int
      /\ p <= z /\ q <= q /\ p <= p /\ y <= q /\ z <= q
      /\ q <= y + data_size /\ z <= p + data_size /\ z <= z /\ y <= y
  BY <1>1, <1>5, StoreSizes
<1>7. Within(p, q, T)
  <2>1. CASE T = {}
    BY <2>1 DEF Within
  <2>2. CASE T = NextOf(n)
    BY <1>3, <1>6, <2>2, AtWider
  <2>3. CASE T = RecordUnits(n)
    BY <1>3, <1>6, <2>3, AtWider
  <2>4. CASE T = CurOf(n) /\ p % BlockUnits = 0
    <3>1. p <= s
      BY <1>1, <2>4
    <3> QED BY <1>3, <1>6, <2>4, <3>1, AtWider
  <2> QED BY <1>4, <2>1, <2>2, <2>3, <2>4
<1>8. p % BlockUnits = 0 \/ \A x \in y..(z - 1) : x % data_size \notin T
  <2>1. CASE T = {}
    BY <2>1
  <2>2. CASE T = NextOf(n)
    BY <1>3, <1>6, <2>2, ApartBefore
  <2>3. CASE T = RecordUnits(n)
    BY <1>3, <1>6, <2>3, ApartBehind
  <2> QED BY <1>4, <2>1, <2>2, <2>3
<1> QED BY <1>2, <1>7, <1>8, SaveTorn DEF p, q, s, y, z

(* The index area has two blocks. Index n goes into the block that begins  *)
(* at word Side(n), and First(n) is the first index of that block.         *)
Side(n) == IF n % index_cnt < BlockWords THEN 0 ELSE BlockWords
Other(n) == BlockWords - Side(n)
First(n) == n - (n % BlockWords)
Words(s) == s..(s + BlockWords - 1)

Blank(w) == ~IndexValid(w, 0) /\ ~IndexValid(w, BlockWords)
Single(w) == ~IndexValid(w, 0) \/ ~IndexValid(w, BlockWords)
Own(w, m) == \A j \in 0..(BlockWords - 1) :
    w[Side(m) + j] = IF j <= m % BlockWords THEN First(m) + j ELSE Erased
(* The largest index is m, and that is found at a restart. *)
Shows(w, m) ==
    Own(w, m) /\ (IndexValid(w, Other(m)) => w[Other(m)] < First(m))
Cleared(w, n) == \A j \in 0..(BlockWords - 1) : w[Side(n) + j] = Erased

SpoilsWords(w, e, T) ==
    \A u \in 0..(index_cnt - 1) :
        e[u] = w[u] \/ (u \in T /\ e[u] \in {Erased, Junk})

LEMMA TwoBlocks ==
    ASSUME IndexBlocks = 2
    PROVE  /\ index_cnt = 2 * BlockWords /\ BlockWords \in Nat \ {0, 1}
           /\ index_cnt \in Nat \ {0}
BY StoreSizes DEF index_cnt

LEMMA SideIs ==
    ASSUME IndexBlocks = 2, NEW n \in Nat, NEW d \in Int,
           NEW s \in {0, BlockWords}, NEW j \in 0..(BlockWords - 1),
           n = index_cnt * d + (s + j)
    PROVE  /\ n % index_cnt = s + j /\ Side(n) = s
           /\ n % BlockWords = j /\ First(n) = n - j
<1>1. /\ index_cnt = 2 * BlockWords /\ BlockWords \in Nat \ {0, 1}
      /\ index_cnt \in Nat \ {0}
  BY TwoBlocks
<1>2. s + j \in 0..(index_cnt - 1)
  BY <1>1
<1>3. n % index_cnt = s + j
  BY <1>1, <1>2, ModUnique
<1>4. Side(n) = s
  BY <1>1, <1>3 DEF Side
<1>5. n % BlockWords = j
  <2>1. PICK e \in Int : n = BlockWords * e + j
    <3>1. CASE s = 0
      <4>1. n = BlockWords * (2 * d) + j /\ 2 * d \in Int
        BY <1>1, <3>1
      <4> QED BY <4>1
    <3>2. CASE s = BlockWords
      <4>1. n = BlockWords * (2 * d + 1) + j /\ 2 * d + 1 \in Int
        BY <1>1, <3>2
      <4> QED BY <4>1
    <3> QED BY <3>1, <3>2
  <2>2. (BlockWords * e + j) % BlockWords = j
    BY <1>1, ModUnique
  <2> QED BY <2>1, <2>2
<1> QED BY <1>3, <1>4, <1>5 DEF First

LEMMA SideFacts ==
    ASSUME IndexBlocks = 2, NEW n \in Nat
    PROVE  /\ Side(n) \in {0, BlockWords} /\ Other(n) \in {0, BlockWords}
           /\ Other(n) # Side(n)
           /\ n % BlockWords \in 0..(BlockWords - 1)
           /\ n % index_cnt = Side(n) + (n % BlockWords)
           /\ First(n) \in Nat /\ n = First(n) + (n % BlockWords)
           /\ \A j \in 0..(BlockWords - 1) : (First(n) + j) % index_cnt = Side(n) + j
           /\ \E d \in Int : n = index_cnt * d + (Side(n) + (n % BlockWords))
<1> DEFINE d == n \div index_cnt
           m == n % index_cnt
           s == IF m < BlockWords THEN 0 ELSE BlockWords
           j == m - s
<1>1. /\ index_cnt = 2 * BlockWords /\ BlockWords \in Nat \ {0, 1}
      /\ index_cnt \in Nat \ {0}
  BY TwoBlocks
<1>2. d \in Int /\ m \in 0..(index_cnt - 1) /\ n = index_cnt * d + m
  <2>1. n \in Int
    OBVIOUS
  <2> QED BY <1>1, <2>1, DivMod
<1> HIDE DEF d, m
<1>3. s \in {0, BlockWords} /\ j \in 0..(BlockWords - 1) /\ m = s + j
  BY <1>1, <1>2
<1> HIDE DEF s, j
<1>4. /\ n % index_cnt = s + j /\ Side(n) = s
      /\ n % BlockWords = j /\ First(n) = n - j
  BY <1>2, <1>3, SideIs
<1>5. First(n) = index_cnt * d + s /\ index_cnt * d \in Int
  BY <1>1, <1>2, <1>3, <1>4
<1>6. First(n) \in Nat
  <2>1. d <= -1 => index_cnt * d <= -index_cnt
    BY <1>1, <1>2
  <2>2. d >= 0 => index_cnt * d >= 0
    BY <1>1, <1>2
  <2> QED BY <1>1, <1>2, <1>3, <1>5, <2>1, <2>2
<1>7. ASSUME NEW i \in 0..(BlockWords - 1)
      PROVE  (First(n) + i) % index_cnt = Side(n) + i
  <2>1. s + i \in 0..(index_cnt - 1)
    BY <1>1, <1>3
  <2>2. (index_cnt * d + (s + i)) % index_cnt = s + i
    BY <1>1, <1>2, <2>1, ModUnique
  <2>3. First(n) + i = index_cnt * d + (s + i)
    BY <1>3, <1>5
  <2> QED BY <1>4, <2>2, <2>3
<1>8. Other(n) \in {0, BlockWords} /\ Other(n) # Side(n)
  BY <1>1, <1>3, <1>4 DEF Other
<1>9. n % BlockWords \in 0..(BlockWords - 1) /\ n = First(n) + (n % BlockWords)
  BY <1>3, <1>4, <1>6
<1>10. n = index_cnt * d + (Side(n) + (n % BlockWords))
  BY <1>2, <1>3, <1>4
<1>11. n % index_cnt = Side(n) + (n % BlockWords) /\ Side(n) \in {0, BlockWords}
  BY <1>3, <1>4
<1> QED BY <1>2, <1>6, <1>7, <1>8, <1>9, <1>10, <1>11

(* The index before n is in the same block, or ends the other one. *)
LEMMA SideBack ==
    ASSUME IndexBlocks = 2, NEW n \in Nat \ {0}
    PROVE  /\ n % BlockWords = 0 =>
                /\ Side(n - 1) = Other(n) /\ Other(n - 1) = Side(n)
                /\ First(n - 1) < n
           /\ n % BlockWords # 0 =>
                /\ Side(n - 1) = Side(n) /\ First(n - 1) = First(n)
                /\ (n - 1) % BlockWords = (n % BlockWords) - 1
<1>1. /\ index_cnt = 2 * BlockWords /\ BlockWords \in Nat \ {0, 1}
      /\ index_cnt \in Nat \ {0}
  BY TwoBlocks
<1>2. /\ Side(n) \in {0, BlockWords} /\ Other(n) = BlockWords - Side(n)
      /\ n % BlockWords \in 0..(BlockWords - 1)
      /\ First(n) \in Nat /\ n = First(n) + (n % BlockWords)
  BY SideFacts DEF Other
<1>3. PICK d \in Int : n = index_cnt * d + (Side(n) + (n % BlockWords))
  BY SideFacts
<1> DEFINE s == Side(n)
           j == n % BlockWords
<1> HIDE DEF s, j
<1>4. CASE j # 0
  <2>1. /\ j - 1 \in 0..(BlockWords - 1) /\ n - 1 \in Nat
        /\ s \in {0, BlockWords}
    <3>1. j \in 0..(BlockWords - 1) /\ s \in {0, BlockWords}
      BY <1>2 DEF j, s
    <3> QED BY <1>1, <1>4, <3>1
  <2>2. n - 1 = index_cnt * d + (s + (j - 1))
    <3>1. index_cnt * d \in Int
      BY <1>1
    <3>2. n = index_cnt * d + (s + j) /\ s \in Int /\ j \in Int
      BY <1>1, <1>2, <1>3 DEF s, j
    <3> QED BY <3>1, <3>2
  <2>3. Side(n - 1) = s /\ (n - 1) % BlockWords = j - 1 /\ First(n - 1) = (n - 1) - (j - 1)
    BY <2>1, <2>2, SideIs
  <2>4. (n - 1) - (j - 1) = First(n)
    BY <1>2 DEF j
  <2> QED BY <1>4, <2>3, <2>4 DEF s, j
<1>5. CASE j = 0
  <2>1. PICK e \in Int, t \in {0, BlockWords} :
          t = Other(n) /\ n - 1 = index_cnt * e + (t + (BlockWords - 1))
    <3>1. CASE s = 0
      <4>1. n = index_cnt * d
        BY <1>1, <1>3, <1>5, <3>1 DEF s, j
      <4>2. index_cnt * (d - 1) = index_cnt * d - index_cnt /\ index_cnt * d \in Int
        BY <1>1
      <4>3. n - 1 = index_cnt * (d - 1) + (BlockWords + (BlockWords - 1))
        BY <1>1, <4>1, <4>2
      <4>4. Other(n) = BlockWords
        BY <1>1, <1>2, <3>1 DEF s
      <4>5. d - 1 \in Int
        OBVIOUS
      <4> QED BY <4>3, <4>4, <4>5
    <3>2. CASE s = BlockWords
      <4>1. index_cnt * d \in Int
        BY <1>1
      <4>2. n = index_cnt * d + BlockWords
        BY <1>1, <1>3, <1>5, <3>2, <4>1 DEF s, j
      <4>3. n - 1 = index_cnt * d + (0 + (BlockWords - 1))
        BY <1>1, <4>1, <4>2
      <4>4. Other(n) = 0
        BY <1>1, <1>2, <3>2 DEF s
      <4> QED BY <4>3, <4>4
    <3> QED BY <1>2, <3>1, <3>2 DEF s
  <2>2. n - 1 \in Nat /\ BlockWords - 1 \in 0..(BlockWords - 1)
    BY <1>1
  <2>3. Side(n - 1) = Other(n) /\ First(n - 1) = (n - 1) - (BlockWords - 1)
    BY <2>1, <2>2, SideIs
  <2>4. Other(n - 1) = Side(n)
    BY <1>1, <1>2, <2>3 DEF Other
  <2>5. First(n - 1) < n
    BY <1>1, <2>3
  <2> QED BY <1>5, <2>3, <2>4, <2>5 DEF j
<1> QED BY <1>4, <1>5 DEF j

(* The words the code touches. *)
SlotOf(n) == n % index_cnt
PrevOf(n) == WordBlock(IF SlotOf(n) > 0 THEN SlotOf(n) - BlockWords
                       ELSE index_cnt - BlockWords)

LEMMA BlockOfSide ==
    ASSUME IndexBlocks = 2, NEW s \in {0, BlockWords}, NEW j \in 0..(BlockWords - 1)
    PROVE  WordBlock(s + j) = Words(s)
<1>1. BlockWords \in Nat \ {0, 1}
  BY TwoBlocks
<1>2. PICK q \in {0, 1} : s = BlockWords * q
  BY <1>1
<1>3. (BlockWords * q + j) \div BlockWords = q
  <2>1. BlockWords \in Nat \ {0} /\ q \in Int
    BY <1>1
  <2> QED BY <2>1, DivUnique
<1>4. q * BlockWords = s
  BY <1>1, <1>2
<1> QED BY <1>2, <1>3, <1>4 DEF WordBlock, Words

LEMMA WordPlace ==
    ASSUME IndexBlocks = 2, NEW n \in Nat
    PROVE  /\ SlotOf(n) = Side(n) + (n % BlockWords)
           /\ SlotOf(n) % BlockWords = n % BlockWords
           /\ WordBlock(SlotOf(n)) = Words(Side(n))
           /\ n % BlockWords = 0 => PrevOf(n) = Words(Other(n))
<1>1. BlockWords \in Nat \ {0, 1} /\ index_cnt = 2 * BlockWords
  BY TwoBlocks
<1>2. /\ Side(n) \in {0, BlockWords} /\ Other(n) = BlockWords - Side(n)
      /\ n % BlockWords \in 0..(BlockWords - 1)
      /\ SlotOf(n) = Side(n) + (n % BlockWords)
  BY SideFacts DEF Other, SlotOf
<1>3. SlotOf(n) % BlockWords = n % BlockWords
  <2>1. (n % (2 * BlockWords)) % BlockWords = n % BlockWords
    <3>1. BlockWords \in Nat \ {0} /\ 2 \in Nat \ {0} /\ n \in Int
      BY <1>1
    <3> QED BY <3>1, ModOfMultiple
  <2> QED BY <1>1, <2>1 DEF SlotOf
<1>4. WordBlock(SlotOf(n)) = Words(Side(n))
  BY <1>2, BlockOfSide
<1>5. ASSUME n % BlockWords = 0 PROVE PrevOf(n) = Words(Other(n))
  <2>1. (IF SlotOf(n) > 0 THEN SlotOf(n) - BlockWords ELSE index_cnt - BlockWords)
          = Other(n) + 0
    BY <1>1, <1>2, <1>5
  <2>2. Other(n) \in {0, BlockWords} /\ 0 \in 0..(BlockWords - 1)
    BY <1>1, <1>2
  <2> QED BY <2>1, <2>2, BlockOfSide DEF PrevOf
<1> QED BY <1>2, <1>3, <1>4, <1>5

LEMMA HeadShows ==
    ASSUME IndexBlocks = 2, NEW m \in Nat, NEW w, Own(w, m)
    PROVE  w[Side(m)] = First(m) /\ IndexValid(w, Side(m))
<1>1. /\ BlockWords \in Nat \ {0, 1} /\ Side(m) \in {0, BlockWords}
      /\ First(m) \in Nat /\ m % BlockWords \in 0..(BlockWords - 1)
      /\ \A j \in 0..(BlockWords - 1) : (First(m) + j) % index_cnt = Side(m) + j
  BY TwoBlocks, SideFacts
<1>2. w[Side(m) + 0] = First(m) + 0
  BY <1>1 DEF Own
<1>3. (First(m) + 0) % index_cnt = Side(m) + 0
  BY <1>1
<1> QED BY <1>1, <1>2, <1>3 DEF IndexValid

(* The block the search takes, when it shows m. *)
LEMMA BlockFound ==
    ASSUME IndexBlocks = 2, NEW m \in Nat, NEW w, Shows(w, m)
    PROVE  \E b \in {0, 1} :
             /\ b * BlockWords = Side(m) /\ BlockIndex(w) = b
             /\ (1 - b) * BlockWords = Other(m)
             /\ b \in UsedBlocks(w)
<1>1. /\ BlockWords \in Nat \ {0, 1} /\ Side(m) \in {0, BlockWords}
      /\ First(m) \in Nat /\ Other(m) = BlockWords - Side(m)
  BY TwoBlocks, SideFacts DEF Other
<1>2. PICK b \in {0, 1} : b * BlockWords = Side(m) /\ (1 - b) * BlockWords = Other(m)
  BY <1>1
<1>3. w[Side(m)] = First(m) /\ IndexValid(w, Side(m))
  BY HeadShows DEF Shows
<1> DEFINE heads == {c \in UsedBlocks(w) : IndexValid(w, c * BlockWords)}
<1>4. UsedBlocks(w) \subseteq {0, 1}
  BY DEF UsedBlocks
<1>5. b \in UsedBlocks(w)
  <2>1. w[b * BlockWords] # Erased
    BY <1>1, <1>2, <1>3, NoData
  <2>2. b \in 0..(IndexBlocks - 1)
    OBVIOUS
  <2> QED BY <2>1, <2>2 DEF UsedBlocks
<1>6. b \in heads
  BY <1>2, <1>3, <1>5
<1>7. ASSUME NEW c \in heads, c # b
      PROVE  w[c * BlockWords] < First(m) /\ w[c * BlockWords] \in Nat
  <2>1. c = 1 - b
    BY <1>4, <1>7
  <2>2. IndexValid(w, Other(m)) /\ c * BlockWords = Other(m)
    BY <1>2, <1>7, <2>1
  <2> QED BY <2>2 DEF Shows, IndexValid
<1>8. \A c \in heads : w[c * BlockWords] <= w[b * BlockWords]
  BY <1>1, <1>2, <1>3, <1>7
<1>9. \A a \in heads :
        (\A c \in heads : w[c * BlockWords] <= w[a * BlockWords]) => a = b
  BY <1>1, <1>2, <1>3, <1>6, <1>7
<1>10. BlockIndex(w) = CHOOSE a \in heads : \A c \in heads :
                          w[c * BlockWords] <= w[a * BlockWords]
  BY <1>6 DEF BlockIndex
<1> HIDE DEF heads
<1>11. BlockIndex(w) = b
  BY <1>6, <1>8, <1>9, <1>10
<1> QED BY <1>2, <1>5, <1>11

LEMMA IndexFound ==
    ASSUME IndexBlocks = 2, NEW m \in Nat, NEW w, Shows(w, m)
    PROVE  __bbox_max_index_calc(w) = m
<1> DEFINE s == Side(m)
           r == m % BlockWords
<1>1. /\ BlockWords \in Nat \ {0, 1} /\ s \in {0, BlockWords}
      /\ First(m) \in Nat /\ r \in 0..(BlockWords - 1) /\ m = First(m) + r
      /\ \A j \in 0..(BlockWords - 1) : (First(m) + j) % index_cnt = s + j
  BY TwoBlocks, SideFacts
<1>2. BlockIndex(w) * BlockWords = s
  BY BlockFound
<1>3. WordBlock(s) = s..(s + BlockWords - 1)
  <2>1. WordBlock(s + 0) = Words(s) /\ s + 0 = s
    BY <1>1, BlockOfSide
  <2> QED BY <2>1 DEF Words
<1>4. \A j \in 0..(BlockWords - 1) :
        w[s + j] = IF j <= r THEN First(m) + j ELSE Erased
  BY DEF Shows, Own
<1> HIDE DEF s, r
<1>5. ASSUME NEW j \in 0..(BlockWords - 1)
      PROVE  IndexValid(w, s + j) <=> j <= r
  <2>1. CASE j <= r
    <3>1. w[s + j] = First(m) + j /\ (First(m) + j) % index_cnt = s + j
      BY <1>1, <1>4, <2>1
    <3>2. First(m) + j \in Nat
      BY <1>1
    <3> QED BY <2>1, <3>1, <3>2 DEF IndexValid
  <2>2. CASE ~(j <= r)
    <3>1. w[s + j] = Erased
      BY <1>4, <2>2
    <3> QED BY <2>2, <3>1, NoData DEF IndexValid
  <2> QED BY <2>1, <2>2
<1>6. Run(w) = {x \in s..(s + BlockWords - 1) :
                  \A v \in s..x : IndexValid(w, v)}
  BY <1>2, <1>3 DEF Run
<1>7. s + r \in Run(w)
  <2>1. \A v \in s..(s + r) : v - s \in 0..(BlockWords - 1) /\ v - s <= r
                              /\ v = s + (v - s)
    BY <1>1
  <2>2. \A v \in s..(s + r) : IndexValid(w, v)
    BY <1>5, <2>1
  <2>3. s + r \in s..(s + BlockWords - 1)
    BY <1>1
  <2> QED BY <1>6, <2>2, <2>3
<1>8. ASSUME NEW x \in Run(w) PROVE x \in Int /\ x <= s + r
  <2>1. x \in s..(s + BlockWords - 1) /\ \A v \in s..x : IndexValid(w, v)
    BY <1>6
  <2>2. x - s \in 0..(BlockWords - 1) /\ x = s + (x - s) /\ x \in s..x /\ x \in Int
    BY <1>1, <2>1
  <2>3. x - s <= r
    BY <1>5, <2>1, <2>2
  <2> QED BY <1>1, <2>2, <2>3
<1>9. Max(Run(w)) = s + r
  <2>1. \A x \in Run(w) : s + r >= x
    BY <1>1, <1>8
  <2>2. \A x \in Run(w) : (\A y \in Run(w) : x >= y) => x = s + r
    BY <1>1, <1>7, <1>8
  <2> QED BY <1>7, <2>1, <2>2 DEF Max
<1>10. w[s + r] = m
  BY <1>1, <1>4
<1> QED BY <1>7, <1>9, <1>10 DEF __bbox_max_index_calc

LEMMA SpareFound ==
    ASSUME IndexBlocks = 2, NEW m \in Nat, NEW w, Shows(w, m)
    PROVE  /\ \A b \in SpareBlocks(w) :
                WordBlock(b * BlockWords) = Words(Other(m)) /\ b = 1 - BlockIndex(w)
           /\ IndexValid(w, Other(m)) => SpareBlocks(w) # {}
<1>1. PICK b \in {0, 1} :
        /\ b * BlockWords = Side(m) /\ BlockIndex(w) = b
        /\ (1 - b) * BlockWords = Other(m)
        /\ b \in UsedBlocks(w)
  BY BlockFound
<1>2. UsedBlocks(w) \subseteq {0, 1}
  BY DEF UsedBlocks
<1>3. BlockWords \in Nat \ {0, 1} /\ Other(m) \in {0, BlockWords}
  BY TwoBlocks, SideFacts
<1>4. ASSUME NEW c \in SpareBlocks(w)
      PROVE  WordBlock(c * BlockWords) = Words(Other(m)) /\ c = 1 - b
  <2>1. c = 1 - b
    BY <1>1, <1>2 DEF SpareBlocks
  <2>2. WordBlock(Other(m) + 0) = Words(Other(m)) /\ Other(m) + 0 = Other(m)
    BY <1>3, BlockOfSide
  <2> QED BY <1>1, <2>1, <2>2
<1>5. ASSUME IndexValid(w, Other(m)) PROVE SpareBlocks(w) # {}
  <2>1. w[(1 - b) * BlockWords] # Erased
    BY <1>1, <1>5, NoData DEF IndexValid
  <2>2. 1 - b \in UsedBlocks(w)
    <3>1. 1 - b \in 0..(IndexBlocks - 1)
      OBVIOUS
    <3> QED BY <2>1, <3>1 DEF UsedBlocks
  <2>3. UsedBlocks(w) = 0..1
    BY <1>1, <1>2, <2>2
  <2>4. Cardinality(UsedBlocks(w)) = 2
    <3>1. PICK a \in Int, c \in Int : a = 0 /\ c = 1
      OBVIOUS
    <3>2. Cardinality(a..c) = IF a > c THEN 0 ELSE c - a + 1
      BY FS_Interval
    <3>3. Cardinality(a..c) = 2
      BY <3>1, <3>2
    <3> QED BY <2>3, <3>1, <3>3
  <2>5. 1 - b \in UsedBlocks(w) \ {BlockIndex(w)}
    BY <1>1, <2>2
  <2> QED BY <2>4, <2>5 DEF SpareBlocks
<1> QED BY <1>1, <1>4, <1>5

LEMMA NothingFound ==
    ASSUME IndexBlocks = 2, NEW w, Blank(w)
    PROVE  __bbox_max_index_calc(w) = 0
<1>1. BlockWords \in Nat \ {0, 1}
  BY TwoBlocks
<1>2. BlockIndex(w) = 0
  <2>1. UsedBlocks(w) \subseteq {0, 1}
    BY DEF UsedBlocks
  <2>2. \A b \in {0, 1} : ~IndexValid(w, b * BlockWords)
    <3>1. 0 * BlockWords = 0 /\ 1 * BlockWords = BlockWords
      BY <1>1
    <3> QED BY <3>1 DEF Blank
  <2>3. {b \in UsedBlocks(w) : IndexValid(w, b * BlockWords)} = {}
    BY <2>1, <2>2
  <2> QED BY <2>3 DEF BlockIndex
<1>3. WordBlock(0) = 0..(0 + BlockWords - 1)
  <2>1. WordBlock(0 + 0) = Words(0) /\ 0 + 0 = 0
    <3>1. 0 \in {0, BlockWords} /\ 0 \in 0..(BlockWords - 1)
      BY <1>1
    <3>2. WordBlock(0 + 0) = Words(0)
      BY <3>1, BlockOfSide
    <3> QED BY <3>2
  <2> QED BY <2>1 DEF Words
<1>4. 0 * BlockWords = 0
  BY <1>1
<1>5. \A x \in WordBlock(0) : 0 \in 0..x
  BY <1>1, <1>3
<1>6. Run(w) = {}
  BY <1>2, <1>4, <1>5 DEF Run, Blank
<1> QED BY <1>6 DEF __bbox_max_index_calc

(* What an erase or a power failure leaves. *)
LEMMA ValidBefore ==
    ASSUME IndexBlocks = 2, NEW w, NEW e, NEW T, SpoilsWords(w, e, T),
           NEW s \in {0, BlockWords}, IndexValid(e, s)
    PROVE  IndexValid(w, s) /\ e[s] = w[s]
<1>1. s \in 0..(index_cnt - 1)
  BY TwoBlocks
<1>2. e[s] \notin {Erased, Junk}
  BY NoData DEF IndexValid
<1>3. e[s] = w[s]
  BY <1>1, <1>2 DEF SpoilsWords
<1> QED BY <1>3 DEF IndexValid

LEMMA BlankStays ==
    ASSUME IndexBlocks = 2, NEW w, NEW e, NEW T, SpoilsWords(w, e, T)
    PROVE  (Blank(w) => Blank(e)) /\ (Single(w) => Single(e))
<1>1. IndexValid(e, 0) => IndexValid(w, 0)
  BY ValidBefore
<1>2. IndexValid(e, BlockWords) => IndexValid(w, BlockWords)
  BY ValidBefore
<1> QED BY <1>1, <1>2 DEF Blank, Single

LEMMA ShowsStays ==
    ASSUME IndexBlocks = 2, NEW m \in Nat, NEW w, NEW e,
           SpoilsWords(w, e, Words(Other(m)))
    PROVE  (Own(w, m) => Own(e, m)) /\ (Shows(w, m) => Shows(e, m))
<1>1. /\ BlockWords \in Nat \ {0, 1} /\ index_cnt = 2 * BlockWords
      /\ Side(m) \in {0, BlockWords} /\ Other(m) \in {0, BlockWords}
      /\ Other(m) # Side(m)
  BY TwoBlocks, SideFacts
<1>2. \A j \in 0..(BlockWords - 1) : e[Side(m) + j] = w[Side(m) + j]
  <2>1. \A j \in 0..(BlockWords - 1) :
          Side(m) + j \in 0..(index_cnt - 1) /\ Side(m) + j \notin Words(Other(m))
    BY <1>1 DEF Words
  <2> QED BY <2>1 DEF SpoilsWords
<1>3. Own(w, m) => Own(e, m)
  BY <1>2 DEF Own
<1>4. IndexValid(e, Other(m)) => IndexValid(w, Other(m)) /\ e[Other(m)] = w[Other(m)]
  BY <1>1, ValidBefore
<1> QED BY <1>3, <1>4 DEF Shows

(* A block that is erased, or torn, has no head. *)
LEMMA EraseWords ==
    ASSUME IndexBlocks = 2, NEW w, DOMAIN w = 0..(index_cnt - 1),
           NEW s \in {0, BlockWords}, NEW e, e = ErasedIn(w, Words(s))
    PROVE  /\ SpoilsWords(w, e, Words(s)) /\ ~IndexValid(e, s)
           /\ \A j \in 0..(BlockWords - 1) : e[s + j] = Erased
<1>1. BlockWords \in Nat \ {0, 1} /\ index_cnt = 2 * BlockWords
  BY TwoBlocks
<1>2. \A u \in 0..(index_cnt - 1) : e[u] = IF u \in Words(s) THEN Erased ELSE w[u]
  BY DEF ErasedIn
<1>3. \A j \in 0..(BlockWords - 1) :
        s + j \in 0..(index_cnt - 1) /\ s + j \in Words(s)
  BY <1>1 DEF Words
<1>4. \A j \in 0..(BlockWords - 1) : e[s + j] = Erased
  BY <1>2, <1>3
<1>5. e[s] = Erased
  <2>1. 0 \in 0..(BlockWords - 1) /\ s + 0 = s
    BY <1>1
  <2>2. e[s + 0] = Erased
    BY <1>4, <2>1
  <2> QED BY <2>1, <2>2
<1> QED BY <1>2, <1>4, <1>5, NoData DEF SpoilsWords, IndexValid

LEMMA TornWords ==
    ASSUME IndexBlocks = 2, NEW w, DOMAIN w = 0..(index_cnt - 1),
           NEW s \in {0, BlockWords}, NEW e \in Torn(w, Words(s))
    PROVE  SpoilsWords(w, e, Words(s)) /\ ~IndexValid(e, s)
<1>1. BlockWords \in Nat \ {0, 1} /\ index_cnt = 2 * BlockWords
  BY TwoBlocks
<1>2. PICK c \in {Erased, Junk} :
        e = [u \in DOMAIN w |-> IF u \in Words(s) THEN c ELSE w[u]]
  BY DEF Torn
<1>3. s \in 0..(index_cnt - 1) /\ s \in Words(s)
  BY <1>1 DEF Words
<1>4. e[s] = c
  BY <1>2, <1>3
<1>5. SpoilsWords(w, e, Words(s))
  BY <1>2 DEF SpoilsWords
<1> QED BY <1>4, <1>5, NoData DEF IndexValid

(* What a restart needs to find: nothing, or an index m whose record is    *)
(* sound, or was begun when power failed.                                  *)
Findable(d, f, m) ==
    \/ m = 0
    \/ m >= 1 /\ Sound(d, m) /\ Clean(d, m + 1)
    \/ f = 1 /\ Redo(d, m)
OffOK(w, d, k, r, f) ==
    \/ Blank(w) /\ Below(d, k, r, 1)
    \/ \E m \in Nat : Shows(w, m) /\ Below(d, k, r, m + 1) /\ Findable(d, f, m)

(* Between saves: the words show the record before n, which is there; or   *)
(* record n was begun, and power failed; or nothing is to be found.        *)
IdleOK(w, d, f, n) ==
    /\ Single(w)
    /\ \/ n = 0 /\ Blank(w)
       \/ n = 0 /\ Shows(w, 0)
       \/ n = 0 /\ f = 1 /\ \E m \in Nat : Shows(w, m) /\ Redo(d, m)
       \/ /\ n >= 1 /\ Shows(w, n - 1) /\ Clean(d, n)
          /\ n = 1 \/ Sound(d, n - 1) \/ (f = 1 /\ Redo(d, n - 1))
       \/ n >= 2 /\ f = 1 /\ Shows(w, n) /\ Redo(d, n)

(* Before index n is written into an empty block. *)
BlockOK(w, d, f, n) ==
    /\ Cleared(w, n) /\ DataOK(d, f, n)
    /\ f = 0 => IF n = 0 THEN Blank(w) ELSE Shows(w, n - 1)

LEMMA BelowMore ==
    ASSUME NEW d, NEW k, NEW r, NEW n \in Nat, NEW m \in Nat, n <= m,
           Below(d, k, r, n)
    PROVE  Below(d, k, r, m)
<1> SUFFICES ASSUME NEW i \in 1..MaxSaves, Is(d, k, r, i) PROVE i < m
  BY DEF Below
<1>1. i < n /\ i \in Int
  BY StoreSizes DEF Below
<1> QED BY <1>1

LEMMA IdleOff ==
    ASSUME NEW w, NEW d, NEW k, NEW r, NEW f \in 0..1, NEW n \in Nat,
           IdleOK(w, d, f, n), Below(d, k, r, n)
    PROVE  OffOK(w, d, k, r, f) /\ OffOK(w, d, k, r, 1)
<1>1. CASE n = 0 /\ Blank(w)
  <2>1. Below(d, k, r, 1)
    BY <1>1, BelowMore
  <2> QED BY <1>1, <2>1 DEF OffOK
<1>2. CASE n = 0 /\ Shows(w, 0)
  <2>1. Below(d, k, r, 0 + 1) /\ 0 \in Nat
    BY <1>2, BelowMore
  <2>2. \A g : Findable(d, g, 0)
    BY DEF Findable
  <2> QED BY <1>2, <2>1, <2>2 DEF OffOK
<1>3. ASSUME n = 0, f = 1, NEW m \in Nat, Shows(w, m), Redo(d, m)
      PROVE  OffOK(w, d, k, r, f) /\ OffOK(w, d, k, r, 1)
  <2>1. m + 1 \in Nat /\ n <= m + 1
    BY <1>3
  <2>2. Below(d, k, r, m + 1)
    BY <2>1, BelowMore
  <2>3. Findable(d, 1, m)
    BY <1>3 DEF Findable
  <2> QED BY <1>3, <2>2, <2>3 DEF OffOK
<1>4. CASE /\ n >= 1 /\ Shows(w, n - 1) /\ Clean(d, n)
           /\ n = 1 \/ Sound(d, n - 1) \/ (f = 1 /\ Redo(d, n - 1))
  <2>1. PICK m \in Nat : m = n - 1
    BY <1>4
  <2>2. m + 1 = n
    BY <2>1
  <2>3. /\ Shows(w, m) /\ Clean(d, m + 1) /\ Below(d, k, r, m + 1)
        /\ m = 0 \/ Sound(d, m) \/ (f = 1 /\ Redo(d, m))
    BY <1>4, <2>1, <2>2
  <2>4. Findable(d, f, m) /\ Findable(d, 1, m)
    BY <2>3 DEF Findable
  <2> QED BY <2>3, <2>4 DEF OffOK
<1>5. CASE n >= 2 /\ f = 1 /\ Shows(w, n) /\ Redo(d, n)
  <2>1. n + 1 \in Nat /\ n <= n + 1
    OBVIOUS
  <2>2. Below(d, k, r, n + 1)
    BY <2>1, BelowMore
  <2>3. Findable(d, 1, n)
    BY <1>5 DEF Findable
  <2> QED BY <1>5, <2>2, <2>3 DEF OffOK
<1> QED BY <1>1, <1>2, <1>3, <1>4, <1>5 DEF IdleOK

(* After f = 0 failures a save can be cut off. *)
LEMMA SaveOff ==
    ASSUME NEW w, NEW d, NEW k, NEW r, NEW n \in Nat, Shows(w, n),
           n = 0 \/ Redo(d, n), Below(d, k, r, n)
    PROVE  OffOK(w, d, k, r, 1)
<1>1. n + 1 \in Nat /\ n <= n + 1
  OBVIOUS
<1>2. Below(d, k, r, n + 1)
  BY <1>1, BelowMore
<1>3. Findable(d, 1, n)
  BY DEF Findable
<1> QED BY <1>2, <1>3 DEF OffOK

LEMMA IdleData ==
    ASSUME NEW w, NEW d, NEW f \in 0..1, NEW n \in Nat, IdleOK(w, d, f, n)
    PROVE  DataOK(d, f, n)
<1>1. CASE n = 0
  BY <1>1 DEF DataOK
<1>2. CASE /\ n >= 1 /\ Shows(w, n - 1) /\ Clean(d, n)
           /\ n = 1 \/ Sound(d, n - 1) \/ (f = 1 /\ Redo(d, n - 1))
  BY <1>2 DEF DataOK
<1>3. CASE n >= 2 /\ f = 1 /\ Shows(w, n) /\ Redo(d, n)
  <2>1. n # 1
    BY <1>3
  <2> QED BY <1>3, <2>1 DEF DataOK, Redo
<1> QED BY <1>1, <1>2, <1>3 DEF IdleOK

(* A restart. *)
LEMMA SearchFinds ==
    ASSUME NEW d, NEW f \in 0..1, f < LookBack, NEW m \in Nat, Findable(d, f, m)
    PROVE  LET n == __bbox_data_search_by_index(d, m)
           IN  \/ m = 0 /\ n = 0
               \/ m >= 1 /\ Sound(d, m) /\ Clean(d, m + 1) /\ n = m + 1
               \/ m = 1 /\ f = 1 /\ Redo(d, m) /\ n = 0
               \/ m >= 2 /\ f = 1 /\ Redo(d, m) /\ n = m
<1> DEFINE low == IF m > LookBack THEN m - LookBack ELSE 0
           found == {i \in (low + 1)..m : Sound(d, i)}
           n == __bbox_data_search_by_index(d, m)
<1>1. n = IF found = {} THEN low ELSE Max(found) + 1
  BY DEF __bbox_data_search_by_index
<1>2. /\ LookBack \in Nat \ {0} /\ low \in Nat
      /\ m >= 1 => m \in (low + 1)..m
      /\ m <= 1 => low = 0
      /\ m >= 2 /\ f = 1 => m - 1 \in (low + 1)..m
  BY StoreSizes
<1> HIDE DEF low
<1>3. found \in SUBSET Nat /\ \A i \in found : i <= m
  BY <1>2
<1>4. CASE m = 0
  <2>1. found = {}
    BY <1>2, <1>4
  <2> QED BY <1>1, <1>2, <1>4, <2>1
<1>5. CASE m >= 1 /\ Sound(d, m) /\ Clean(d, m + 1)
  <2>1. m \in found
    BY <1>2, <1>5
  <2> HIDE DEF found
  <2>2. Max(found) \in found /\ \A i \in found : i <= Max(found)
    BY <1>3, <2>1, MaxNat
  <2>3. Max(found) = m
    <3>1. Max(found) \in Nat /\ Max(found) <= m /\ m <= Max(found)
      BY <1>3, <2>1, <2>2
    <3> QED BY <3>1
  <2>4. n = m + 1
    BY <1>1, <2>1, <2>3
  <2> QED BY <1>5, <2>4
<1>6. CASE f = 1 /\ Redo(d, m)
  <2>1. m \notin found /\ m >= 1 /\ (m = 1 \/ Sound(d, m - 1))
    BY <1>6 DEF Redo
  <2>2. CASE m = 1
    <3>1. found = {}
      <4>1. \A i \in (low + 1)..m : i = m
        BY <1>2, <2>2
      <4> QED BY <2>1, <4>1
    <3> QED BY <1>1, <1>2, <1>6, <2>2, <3>1
  <2>3. CASE m # 1
    <3>1. m >= 2 /\ m - 1 \in found
      BY <1>2, <1>6, <2>1, <2>3
    <3> HIDE DEF found
    <3>2. Max(found) \in found /\ \A i \in found : i <= Max(found)
      BY <1>3, <3>1, MaxNat
    <3>3. Max(found) = m - 1
      <4>1. Max(found) \in Nat /\ Max(found) <= m /\ Max(found) # m /\ Max(found) >= m - 1
        BY <1>3, <2>1, <3>1, <3>2
      <4> QED BY <4>1
    <3>4. n = m
      <4>1. n = Max(found) + 1
        BY <1>1, <3>1
      <4> QED BY <3>3, <4>1
    <3> QED BY <1>6, <3>1, <3>4
  <2> QED BY <2>2, <2>3
<1> QED BY <1>4, <1>5, <1>6 DEF Findable

(* The words a restart erases are those of the other block. *)
SpareWords(w) == UNION {WordBlock(b * BlockWords) : b \in SpareBlocks(w)}

LEMMA EraseSpare ==
    ASSUME IndexBlocks = 2, NEW w, DOMAIN w = 0..(index_cnt - 1),
           NEW e, e = ErasedIn(w, SpareWords(w))
    PROVE  /\ Blank(w) => Blank(e) /\ Single(e)
           /\ \A m \in Nat : Shows(w, m) => Shows(e, m) /\ Single(e)
<1>1. ASSUME Blank(w) PROVE Blank(e) /\ Single(e)
  <2>1. SpoilsWords(w, e, SpareWords(w))
    BY DEF SpoilsWords, ErasedIn
  <2>2. Blank(e)
    BY <1>1, <2>1, BlankStays
  <2> QED BY <2>2 DEF Blank, Single
<1>2. ASSUME NEW m \in Nat, Shows(w, m) PROVE Shows(e, m) /\ Single(e)
  <2>0. /\ Side(m) \in {0, BlockWords} /\ Other(m) \in {0, BlockWords}
        /\ Other(m) # Side(m)
    BY SideFacts
  <2>1. /\ \A b \in SpareBlocks(w) :
             WordBlock(b * BlockWords) = Words(Other(m)) /\ b = 1 - BlockIndex(w)
        /\ IndexValid(w, Other(m)) => SpareBlocks(w) # {}
    BY <1>2, SpareFound
  <2>2. CASE SpareBlocks(w) = {}
    <3>1. SpareWords(w) = {}
      BY <2>2 DEF SpareWords
    <3>2. SpoilsWords(w, e, {})
      BY <3>1 DEF SpoilsWords, ErasedIn
    <3>3. SpoilsWords(w, e, Words(Other(m)))
      BY <3>2 DEF SpoilsWords
    <3>4. ~IndexValid(w, Other(m))
      BY <2>1, <2>2
    <3>5. ~IndexValid(e, Other(m))
      BY <2>0, <3>2, <3>4, ValidBefore
    <3>6. Shows(e, m)
      BY <1>2, <3>3, ShowsStays
    <3> QED BY <2>0, <3>5, <3>6 DEF Single
  <2>3. CASE SpareBlocks(w) # {}
    <3>1. SpareWords(w) = Words(Other(m))
      BY <2>1, <2>3 DEF SpareWords
    <3>2. e = ErasedIn(w, Words(Other(m)))
      BY <3>1
    <3>3. SpoilsWords(w, e, Words(Other(m))) /\ ~IndexValid(e, Other(m))
      BY <2>0, <3>2, EraseWords
    <3>4. Shows(e, m)
      BY <1>2, <3>3, ShowsStays
    <3> QED BY <2>0, <3>3, <3>4 DEF Single
  <2> QED BY <2>2, <2>3
<1> QED BY <1>1, <1>2

LEMMA Restart ==
    ASSUME IndexBlocks = 2, NEW w, DOMAIN w = 0..(index_cnt - 1), NEW d,
           NEW k, NEW r, NEW f \in 0..1, f < LookBack, OffOK(w, d, k, r, f),
           NEW e, e = ErasedIn(w, SpareWords(w)),
           NEW n, n = __bbox_data_search_by_index(d, __bbox_max_index_calc(w))
    PROVE  n \in Nat /\ IdleOK(e, d, f, n) /\ Below(d, k, r, n)
<1>1. CASE Blank(w) /\ Below(d, k, r, 1)
  <2>1. __bbox_max_index_calc(w) = 0
    BY <1>1, NothingFound
  <2>2. Findable(d, f, 0)
    BY DEF Findable
  <2>3. n = 0
    BY <2>1, <2>2, SearchFinds
  <2>4. Blank(e) /\ Single(e)
    BY <1>1, EraseSpare
  <2>5. Below(d, k, r, 0)
    <3> SUFFICES ASSUME NEW i \in 1..MaxSaves, Is(d, k, r, i) PROVE i < 0
      BY DEF Below
    <3>1. i < 1
      BY <1>1 DEF Below
    <3> QED BY <3>1, StoreSizes
  <2> QED BY <2>3, <2>4, <2>5 DEF IdleOK
<1>2. ASSUME NEW m \in Nat, Shows(w, m), Below(d, k, r, m + 1), Findable(d, f, m)
      PROVE  n \in Nat /\ IdleOK(e, d, f, n) /\ Below(d, k, r, n)
  <2>1. n = __bbox_data_search_by_index(d, m)
    BY <1>2, IndexFound
  <2>2. \/ m = 0 /\ n = 0
        \/ m >= 1 /\ Sound(d, m) /\ Clean(d, m + 1) /\ n = m + 1
        \/ m = 1 /\ f = 1 /\ Redo(d, m) /\ n = 0
        \/ m >= 2 /\ f = 1 /\ Redo(d, m) /\ n = m
    BY <1>2, <2>1, SearchFinds
  <2>3. Shows(e, m) /\ Single(e)
    BY <1>2, EraseSpare
  <2>4. \A i \in 1..MaxSaves : Is(d, k, r, i) => i < m + 1
    BY <1>2 DEF Below
  <2>5. \A i \in 1..MaxSaves : i \in Int /\ i >= 1
    BY StoreSizes
  <2>6. CASE m = 0 /\ n = 0
    <3>1. Below(d, k, r, n)
      BY <2>4, <2>5, <2>6 DEF Below
    <3> QED BY <2>3, <2>6, <3>1 DEF IdleOK
  <2>7. CASE m >= 1 /\ Sound(d, m) /\ Clean(d, m + 1) /\ n = m + 1
    <3>1. n \in Nat /\ n >= 1 /\ n - 1 = m
      BY <2>7
    <3>2. /\ n >= 1 /\ Shows(e, n - 1) /\ Clean(d, n) /\ Sound(d, n - 1)
          /\ Below(d, k, r, n)
      BY <1>2, <2>3, <2>7, <3>1
    <3> QED BY <2>3, <3>1, <3>2 DEF IdleOK
  <2>8. ASSUME f = 1, Redo(d, m)
        PROVE  \A i \in 1..MaxSaves : Is(d, k, r, i) => i < m
    <3> SUFFICES ASSUME NEW i \in 1..MaxSaves, Is(d, k, r, i) PROVE i < m
      OBVIOUS
    <3>1. i # m
      BY <2>8 DEF Is, Redo
    <3> QED BY <2>4, <2>5, <3>1
  <2>9. CASE m = 1 /\ f = 1 /\ Redo(d, m) /\ n = 0
    <3>1. Below(d, k, r, n)
      BY <2>5, <2>8, <2>9 DEF Below
    <3> QED BY <2>3, <2>9, <3>1 DEF IdleOK
  <2>10. CASE m >= 2 /\ f = 1 /\ Redo(d, m) /\ n = m
    <3>1. Below(d, k, r, n)
      BY <2>8, <2>10 DEF Below
    <3> QED BY <2>3, <2>10, <3>1 DEF IdleOK
  <2> QED BY <2>2, <2>6, <2>7, <2>9, <2>10
<1> QED BY <1>1, <1>2 DEF OffOK

(* Power fails again while the spare block is erased. *)
LEMMA RestartTorn ==
    ASSUME IndexBlocks = 2, NEW w, DOMAIN w = 0..(index_cnt - 1), NEW d,
           NEW k, NEW r, OffOK(w, d, k, r, 0), NEW b \in SpareBlocks(w),
           NEW D, D = UNION {WordBlock(c * BlockWords) :
                               c \in {x \in SpareBlocks(w) : x < b}},
           NEW e \in Torn(ErasedIn(w, D), WordBlock(b * BlockWords))
    PROVE  OffOK(e, d, k, r, 1)
<1> DEFINE T == D \union WordBlock(b * BlockWords)
<1>1. SpoilsWords(w, e, T)
  <2>1. PICK c \in {Erased, Junk} : e = [u \in DOMAIN ErasedIn(w, D) |->
          IF u \in WordBlock(b * BlockWords) THEN c ELSE ErasedIn(w, D)[u]]
    BY DEF Torn
  <2>2. DOMAIN ErasedIn(w, D) = 0..(index_cnt - 1)
    BY DEF ErasedIn
  <2>3. \A u \in 0..(index_cnt - 1) :
          ErasedIn(w, D)[u] = IF u \in D THEN Erased ELSE w[u]
    BY DEF ErasedIn
  <2> QED BY <2>1, <2>2, <2>3 DEF SpoilsWords
<1>2. CASE Blank(w) /\ Below(d, k, r, 1)
  <2>1. Blank(e)
    BY <1>1, <1>2, BlankStays
  <2> QED BY <1>2, <2>1 DEF OffOK
<1>3. ASSUME NEW m \in Nat, Shows(w, m), Below(d, k, r, m + 1), Findable(d, 0, m)
      PROVE  OffOK(e, d, k, r, 1)
  <2>1. \A c \in SpareBlocks(w) :
          WordBlock(c * BlockWords) = Words(Other(m)) /\ c = 1 - BlockIndex(w)
    BY <1>3, SpareFound
  <2>2. T \subseteq Words(Other(m))
    BY <2>1
  <2>3. SpoilsWords(w, e, Words(Other(m)))
    BY <1>1, <2>2 DEF SpoilsWords
  <2>4. Shows(e, m)
    BY <1>3, <2>3, ShowsStays
  <2>5. Findable(d, 1, m)
    BY <1>3 DEF Findable
  <2> QED BY <1>3, <2>4, <2>5 DEF OffOK
<1> QED BY <1>2, <1>3 DEF OffOK

(* The erase command. *)
LastOf(n) == WordBlock((n - 1) % index_cnt)

LEMMA LastBlock ==
    ASSUME IndexBlocks = 2, NEW n \in Nat \ {0}
    PROVE  LastOf(n) = Words(Side(n - 1))
<1>1. n - 1 \in Nat
  OBVIOUS
<1>2. WordBlock(SlotOf(n - 1)) = Words(Side(n - 1))
  BY <1>1, WordPlace
<1> QED BY <1>2 DEF SlotOf, LastOf

LEMMA NoHeads ==
    ASSUME IndexBlocks = 2, NEW s \in {0, BlockWords}, NEW t \in {0, BlockWords},
           s # t, NEW w, NEW e, NEW T, SpoilsWords(w, e, T),
           ~IndexValid(e, s), Single(w), IndexValid(w, s)
    PROVE  Blank(e)
<1>1. ~IndexValid(w, t)
  BY DEF Single
<1>2. ~IndexValid(e, t)
  BY <1>1, ValidBefore
<1> QED BY <1>2 DEF Blank

LEMMA CommandErases ==
    ASSUME IndexBlocks = 2, NEW w, DOMAIN w = 0..(index_cnt - 1), NEW d,
           NEW f \in 0..1, NEW n \in Nat \ {0}, IdleOK(w, d, f, n),
           NEW e, e = ErasedIn(w, LastOf(n))
    PROVE  IdleOK(e, d, f, 0)
<1>1. /\ Side(n) \in {0, BlockWords} /\ Other(n) \in {0, BlockWords}
      /\ Other(n) # Side(n)
  BY SideFacts
<1>2. PICK m \in Nat : m = n - 1
  OBVIOUS
<1>3. /\ Side(m) \in {0, BlockWords} /\ Other(m) \in {0, BlockWords}
      /\ Other(m) # Side(m)
  BY SideFacts
<1>4. LastOf(n) = Words(Side(m))
  BY <1>2, LastBlock
<1>5. SpoilsWords(w, e, Words(Side(m))) /\ ~IndexValid(e, Side(m))
  BY <1>3, <1>4, EraseWords
<1>6. Single(w) /\ Single(e)
  BY <1>5, BlankStays DEF IdleOK
<1>7. CASE Shows(w, m)
  <2>1. IndexValid(w, Side(m))
    BY <1>7, HeadShows DEF Shows
  <2>2. Blank(e)
    BY <1>3, <1>5, <1>6, <2>1, NoHeads
  <2> QED BY <1>6, <2>2 DEF IdleOK
<1>8. CASE n >= 2 /\ f = 1 /\ Shows(w, n) /\ Redo(d, n)
  <2>1. CASE n % BlockWords = 0
    <3>1. Side(m) = Other(n)
      BY <1>2, <2>1, SideBack
    <3>2. Shows(e, n)
      BY <1>5, <1>8, <3>1, ShowsStays
    <3> QED BY <1>6, <1>8, <3>2 DEF IdleOK
  <2>2. CASE n % BlockWords # 0
    <3>1. Side(m) = Side(n)
      BY <1>2, <2>2, SideBack
    <3>2. IndexValid(w, Side(m))
      BY <1>8, <3>1, HeadShows DEF Shows
    <3>3. Blank(e)
      BY <1>3, <1>5, <1>6, <3>2, NoHeads
    <3> QED BY <1>6, <3>3 DEF IdleOK
  <2> QED BY <2>1, <2>2
<1> QED BY <1>2, <1>7, <1>8 DEF IdleOK

LEMMA CommandTorn ==
    ASSUME IndexBlocks = 2, NEW w, DOMAIN w = 0..(index_cnt - 1), NEW d,
           NEW n \in Nat \ {0}, IdleOK(w, d, 0, n), NEW e \in Torn(w, LastOf(n))
    PROVE  Blank(e)
<1>2. PICK m \in Nat : m = n - 1
  OBVIOUS
<1>3. /\ Side(m) \in {0, BlockWords} /\ Other(m) \in {0, BlockWords}
      /\ Other(m) # Side(m)
  BY SideFacts
<1>4. LastOf(n) = Words(Side(m))
  BY <1>2, LastBlock
<1>5. SpoilsWords(w, e, Words(Side(m))) /\ ~IndexValid(e, Side(m))
  BY <1>3, <1>4, TornWords
<1>6. Shows(w, m) /\ Single(w)
  BY <1>2 DEF IdleOK
<1>7. IndexValid(w, Side(m))
  BY <1>6, HeadShows DEF Shows
<1> QED BY <1>3, <1>5, <1>6, <1>7, NoHeads

(* The index of a save, when it begins a block: the erase before it, *)
LEMMA BlockErased ==
    ASSUME IndexBlocks = 2, NEW w, DOMAIN w = 0..(index_cnt - 1), NEW d,
           NEW f \in 0..1, NEW n \in Nat, n % BlockWords = 0, IdleOK(w, d, f, n),
           NEW e, e = ErasedIn(w, Words(Side(n)))
    PROVE  BlockOK(e, d, f, n)
<1>1. /\ Side(n) \in {0, BlockWords} /\ Other(n) \in {0, BlockWords}
      /\ Other(n) # Side(n)
  BY SideFacts
<1>2. /\ SpoilsWords(w, e, Words(Side(n))) /\ ~IndexValid(e, Side(n))
      /\ Cleared(e, n)
  BY <1>1, EraseWords DEF Cleared
<1>3. DataOK(d, f, n)
  BY IdleData
<1>4. ASSUME f = 0, n = 0 PROVE Blank(e)
  <2>1. CASE Blank(w)
    BY <1>2, <2>1, BlankStays
  <2>2. CASE Shows(w, 0)
    <3>1. IndexValid(w, Side(n)) /\ Single(w)
      BY <1>4, <2>2, HeadShows DEF Shows, IdleOK
    <3> QED BY <1>1, <1>2, <3>1, NoHeads
  <2> QED BY <1>4, <2>1, <2>2 DEF IdleOK
<1>5. ASSUME f = 0, n # 0 PROVE Shows(e, n - 1)
  <2>1. Shows(w, n - 1) /\ n \in Nat \ {0}
    BY <1>5 DEF IdleOK
  <2>2. PICK m \in Nat : m = n - 1
    BY <2>1
  <2>3. Other(m) = Side(n)
    BY <2>1, <2>2, SideBack
  <2>4. Shows(e, m)
    BY <1>2, <2>1, <2>2, <2>3, ShowsStays
  <2> QED BY <2>2, <2>4
<1> QED BY <1>2, <1>3, <1>4, <1>5 DEF BlockOK

(* power failing in that erase, *)
LEMMA BlockTorn ==
    ASSUME IndexBlocks = 2, NEW w, DOMAIN w = 0..(index_cnt - 1), NEW d,
           NEW k, NEW r, NEW n \in Nat, n % BlockWords = 0,
           IdleOK(w, d, 0, n), Below(d, k, r, n),
           NEW e \in {w} \union Torn(w, Words(Side(n)))
    PROVE  OffOK(e, d, k, r, 1)
<1>1. CASE e = w
  BY <1>1, IdleOff
<1>2. CASE e \in Torn(w, Words(Side(n)))
  <2>1. /\ Side(n) \in {0, BlockWords} /\ Other(n) \in {0, BlockWords}
        /\ Other(n) # Side(n)
    BY SideFacts
  <2>2. SpoilsWords(w, e, Words(Side(n))) /\ ~IndexValid(e, Side(n))
    BY <1>2, <2>1, TornWords
  <2>3. Single(e)
    BY <2>2, BlankStays DEF IdleOK
  <2>4. CASE n = 0
    <3>1. Blank(e)
      <4>1. CASE Blank(w)
        BY <2>2, <4>1, BlankStays
      <4>2. CASE Shows(w, 0)
        <5>1. IndexValid(w, Side(n)) /\ Single(w)
          BY <2>4, <4>2, HeadShows DEF Shows, IdleOK
        <5> QED BY <2>1, <2>2, <5>1, NoHeads
      <4> QED BY <2>4, <4>1, <4>2 DEF IdleOK
    <3>2. IdleOK(e, d, 0, n)
      BY <2>3, <2>4, <3>1 DEF IdleOK
    <3> QED BY <3>2, IdleOff
  <2>5. CASE n # 0
    <3>1. /\ Shows(w, n - 1) /\ n \in Nat \ {0} /\ Clean(d, n)
          /\ n = 1 \/ Sound(d, n - 1)
      BY <2>5 DEF IdleOK
    <3>2. PICK m \in Nat : m = n - 1
      BY <3>1
    <3>3. Other(m) = Side(n)
      BY <3>1, <3>2, SideBack
    <3>4. Shows(e, m)
      BY <2>2, <3>1, <3>2, <3>3, ShowsStays
    <3>5. IdleOK(e, d, 0, n)
      BY <2>3, <3>1, <3>2, <3>4 DEF IdleOK
    <3> QED BY <3>5, IdleOff
  <2> QED BY <2>4, <2>5
<1> QED BY <1>1, <1>2

(* or after it, *)
LEMMA BlockOff ==
    ASSUME NEW w, NEW d, NEW k, NEW r, NEW n \in Nat, BlockOK(w, d, 0, n),
           Below(d, k, r, n)
    PROVE  OffOK(w, d, k, r, 1)
<1>1. CASE n = 0
  <2>1. Blank(w) /\ Below(d, k, r, 1)
    BY <1>1, BelowMore DEF BlockOK
  <2> QED BY <2>1 DEF OffOK
<1>2. CASE n # 0
  <2>1. /\ Shows(w, n - 1) /\ Clean(d, n) /\ (n = 1 \/ Sound(d, n - 1))
    BY <1>2 DEF BlockOK, DataOK
  <2>2. PICK m \in Nat : m = n - 1
    BY <1>2
  <2>3. m + 1 = n
    BY <2>2
  <2>4. Findable(d, 1, m)
    BY <2>1, <2>2, <2>3 DEF Findable
  <2> QED BY <2>1, <2>2, <2>3, <2>4 DEF OffOK
<1> QED BY <1>1, <1>2

(* and the word. *)
LEMMA HeadWritten ==
    ASSUME IndexBlocks = 2, NEW w, DOMAIN w = 0..(index_cnt - 1), NEW d,
           NEW f \in 0..1, NEW n \in Nat, n % BlockWords = 0, BlockOK(w, d, f, n),
           NEW e, e = ProgrammedIn(w, {SlotOf(n)}, n)
    PROVE  Own(e, n) /\ DataOK(d, f, n) /\ (f = 0 => Shows(e, n))
<1>1. /\ Side(n) \in {0, BlockWords} /\ Other(n) \in {0, BlockWords}
      /\ Other(n) # Side(n) /\ First(n) \in Nat /\ n = First(n) + (n % BlockWords)
      /\ BlockWords \in Nat \ {0, 1} /\ index_cnt = 2 * BlockWords
  BY SideFacts, TwoBlocks
<1>2. SlotOf(n) = Side(n)
  <2>1. SlotOf(n) = Side(n) + (n % BlockWords)
    BY WordPlace
  <2> QED BY <1>1, <2>1
<1>3. \A u \in 0..(index_cnt - 1) :
        e[u] = IF u = Side(n) THEN Program(w[u], n) ELSE w[u]
  BY <1>2 DEF ProgrammedIn
<1>4. \A j \in 0..(BlockWords - 1) :
        Side(n) + j \in 0..(index_cnt - 1) /\ w[Side(n) + j] = Erased
        /\ (Side(n) + j = Side(n) <=> j = 0)
  BY <1>1 DEF BlockOK, Cleared
<1>5. ASSUME NEW j \in 0..(BlockWords - 1)
      PROVE  e[Side(n) + j] = IF j <= n % BlockWords THEN First(n) + j ELSE Erased
  <2>1. CASE j = 0
    <3>1. e[Side(n) + j] = n
      BY <1>3, <1>4, <2>1 DEF Program
    <3> QED BY <1>1, <2>1, <3>1
  <2>2. CASE j # 0
    <3>1. Side(n) + j \in 0..(index_cnt - 1) /\ Side(n) + j # Side(n)
      BY <1>4, <2>2
    <3>2. e[Side(n) + j] = w[Side(n) + j]
      BY <1>3, <3>1
    <3>3. e[Side(n) + j] = Erased
      BY <1>4, <3>2
    <3>4. ~(j <= n % BlockWords)
      BY <2>2
    <3> QED BY <3>3, <3>4
  <2> QED BY <2>1, <2>2
<1>6. Own(e, n)
  BY <1>5 DEF Own
<1>7. ASSUME f = 0 PROVE Shows(e, n)
  <2>0. Other(n) \in 0..(index_cnt - 1)
    BY <1>1
  <2>1. e[Other(n)] = w[Other(n)]
    BY <1>1, <1>3, <2>0
  <2>2. SUFFICES ASSUME IndexValid(w, Other(n)) PROVE w[Other(n)] < First(n)
    BY <1>6, <2>1 DEF Shows, IndexValid
  <2>3. CASE n = 0
    BY <1>1, <1>7, <2>2, <2>3 DEF BlockOK, Blank
  <2>4. CASE n # 0
    <3>1. Shows(w, n - 1) /\ n \in Nat \ {0}
      BY <1>7, <2>4 DEF BlockOK
    <3>2. PICK m \in Nat : m = n - 1
      BY <3>1
    <3>3. Side(m) = Other(n) /\ First(m) < n
      BY <3>1, <3>2, SideBack
    <3>4. w[Side(m)] = First(m)
      BY <3>1, <3>2, HeadShows DEF Shows
    <3> QED BY <1>1, <3>3, <3>4
  <2> QED BY <2>3, <2>4
<1> QED BY <1>6, <1>7 DEF BlockOK

(* The index of a save within a block. *)
LEMMA WordWritten ==
    ASSUME IndexBlocks = 2, NEW w, DOMAIN w = 0..(index_cnt - 1), NEW d,
           NEW f \in 0..1, NEW n \in Nat, n % BlockWords # 0, IdleOK(w, d, f, n),
           NEW e, e = ProgrammedIn(w, {SlotOf(n)}, n)
    PROVE  Shows(e, n) /\ Single(e) /\ DataOK(d, f, n)
<1>0. n \in Nat \ {0}
  <2>1. n # 0
    BY TwoBlocks, ModSmall
  <2> QED BY <2>1
<1>1. /\ Side(n) \in {0, BlockWords} /\ Other(n) \in {0, BlockWords}
      /\ Other(n) # Side(n) /\ First(n) \in Nat /\ n = First(n) + (n % BlockWords)
      /\ n % BlockWords \in 0..(BlockWords - 1)
      /\ BlockWords \in Nat \ {0, 1} /\ index_cnt = 2 * BlockWords
  BY SideFacts, TwoBlocks
<1> DEFINE j == n % BlockWords
<1>2. SlotOf(n) = Side(n) + j
  BY WordPlace
<1>3. \A u \in 0..(index_cnt - 1) :
        e[u] = IF u = Side(n) + j THEN Program(w[u], n) ELSE w[u]
  BY <1>2 DEF ProgrammedIn
<1>4. /\ e[0] = w[0] /\ e[BlockWords] = w[BlockWords]
  <2>1. j \in 1..(BlockWords - 1)
    BY <1>1
  <2> HIDE DEF j
  <2>2. /\ 0 \in 0..(index_cnt - 1) /\ BlockWords \in 0..(index_cnt - 1)
        /\ 0 # Side(n) + j /\ BlockWords # Side(n) + j
    BY <1>1, <2>1
  <2> QED BY <1>3, <2>2
<1>5. /\ \A s \in {0, BlockWords} : e[s] = w[s]
      /\ \A s \in {0, BlockWords} : IndexValid(e, s) <=> IndexValid(w, s)
  BY <1>4 DEF IndexValid
<1>6. Single(e)
  BY <1>5 DEF Single, IdleOK
<1>7. DataOK(d, f, n)
  BY IdleData
<1>8. PICK m \in Nat : m = n - 1
  BY <1>0
<1>9. Side(m) = Side(n) /\ First(m) = First(n) /\ m % BlockWords = j - 1
  BY <1>0, <1>8, SideBack
<1>10. \A i \in 0..(BlockWords - 1) :
         /\ Side(n) + i \in 0..(index_cnt - 1)
         /\ (Side(n) + i = Side(n) + j <=> i = j)
  BY <1>1
<1>11. CASE Shows(w, m)
  <2>1. \A i \in 0..(BlockWords - 1) :
          w[Side(n) + i] = IF i <= j - 1 THEN First(n) + i ELSE Erased
    BY <1>9, <1>11 DEF Shows, Own
  <2>2. ASSUME NEW i \in 0..(BlockWords - 1)
        PROVE  e[Side(n) + i] = IF i <= j THEN First(n) + i ELSE Erased
    <3>1. CASE i = j
      <4>1. w[Side(n) + i] = Erased
        BY <1>1, <2>1, <3>1
      <4>2. e[Side(n) + i] = n
        BY <1>3, <1>10, <3>1, <4>1 DEF Program
      <4> QED BY <1>1, <3>1, <4>2
    <3>2. CASE i # j
      <4>1. e[Side(n) + i] = w[Side(n) + i]
        BY <1>3, <1>10, <3>2
      <4>2. i <= j - 1 <=> i <= j
        BY <1>1, <3>2
      <4> QED BY <2>1, <4>1, <4>2
    <3> QED BY <3>1, <3>2
  <2>3. Own(e, n)
    BY <2>2 DEF Own
  <2>4. Other(m) = Other(n)
    BY <1>9 DEF Other
  <2> QED BY <1>1, <1>5, <1>6, <1>7, <1>9, <1>11, <2>3, <2>4 DEF Shows
<1>12. CASE Shows(w, n)
  <2>1. \A i \in 0..(BlockWords - 1) :
          w[Side(n) + i] = IF i <= j THEN First(n) + i ELSE Erased
    BY <1>12 DEF Shows, Own
  <2>2. ASSUME NEW i \in 0..(BlockWords - 1)
        PROVE  e[Side(n) + i] = IF i <= j THEN First(n) + i ELSE Erased
    <3>1. CASE i = j
      <4>1. w[Side(n) + i] = n
        BY <1>1, <2>1, <3>1
      <4>2. e[Side(n) + i] = n
        BY <1>3, <1>10, <3>1, <4>1 DEF Program
      <4> QED BY <1>1, <3>1, <4>2
    <3>2. CASE i # j
      <4>1. e[Side(n) + i] = w[Side(n) + i]
        BY <1>3, <1>10, <3>2
      <4> QED BY <2>1, <4>1
    <3> QED BY <3>1, <3>2
  <2>3. Own(e, n)
    BY <2>2 DEF Own
  <2> QED BY <1>1, <1>5, <1>6, <1>7, <1>12, <2>3 DEF Shows
<1> QED BY <1>0, <1>8, <1>11, <1>12 DEF IdleOK

(* The erase of the block before. *)
LEMMA BeforeErased ==
    ASSUME IndexBlocks = 2, NEW w, DOMAIN w = 0..(index_cnt - 1),
           NEW n \in Nat, Own(w, n), NEW e, e = ErasedIn(w, Words(Other(n)))
    PROVE  Shows(e, n) /\ Single(e)
<1>1. /\ Side(n) \in {0, BlockWords} /\ Other(n) \in {0, BlockWords}
  BY SideFacts
<1>2. SpoilsWords(w, e, Words(Other(n))) /\ ~IndexValid(e, Other(n))
  BY <1>1, EraseWords
<1>3. Own(e, n)
  BY <1>2, ShowsStays
<1> QED BY <1>1, <1>2, <1>3 DEF Shows, Single

LEMMA BeforeTorn ==
    ASSUME IndexBlocks = 2, NEW w, DOMAIN w = 0..(index_cnt - 1),
           NEW n \in Nat, Shows(w, n),
           NEW e \in {w} \union Torn(w, Words(Other(n)))
    PROVE  Shows(e, n)
<1>1. Other(n) \in {0, BlockWords}
  BY SideFacts
<1>2. CASE e \in Torn(w, Words(Other(n)))
  BY <1>1, <1>2, TornWords, ShowsStays
<1> QED BY <1>2

(* What both areas hold: s records were begun so far. *)
WordsOK(w, s) ==
    /\ w \in [0..(index_cnt - 1) -> (0..MaxSaves) \union {Erased, Junk}]
    /\ \A u \in 0..(index_cnt - 1) : w[u] \in Nat => w[u] < s
CellsOK(d) == d \in [0..(data_size - 1) -> Records \union {Erased, Junk}]

LEMMA WordsErased ==
    ASSUME NEW s, NEW w, WordsOK(w, s), NEW T
    PROVE  WordsOK(ErasedIn(w, T), s)
<1>1. Erased \notin Nat
  BY NoData
<1> QED BY <1>1 DEF WordsOK, ErasedIn

LEMMA WordsTorn ==
    ASSUME NEW s, NEW w, WordsOK(w, s), NEW T, NEW e \in {w} \union Torn(w, T)
    PROVE  WordsOK(e, s)
<1>1. Erased \notin Nat /\ Junk \notin Nat
  BY NoData
<1>2. CASE e \in Torn(w, T)
  <2>1. PICK c \in {Erased, Junk} :
          e = [u \in DOMAIN w |-> IF u \in T THEN c ELSE w[u]]
    BY <1>2 DEF Torn
  <2> QED BY <1>1, <2>1 DEF WordsOK
<1> QED BY <1>2

LEMMA WordsProgrammed ==
    ASSUME NEW s \in Nat, NEW w, WordsOK(w, s), NEW T,
           NEW n \in 0..MaxSaves, n < s
    PROVE  WordsOK(ProgrammedIn(w, T, n), s)
<1>1. Erased \notin Nat /\ Junk \notin Nat
  BY NoData
<1> QED BY <1>1 DEF WordsOK, ProgrammedIn, Program

LEMMA WordsMore ==
    ASSUME NEW s \in Nat, NEW w, WordsOK(w, s)
    PROVE  WordsOK(w, s + 1)
<1>1. ASSUME NEW u \in 0..(index_cnt - 1), w[u] \in Nat PROVE w[u] < s + 1
  <2>1. w[u] < s
    BY <1>1 DEF WordsOK
  <2> QED BY <1>1, <2>1
<1> QED BY <1>1 DEF WordsOK

LEMMA CellsErased ==
    ASSUME NEW d, CellsOK(d), NEW T
    PROVE  CellsOK(ErasedIn(d, T))
BY DEF CellsOK, ErasedIn

LEMMA CellsTorn ==
    ASSUME NEW d, CellsOK(d), NEW T, NEW e \in {d} \union Torn(d, T)
    PROVE  CellsOK(e)
<1>1. CASE e \in Torn(d, T)
  <2>1. PICK c \in {Erased, Junk} :
          e = [u \in DOMAIN d |-> IF u \in T THEN c ELSE d[u]]
    BY <1>1 DEF Torn
  <2> QED BY <2>1 DEF CellsOK
<1> QED BY <1>1

LEMMA CellsProgrammed ==
    ASSUME NEW d, CellsOK(d), NEW T, NEW c \in Records
    PROVE  CellsOK(ProgrammedIn(d, T, c))
<1> HIDE DEF Records
<1> QED BY DEF CellsOK, ProgrammedIn, Program

(* What a search over words that hold indices below s can come to. *)
LEMMA HeadPlace ==
    ASSUME NEW b \in 0..(IndexBlocks - 1)
    PROVE  /\ WordBlock(b * BlockWords) =
                (b * BlockWords)..(b * BlockWords + BlockWords - 1)
           /\ b * BlockWords \in Nat
           /\ b * BlockWords + BlockWords <= index_cnt
<1>1. BlockWords \in Nat \ {0, 1} /\ IndexBlocks \in Nat \ {0}
  BY StoreSizes
<1>2. b \in Nat /\ b + 1 <= IndexBlocks
  BY <1>1
<1>3. b * BlockWords \in Nat /\ (b + 1) * BlockWords <= IndexBlocks * BlockWords
  BY <1>1, <1>2
<1>4. (b + 1) * BlockWords = b * BlockWords + BlockWords
  BY <1>1, <1>2
<1>5. (BlockWords * b + 0) \div BlockWords = b
  <2>1. 0 \in 0..(BlockWords - 1) /\ BlockWords \in Nat \ {0} /\ b \in Int
    BY <1>1, <1>2
  <2> QED BY <2>1, DivUnique
<1>6. BlockWords * b + 0 = b * BlockWords
  BY <1>1, <1>2
<1>7. (b * BlockWords) \div BlockWords = b
  BY <1>5, <1>6
<1> QED BY <1>3, <1>4, <1>7 DEF WordBlock, index_cnt

LEMMA CalcBound ==
    ASSUME NEW s \in Nat, NEW w, WordsOK(w, s)
    PROVE  LET m == __bbox_max_index_calc(w)
           IN  m = 0 \/ (m \in Nat /\ m < s)
<1> DEFINE heads == {b \in UsedBlocks(w) : IndexValid(w, b * BlockWords)}
           V == {w[b * BlockWords] : b \in heads}
<1>1. ASSUME NEW b \in heads
      PROVE  /\ b \in 0..(IndexBlocks - 1)
             /\ w[b * BlockWords] \in Nat /\ w[b * BlockWords] < s
  <2>1. b \in 0..(IndexBlocks - 1) /\ w[b * BlockWords] \in Nat
    BY DEF UsedBlocks, IndexValid
  <2>2. b * BlockWords \in 0..(index_cnt - 1)
    <3>1. /\ b * BlockWords \in Nat
          /\ b * BlockWords + BlockWords <= index_cnt
      BY <2>1, HeadPlace
    <3>2. PICK p \in Nat : p = b * BlockWords
      BY <3>1
    <3>3. p + BlockWords <= index_cnt
      BY <3>1, <3>2
    <3>4. BlockWords \in Nat \ {0} /\ index_cnt \in Nat
      BY StoreSizes
    <3>5. p \in 0..(index_cnt - 1)
      BY <3>3, <3>4
    <3> QED BY <3>2, <3>5
  <2> QED BY <2>1, <2>2 DEF WordsOK
<1>2. BlockIndex(w) \in 0..(IndexBlocks - 1)
  <2>1. CASE heads = {}
    BY <2>1, StoreSizes DEF BlockIndex
  <2>2. CASE heads # {}
    <3>1. V \in SUBSET Nat /\ V # {} /\ \A x \in V : x <= s
      <4> HIDE DEF heads
      <4> QED BY <1>1, <2>2
    <3> HIDE DEF V
    <3>2. Max(V) \in V /\ \A x \in V : x <= Max(V)
      BY <3>1, MaxNat
    <3> USE DEF V
    <3>3. \E b \in heads : \A c \in heads : w[c * BlockWords] <= w[b * BlockWords]
      <4> HIDE DEF heads
      <4>1. PICK b \in heads : Max(V) = w[b * BlockWords]
        BY <3>2
      <4> QED BY <3>2, <4>1
    <3>4. BlockIndex(w) \in heads
      BY <2>2, <3>3 DEF BlockIndex
    <3> QED BY <1>1, <3>4
  <2> QED BY <2>1, <2>2
<1>3. PICK b \in 0..(IndexBlocks - 1) : b = BlockIndex(w)
  BY <1>2
<1>4. /\ WordBlock(b * BlockWords) =
           (b * BlockWords)..(b * BlockWords + BlockWords - 1)
      /\ b * BlockWords \in Nat /\ b * BlockWords + BlockWords <= index_cnt
      /\ BlockWords \in Nat /\ index_cnt \in Nat
  BY HeadPlace, StoreSizes
<1>5. PICK p \in Nat : p = b * BlockWords
  BY <1>4
<1>6. /\ WordBlock(p) = p..(p + BlockWords - 1)
      /\ p + BlockWords <= index_cnt
      /\ Run(w) = {u \in WordBlock(p) : \A v \in p..u : IndexValid(w, v)}
  BY <1>3, <1>4, <1>5 DEF Run
<1>7. /\ Run(w) \in SUBSET Nat /\ \A u \in Run(w) : u <= index_cnt
      /\ \A u \in Run(w) : w[u] \in Nat /\ w[u] < s
  <2> SUFFICES ASSUME NEW u \in Run(w)
               PROVE  u \in Nat /\ u <= index_cnt /\ w[u] \in Nat /\ w[u] < s
    OBVIOUS
  <2>1. u \in p..(p + BlockWords - 1) /\ (\A v \in p..u : IndexValid(w, v))
    BY <1>6
  <2>2. u \in 0..(index_cnt - 1) /\ u \in p..u
    BY <1>4, <1>5, <1>6, <2>1
  <2>3. w[u] \in Nat
    BY <2>1, <2>2 DEF IndexValid
  <2> QED BY <1>4, <2>2, <2>3 DEF WordsOK
<1>8. CASE Run(w) = {}
  BY <1>8 DEF __bbox_max_index_calc
<1>9. CASE Run(w) # {}
  <2>1. Max(Run(w)) \in Run(w)
    <3>1. PICK M : M = Run(w)
      OBVIOUS
    <3>2. M \in SUBSET Nat /\ M # {} /\ index_cnt \in Nat /\ \A x \in M : x <= index_cnt
      BY <1>4, <1>7, <1>9, <3>1
    <3>3. Max(M) \in M
      BY <3>2, MaxNat
    <3> QED BY <3>1, <3>3
  <2> QED BY <1>7, <1>9, <2>1 DEF __bbox_max_index_calc
<1> QED BY <1>8, <1>9

LEMMA SearchBound ==
    ASSUME NEW s \in Nat, NEW d, NEW m \in Nat, m = 0 \/ m < s
    PROVE  __bbox_data_search_by_index(d, m) \in 0..s
<1> DEFINE lo == IF m > LookBack THEN m - LookBack ELSE 0
           found == {i \in (lo + 1)..m : Sound(d, i)}
<1>1. LookBack \in Nat
  BY StoreSizes
<1>2. lo \in 0..m
  BY <1>1
<1>3. CASE found = {}
  <2>1. __bbox_data_search_by_index(d, m) = lo
    BY <1>3 DEF __bbox_data_search_by_index
  <2> HIDE DEF lo
  <2> QED BY <1>2, <2>1
<1>4. CASE found # {}
  <2>1. __bbox_data_search_by_index(d, m) = Max(found) + 1
    BY <1>4 DEF __bbox_data_search_by_index
  <2> HIDE DEF lo
  <2>2. found \in SUBSET Nat /\ \A x \in found : 1 <= x /\ x <= m
    BY <1>2
  <2>3. PICK M : M = found
    OBVIOUS
  <2> HIDE DEF found
  <2>4. Max(M) \in M
    <3>1. M \in SUBSET Nat /\ M # {} /\ m \in Nat /\ \A x \in M : x <= m
      BY <1>4, <2>2, <2>3
    <3> QED BY <3>1, MaxNat
  <2>5. Max(found) \in 1..m
    <3>1. Max(M) \in Nat /\ 1 <= Max(M) /\ Max(M) <= m
      BY <2>2, <2>3, <2>4
    <3>2. Max(M) \in 1..m
      BY <3>1
    <3> QED BY <2>3, <3>2
  <2> QED BY <2>1, <2>5
<1> QED BY <1>3, <1>4

(* The store's types, and that what was kept was begun: in a save nothing  *)
(* bears its number yet, and no index is larger than the number of saves.  *)
KeptOK ==
    /\ \A i \in 0..MaxSaves : kept[i] <= saves
    /\ step \notin {"off", "idle", "cmd_erase"} =>
         (\A i \in 0..MaxSaves : kept[i] < saves) /\ index < saves
    /\ index <= saves /\ erased <= saves
    /\ WordsOK(words, saves)
StoreTypeInv == bbTypeOK /\ KeptOK

LEMMA StoreTypes ==
    ASSUME StoreTypeInv
    PROVE  /\ CellsOK(dat) /\ WordsOK(words, saves)
           /\ DOMAIN words = 0..(index_cnt - 1) /\ DOMAIN dat = 0..(data_size - 1)
           /\ index \in Nat /\ saves \in Nat /\ fails \in Nat
           /\ index \in 0..MaxSaves /\ saves \in 0..MaxSaves
           /\ fails <= MaxFails
BY StoreSizes DEF StoreTypeInv, bbTypeOK, KeptOK, CellsOK

LEMMA StoreTypeInit ==
    ASSUME bbInit
    PROVE  StoreTypeInv
<1>1. Erased \notin Nat
  BY NoData
<1>2. data_cnt \in Nat /\ MaxSaves \in Nat /\ MaxFails \in Nat
  BY StoreSizes
<1>3. WordsOK(words, 0)
  BY <1>1 DEF bbInit, WordsOK
<1>4. dat \in [0..(data_size - 1) -> Records \union {Erased, Junk}]
  BY DEF bbInit
<1>5. KeptOK
  BY <1>2, <1>3 DEF bbInit, KeptOK
<1> QED BY <1>2, <1>3, <1>4, <1>5 DEF bbInit, StoreTypeInv, bbTypeOK, WordsOK, Steps

LEMMA StoreTypeNext ==
    ASSUME StoreTypeInv, [bbNext]_bbVars
    PROVE  StoreTypeInv'
<1> USE DEF StoreTypeInv
<1>0. /\ CellsOK(dat) /\ WordsOK(words, saves)
      /\ index \in 0..MaxSaves /\ saves \in 0..MaxSaves /\ fails \in 0..MaxFails
      /\ data_act_cnt \in 0..data_cnt /\ data_act_cnt <= index /\ step \in Steps
      /\ kept \in [0..MaxSaves -> 0..MaxSaves] /\ erased \in 0..MaxSaves
      /\ index <= saves /\ erased <= saves
      /\ \A i \in 0..MaxSaves : kept[i] <= saves
      /\ data_cnt \in Nat /\ MaxSaves \in Nat /\ MaxFails \in Nat
  BY StoreTypes, StoreSizes DEF bbTypeOK, KeptOK
<1>1. SUFFICES /\ CellsOK(dat') /\ WordsOK(words', saves')
               /\ index' \in 0..MaxSaves /\ saves' \in 0..MaxSaves
               /\ fails' \in 0..MaxFails
               /\ data_act_cnt' \in 0..data_cnt /\ data_act_cnt' <= index'
               /\ step' \in Steps
               /\ kept' \in [0..MaxSaves -> 0..MaxSaves]
               /\ erased' \in 0..MaxSaves
               /\ index' <= saves' /\ erased' <= saves'
               /\ \A i \in 0..MaxSaves : kept'[i] <= saves'
               /\ step' \notin {"off", "idle", "cmd_erase"} =>
                    (\A i \in 0..MaxSaves : kept'[i] < saves') /\ index' < saves'
  BY DEF bbTypeOK, KeptOK, CellsOK, WordsOK
<1>2. step \notin {"off", "idle", "cmd_erase"} =>
        (\A i \in 0..MaxSaves : kept[i] < saves) /\ index < saves
  BY DEF KeptOK
<1> HIDE DEF StoreTypeInv
<1>3. CASE UNCHANGED bbVars
  BY <1>0, <1>2, <1>3 DEF bbVars
<1>4. CASE Start
  <2>1. index' \in 0..saves
    <3>1. PICK m \in Nat : m = __bbox_max_index_calc(words) /\ (m = 0 \/ m < saves)
      BY <1>0, CalcBound
    <3> QED BY <1>0, <1>4, <3>1, SearchBound DEF Start
  <2>2. WordsOK(words', saves')
    BY <1>0, <1>4, WordsErased DEF Start
  <2>3. data_act_cnt' \in 0..data_cnt /\ data_act_cnt' <= index'
    BY <1>0, <1>4, <2>1 DEF Start
  <2>4. step' = "idle" /\ UNCHANGED <<dat, saves, kept, erased, fails>>
    BY <1>4 DEF Start
  <2>5. index' \in 0..MaxSaves /\ index' <= saves'
    BY <1>0, <2>1, <2>4
  <2> QED BY <1>0, <2>2, <2>3, <2>4, <2>5 DEF Steps
<1>5. CASE StartCut
  <2>1. PICK b \in SpareBlocks(words) :
          words' \in Torn(ErasedIn(words,
                       UNION {WordBlock(c * BlockWords) :
                                c \in {x \in SpareBlocks(words) : x < b}}),
                     WordBlock(b * BlockWords))
    BY <1>5 DEF StartCut
  <2>2. PICK D : D = UNION {WordBlock(c * BlockWords) :
                              c \in {x \in SpareBlocks(words) : x < b}}
    OBVIOUS
  <2>3. WordsOK(ErasedIn(words, D), saves)
    BY <1>0, WordsErased
  <2>4. WordsOK(words', saves)
    BY <2>1, <2>2, <2>3, WordsTorn
  <2> QED BY <1>0, <1>2, <1>5, <2>4 DEF StartCut, ram
<1>6. CASE PowerFails
  <2>1. WordsOK(words', saves)
    BY <1>0, <1>6, WordsTorn DEF PowerFails
  <2>2. CellsOK(dat')
    BY <1>0, <1>6, CellsTorn DEF PowerFails
  <2> QED BY <1>0, <1>6, <2>1, <2>2 DEF PowerFails, Steps
<1>7. CASE Save
  <2>1. /\ saves' = saves + 1 /\ saves < MaxSaves
        /\ step' \in {"index_erase", "index_write"}
        /\ UNCHANGED <<words, dat, index, data_act_cnt, kept, erased, fails>>
    BY <1>7 DEF Save, ram
  <2>2. WordsOK(words, saves + 1)
    BY <1>0, WordsMore
  <2>3. \A i \in 0..MaxSaves : kept[i] < saves + 1 /\ kept[i] <= saves + 1
    BY <1>0
  <2>4. /\ index < saves + 1 /\ index <= saves + 1 /\ erased <= saves + 1
        /\ saves + 1 \in 0..MaxSaves
    BY <1>0, <2>1
  <2>5. step' \in Steps
    BY <2>1 DEF Steps
  <2>6. saves' \in 0..MaxSaves /\ WordsOK(words', saves')
    BY <2>1, <2>2, <2>4
  <2>7. index' <= saves' /\ erased' <= saves' /\ index' < saves'
    BY <2>1, <2>4
  <2>8. \A i \in 0..MaxSaves : kept'[i] < saves' /\ kept'[i] <= saves'
    BY <2>1, <2>3
  <2> QED BY <1>0, <2>1, <2>5, <2>6, <2>7, <2>8
<1>8. CASE IndexErase
  <2>1. WordsOK(words', saves')
    BY <1>0, <1>8, WordsErased DEF IndexErase
  <2> QED BY <1>0, <1>2, <1>8, <2>1 DEF IndexErase, Steps, ram
<1>9. CASE IndexWrite
  <2>1. WordsOK(words', saves')
    <3>1. index < saves /\ saves \in Nat
      BY <1>0, <1>2, <1>9 DEF IndexWrite
    <3>2. WordsOK(ProgrammedIn(words, {WordSlot}, index), saves)
      BY <1>0, <3>1, WordsProgrammed
    <3> QED BY <1>9, <3>2 DEF IndexWrite
  <2>2. step' \in Steps
    BY <1>9 DEF IndexWrite, DataStep, Steps
  <2> QED BY <1>0, <1>2, <1>9, <2>1, <2>2 DEF IndexWrite, ram
<1>10. CASE PrevErase
  <2>1. WordsOK(words', saves')
    BY <1>0, <1>10, WordsErased DEF PrevErase
  <2>2. step' \in Steps
    BY <1>10 DEF PrevErase, DataStep, Steps
  <2> QED BY <1>0, <1>2, <1>10, <2>1, <2>2 DEF PrevErase, ram
<1>11. CASE NextErase
  <2>1. CellsOK(dat')
    BY <1>0, <1>11, CellsErased DEF NextErase
  <2> QED BY <1>0, <1>2, <1>11, <2>1 DEF NextErase, Steps, ram
<1>12. CASE CurErase
  <2>1. CellsOK(dat')
    BY <1>0, <1>12, CellsErased DEF CurErase
  <2> QED BY <1>0, <1>2, <1>12, <2>1 DEF CurErase, Steps, ram
<1>13. CASE DataWrite
  <2>1. index < saves /\ (\A i \in 0..MaxSaves : kept[i] < saves)
    BY <1>2, <1>13 DEF DataWrite
  <2>2. [idx |-> index, id |-> saves] \in Records
    BY <1>0, <2>1 DEF Records
  <2>3. CellsOK(dat')
    BY <1>0, <1>13, <2>2, CellsProgrammed DEF DataWrite
  <2>4. /\ kept' \in [0..MaxSaves -> 0..MaxSaves]
        /\ \A i \in 0..MaxSaves : kept'[i] <= saves
    <3>1. kept' = [kept EXCEPT ![index] = saves]
      BY <1>13 DEF DataWrite
    <3>2. saves \in 0..MaxSaves /\ saves <= saves
      BY <1>0
    <3>3. kept' \in [0..MaxSaves -> 0..MaxSaves]
      BY <1>0, <3>1, <3>2
    <3>4. ASSUME NEW i \in 0..MaxSaves PROVE kept'[i] <= saves
      <4>1. CASE i = index
        <5>1. kept'[i] = saves
          BY <1>0, <3>1, <4>1
        <5> QED BY <3>2, <5>1
      <4>2. CASE i # index
        <5>1. kept'[i] = kept[i]
          BY <1>0, <3>1, <4>2
        <5> QED BY <1>0, <5>1
      <4> QED BY <4>1, <4>2
    <3> QED BY <3>3, <3>4
  <2>5. index' \in 0..MaxSaves /\ index' <= saves
    BY <1>0, <1>13, <2>1 DEF DataWrite
  <2>6. data_act_cnt' \in 0..data_cnt /\ data_act_cnt' <= index'
    BY <1>0, <1>13 DEF DataWrite
  <2>7. step' = "idle" /\ UNCHANGED <<words, saves, erased, fails>>
    BY <1>13 DEF DataWrite
  <2> QED BY <1>0, <2>3, <2>4, <2>5, <2>6, <2>7 DEF Steps
<1>14. CASE EraseCommand
  BY <1>0, <1>14 DEF EraseCommand, Steps, ram
<1>15. CASE CurIndexErase
  <2>1. WordsOK(words', saves')
    BY <1>0, <1>15, WordsErased DEF CurIndexErase
  <2> QED BY <1>0, <1>15, <2>1 DEF CurIndexErase, Steps
<1> QED BY <1>3, <1>4, <1>5, <1>6, <1>7, <1>8, <1>9, <1>10, <1>11, <1>12,
           <1>13, <1>14, <1>15 DEF bbNext

(* The index area, the data area and the counters in RAM keep their types, *)
(* for a partition of any size and any losses: what a restart finds is     *)
(* never more than the number of saves begun.                              *)
THEOREM StoreTypeCorrect == bbSpec => []bbTypeOK
<1>1. bbInit => StoreTypeInv
  BY StoreTypeInit
<1>2. StoreTypeInv /\ [bbNext]_bbVars => StoreTypeInv'
  BY StoreTypeNext
<1>3. StoreTypeInv => bbTypeOK
  BY DEF StoreTypeInv
<1> QED BY <1>1, <1>2, <1>3, PTL DEF bbSpec

(* What holds while power has failed at most once inside an operation.     *)
StoreOK ==
    /\ step = "off" => OffOK(words, dat, kept, erased, fails)
    /\ step # "off" => Below(dat, kept, erased, index)
    /\ step \in {"idle", "index_erase", "cmd_erase"} =>
         IdleOK(words, dat, fails, index)
    /\ step = "index_erase" => index % BlockWords = 0
    /\ step = "cmd_erase" => index >= 1
    /\ step = "index_write" => IF index % BlockWords # 0
                               THEN IdleOK(words, dat, fails, index)
                               ELSE BlockOK(words, dat, fails, index)
    /\ step = "prev_erase" =>
         /\ index % BlockWords = 0 /\ Own(words, index)
         /\ DataOK(dat, fails, index) /\ (fails = 0 => Shows(words, index))
    /\ step \in {"next_erase", "cur_erase", "data_write"} =>
         Shows(words, index) /\ Single(words) /\ DataOK(dat, fails, index)
    /\ step = "next_erase" => Crosses(index)
    /\ step \in {"cur_erase", "data_write"} => Ahead(dat, index)
    /\ step = "cur_erase" => (index * RecUnits) % BlockUnits = 0
    /\ step = "data_write" =>
         ((index * RecUnits) % BlockUnits = 0 => Clean(dat, index))
StoreInv == fails <= 1 => StoreOK

(* The places the code computes. *)
LEMMA CodePlaces ==
    ASSUME WholeRecords,
           IndexBlocks = 2, index \in Nat
    PROVE  /\ WordSlot = SlotOf(index)
           /\ AtWordBlockStart <=> index % BlockWords = 0
           /\ WordBlock(WordSlot) = Words(Side(index))
           /\ index % BlockWords = 0 => PreviousBlock = Words(Other(index))
           /\ ReachesNext <=> Crosses(index)
           /\ AtDataBlockStart <=> (index * RecUnits) % BlockUnits = 0
           /\ NextBlock = NextOf(index)
           /\ DataBlock(RecordStart \div BlockUnits) = CurOf(index)
<1>1. WordSlot = SlotOf(index) /\ RecordStart = StartOf(index)
  BY DEF WordSlot, SlotOf, RecordStart, StartOf
<1>2. PreviousBlock = PrevOf(index)
  BY <1>1 DEF PreviousBlock, PrevOf
<1>3. /\ SlotOf(index) % BlockWords = index % BlockWords
      /\ WordBlock(SlotOf(index)) = Words(Side(index))
      /\ index % BlockWords = 0 => PrevOf(index) = Words(Other(index))
  BY WordPlace
<1>4. /\ (StartOf(index) \div BlockUnits
            # (StartOf(index) + RecUnits) \div BlockUnits) <=> Crosses(index)
      /\ StartOf(index) % BlockUnits = (index * RecUnits) % BlockUnits
  BY SectorPlace
<1>5. ReachesNext <=> Crosses(index)
  BY <1>1, <1>4 DEF ReachesNext
<1>6. AtDataBlockStart <=> (index * RecUnits) % BlockUnits = 0
  BY <1>1, <1>4 DEF AtDataBlockStart
<1>7. AtWordBlockStart <=> index % BlockWords = 0
  BY <1>1, <1>3 DEF AtWordBlockStart
<1>8. NextBlock = NextOf(index) /\ DataBlock(RecordStart \div BlockUnits) = CurOf(index)
  BY <1>1 DEF NextBlock, NextOf, CurOf
<1> QED BY <1>1, <1>2, <1>3, <1>5, <1>6, <1>7, <1>8

LEMMA StoreInit ==
    ASSUME IndexBlocks = 2, bbInit
    PROVE  StoreOK
<1>1. /\ Erased \notin Nat /\ BlockWords \in Nat \ {0}
      /\ index_cnt = 2 * BlockWords
  BY NoData, TwoBlocks
<1>2. Below(dat, kept, erased, 1)
  BY <1>1 DEF bbInit, Below, Is
<1>3. 0 \in 0..(index_cnt - 1) /\ BlockWords \in 0..(index_cnt - 1)
  BY <1>1
<1>4. words[0] = Erased /\ words[BlockWords] = Erased
  BY <1>3 DEF bbInit
<1>5. Blank(words)
  BY <1>1, <1>4 DEF Blank, IndexValid
<1> QED BY <1>2, <1>5 DEF bbInit, StoreOK, OffOK

(* The search at a restart. *)
LEMMA StartOK ==
    ASSUME FewFailures,
           IndexBlocks = 2, StoreTypeInv, fails <= 1, StoreOK, Start
    PROVE  StoreOK'
<1>1. /\ DOMAIN words = 0..(index_cnt - 1) /\ fails \in Nat /\ fails <= MaxFails
      /\ MaxFails \in Nat /\ LookBack \in Nat /\ MaxFails < LookBack
  BY StoreTypes, StoreSizes DEF FewFailures
<1>2. fails \in 0..1 /\ fails < LookBack
  BY <1>1
<1>3. /\ words' = ErasedIn(words, SpareWords(words))
      /\ index' = __bbox_data_search_by_index(dat, __bbox_max_index_calc(words))
      /\ step' = "idle" /\ UNCHANGED <<dat, kept, erased, fails>>
  BY DEF Start, SpareWords
<1>4. OffOK(words, dat, kept, erased, fails)
  BY DEF Start, StoreOK
<1>5. PICK e, n : /\ e = ErasedIn(words, SpareWords(words)) /\ e = words'
                  /\ n = __bbox_data_search_by_index(dat, __bbox_max_index_calc(words))
                  /\ n = index'
  BY <1>3
<1>6. IdleOK(e, dat, fails, n) /\ Below(dat, kept, erased, n)
  BY <1>1, <1>2, <1>4, <1>5, Restart
<1> QED BY <1>3, <1>5, <1>6 DEF StoreOK

LEMMA StartCutOK ==
    ASSUME IndexBlocks = 2, StoreTypeInv, fails = 0, StoreOK, StartCut
    PROVE  StoreOK'
<1>1. DOMAIN words = 0..(index_cnt - 1)
  BY StoreTypes
<1>2. /\ OffOK(words, dat, kept, erased, 0)
      /\ step' = "off" /\ fails' = 1 /\ UNCHANGED <<dat, kept, erased>>
  BY DEF StartCut, StoreOK
<1>3. PICK b \in SpareBlocks(words) :
        words' \in Torn(ErasedIn(words,
                     UNION {WordBlock(c * BlockWords) :
                              c \in {x \in SpareBlocks(words) : x < b}}),
                   WordBlock(b * BlockWords))
  BY DEF StartCut
<1>4. PICK D : D = UNION {WordBlock(c * BlockWords) :
                            c \in {x \in SpareBlocks(words) : x < b}}
  OBVIOUS
<1>5. PICK e \in Torn(ErasedIn(words, D), WordBlock(b * BlockWords)) : e = words'
  BY <1>3, <1>4
<1>6. OffOK(e, dat, kept, erased, 1)
  BY <1>1, <1>2, <1>4, RestartTorn
<1> QED BY <1>2, <1>5, <1>6 DEF StoreOK

(* A save begins, *)
LEMMA SaveOK ==
    ASSUME WholeRecords,
           IndexBlocks = 2, StoreTypeInv, StoreOK, Save
    PROVE  StoreOK'
<1>1. index \in Nat
  BY StoreTypes
<1>2. /\ step = "idle" /\ UNCHANGED <<words, dat, index, kept, erased, fails>>
      /\ step' = IF AtWordBlockStart THEN "index_erase" ELSE "index_write"
  BY DEF Save, ram
<1>3. AtWordBlockStart <=> index % BlockWords = 0
  BY <1>1, CodePlaces
<1> QED BY <1>2, <1>3 DEF StoreOK

(* and its index is written. *)
LEMMA IndexEraseOK ==
    ASSUME WholeRecords,
           IndexBlocks = 2, StoreTypeInv, fails <= 1, StoreOK, IndexErase
    PROVE  StoreOK'
<1>1. DOMAIN words = 0..(index_cnt - 1) /\ index \in Nat /\ fails \in 0..1
  BY StoreTypes
<1>2. /\ step = "index_erase" /\ step' = "index_write"
      /\ UNCHANGED <<dat, index, kept, erased, fails>>
      /\ words' = ErasedIn(words, Words(Side(index)))
  BY <1>1, CodePlaces DEF IndexErase, ram
<1>3. /\ index % BlockWords = 0 /\ IdleOK(words, dat, fails, index)
      /\ Below(dat, kept, erased, index)
  BY <1>2 DEF StoreOK
<1>4. PICK e : e = ErasedIn(words, Words(Side(index))) /\ e = words'
  BY <1>2
<1>5. BlockOK(e, dat, fails, index)
  BY <1>1, <1>3, <1>4, BlockErased
<1> QED BY <1>2, <1>3, <1>4, <1>5 DEF StoreOK

(* The index shows the record, whose data comes next. *)
LEMMA DataBegins ==
    ASSUME WholeRecords,
           IndexBlocks = 2, index \in Nat, step' = DataStep,
           UNCHANGED <<dat, index, kept, erased, fails>>,
           Shows(words', index), Single(words'), DataOK(dat, fails, index),
           Below(dat, kept, erased, index)
    PROVE  StoreOK'
<1>1. /\ ReachesNext <=> Crosses(index)
      /\ AtDataBlockStart <=> (index * RecUnits) % BlockUnits = 0
  BY CodePlaces
<1>2. ~Crosses(index) => Ahead(dat, index)
  BY DEF Ahead
<1> QED BY <1>1, <1>2 DEF DataStep, StoreOK

LEMMA IndexWriteOK ==
    ASSUME WholeRecords,
           IndexBlocks = 2, StoreTypeInv, fails <= 1, StoreOK, IndexWrite
    PROVE  StoreOK'
<1>1. DOMAIN words = 0..(index_cnt - 1) /\ index \in Nat /\ fails \in 0..1
  BY StoreTypes
<1>2. /\ step = "index_write" /\ UNCHANGED <<dat, index, kept, erased, fails>>
      /\ words' = ProgrammedIn(words, {SlotOf(index)}, index)
      /\ step' = IF index % BlockWords = 0 THEN "prev_erase" ELSE DataStep
  BY <1>1, CodePlaces DEF IndexWrite, ram
<1>3. Below(dat, kept, erased, index)
  BY <1>2 DEF StoreOK
<1>4. PICK e : e = ProgrammedIn(words, {SlotOf(index)}, index) /\ e = words'
  BY <1>2
<1>5. CASE index % BlockWords = 0
  <2>1. BlockOK(words, dat, fails, index)
    BY <1>2, <1>5 DEF StoreOK
  <2>2. Own(e, index) /\ DataOK(dat, fails, index) /\ (fails = 0 => Shows(e, index))
    BY <1>1, <1>4, <1>5, <2>1, HeadWritten
  <2> QED BY <1>2, <1>3, <1>4, <1>5, <2>2 DEF StoreOK
<1>6. CASE index % BlockWords # 0
  <2>1. IdleOK(words, dat, fails, index)
    BY <1>2, <1>6 DEF StoreOK
  <2>2. Shows(e, index) /\ Single(e) /\ DataOK(dat, fails, index)
    BY <1>1, <1>4, <1>6, <2>1, WordWritten
  <2>3. Shows(words', index) /\ Single(words') /\ step' = DataStep
    BY <1>2, <1>4, <1>6, <2>2
  <2> QED BY <1>1, <1>2, <1>3, <2>2, <2>3, DataBegins
<1> QED BY <1>5, <1>6

LEMMA PrevEraseOK ==
    ASSUME WholeRecords,
           IndexBlocks = 2, StoreTypeInv, StoreOK, PrevErase
    PROVE  StoreOK'
<1>1. DOMAIN words = 0..(index_cnt - 1) /\ index \in Nat
  BY StoreTypes
<1>2. /\ index % BlockWords = 0 /\ Own(words, index) /\ DataOK(dat, fails, index)
      /\ Below(dat, kept, erased, index)
  BY DEF PrevErase, StoreOK
<1>3. /\ step' = DataStep /\ UNCHANGED <<dat, index, kept, erased, fails>>
      /\ words' = ErasedIn(words, Words(Other(index)))
  BY <1>1, <1>2, CodePlaces DEF PrevErase, ram
<1>4. PICK e : e = ErasedIn(words, Words(Other(index))) /\ e = words'
  BY <1>3
<1>5. Shows(e, index) /\ Single(e)
  BY <1>1, <1>2, <1>4, BeforeErased
<1>6. Shows(words', index) /\ Single(words')
  BY <1>4, <1>5
<1> QED BY <1>1, <1>2, <1>3, <1>6, DataBegins

(* The sectors are erased, *)
LEMMA NextEraseOK ==
    ASSUME WholeRecords,
           IndexBlocks = 2, DataBlocks >= 3, StoreTypeInv, StoreOK, NextErase
    PROVE  StoreOK'
<1>1. DOMAIN dat = 0..(data_size - 1) /\ index \in Nat
  BY StoreTypes
<1>2. /\ Shows(words, index) /\ Single(words) /\ DataOK(dat, fails, index)
      /\ Below(dat, kept, erased, index)
  BY DEF NextErase, StoreOK
<1>3. /\ dat' = ErasedIn(dat, NextOf(index))
      /\ UNCHANGED <<words, index, kept, erased, fails>>
      /\ step' = IF (index * RecUnits) % BlockUnits = 0 THEN "cur_erase"
                 ELSE "data_write"
  BY <1>1, CodePlaces DEF NextErase, ram
<1>4. PICK e : e = ErasedIn(dat, NextOf(index)) /\ e = dat'
  BY <1>3
<1>5. DataOK(e, fails, index) /\ Ahead(e, index)
  BY <1>1, <1>2, <1>4, EraseAhead
<1>6. Below(e, kept, erased, index)
  BY <1>1, <1>2, <1>4, EraseSpoils, BelowStays
<1> QED BY <1>2, <1>3, <1>4, <1>5, <1>6 DEF StoreOK

LEMMA CurEraseOK ==
    ASSUME WholeRecords,
           IndexBlocks = 2, DataBlocks >= 3, StoreTypeInv, StoreOK, CurErase
    PROVE  StoreOK'
<1>1. DOMAIN dat = 0..(data_size - 1) /\ index \in Nat
  BY StoreTypes
<1>2. /\ Shows(words, index) /\ Single(words) /\ DataOK(dat, fails, index)
      /\ Below(dat, kept, erased, index) /\ Ahead(dat, index)
      /\ (index * RecUnits) % BlockUnits = 0
  BY DEF CurErase, StoreOK
<1>3. /\ dat' = ErasedIn(dat, CurOf(index)) /\ step' = "data_write"
      /\ UNCHANGED <<words, index, kept, erased, fails>>
  BY <1>1, CodePlaces DEF CurErase, ram
<1>4. PICK e : e = ErasedIn(dat, CurOf(index)) /\ e = dat'
  BY <1>3
<1>5. DataOK(e, fails, index) /\ Ahead(e, index) /\ Clean(e, index)
  BY <1>1, <1>2, <1>4, EraseCurrent
<1>6. Below(e, kept, erased, index)
  BY <1>1, <1>2, <1>4, EraseSpoils, BelowStays
<1> QED BY <1>2, <1>3, <1>4, <1>5, <1>6 DEF StoreOK

(* and the record is written. *)
LEMMA DataWriteOK ==
    ASSUME WholeRecords,
           IndexBlocks = 2, DataBlocks >= 3, StoreTypeInv, StoreOK, DataWrite
    PROVE  StoreOK'
<1>1. /\ DOMAIN dat = 0..(data_size - 1) /\ index \in Nat /\ saves \in Nat
      /\ index \in 0..MaxSaves /\ saves \in 0..MaxSaves /\ MaxSaves \in Nat
  BY StoreTypes, StoreSizes
<1>2. /\ index < saves /\ \A i \in 0..MaxSaves : kept[i] < saves
      /\ kept \in [0..MaxSaves -> 0..MaxSaves]
  BY DEF DataWrite, StoreTypeInv, KeptOK, bbTypeOK
<1>3. /\ Shows(words, index) /\ Single(words) /\ DataOK(dat, fails, index)
      /\ Below(dat, kept, erased, index) /\ Ahead(dat, index)
      /\ (index * RecUnits) % BlockUnits = 0 => Clean(dat, index)
  BY DEF DataWrite, StoreOK
<1>4. PICK c : c = [idx |-> index, id |-> saves]
  OBVIOUS
<1>5. c \in Records /\ c.id = saves
  BY <1>1, <1>2, <1>4 DEF Records
<1>6. /\ dat' = ProgrammedIn(dat, RecordUnits(index), c) /\ step' = "idle"
      /\ index' = index + 1 /\ kept' = [kept EXCEPT ![index] = saves]
      /\ UNCHANGED <<words, erased, fails>>
  BY <1>4 DEF DataWrite
<1>7. PICK e : e = ProgrammedIn(dat, RecordUnits(index), c) /\ e = dat'
  BY <1>6
<1>8. /\ Clean(e, index + 1)
      /\ index = 0 \/ Sound(e, index) \/ (fails = 1 /\ Redo(e, index))
  BY <1>1, <1>3, <1>5, <1>7, WriteData
<1>9. Below(e, [kept EXCEPT ![index] = saves], erased, index + 1)
  <2>1. kept \in [0..MaxSaves -> Nat]
    BY <1>1, <1>2
  <2> QED BY <1>1, <1>2, <1>3, <1>5, <1>7, <2>1, BelowWrite
<1>10. IdleOK(words, e, fails, index + 1)
  <2>1. PICK n \in Nat : n = index + 1
    BY <1>1
  <2>2. index = n - 1 /\ n >= 1
    BY <1>1, <2>1
  <2>3. /\ Shows(words, n - 1) /\ Clean(e, n)
        /\ n = 1 \/ Sound(e, n - 1) \/ (fails = 1 /\ Redo(e, n - 1))
    <3>1. index = 0 => n = 1
      BY <2>1
    <3> QED BY <1>3, <1>8, <2>1, <2>2, <3>1
  <2>4. IdleOK(words, e, fails, n)
    BY <1>3, <2>2, <2>3 DEF IdleOK
  <2> QED BY <2>1, <2>4
<1> QED BY <1>6, <1>7, <1>9, <1>10 DEF StoreOK

(* The erase command. *)
LEMMA EraseCommandOK ==
    ASSUME StoreTypeInv, StoreOK, EraseCommand
    PROVE  StoreOK'
<1>1. index \in Nat /\ index # 0
  BY StoreTypes DEF EraseCommand
<1>2. index >= 1
  BY <1>1
<1> QED BY <1>2 DEF EraseCommand, ram, StoreOK

LEMMA CurIndexEraseOK ==
    ASSUME IndexBlocks = 2, StoreTypeInv, fails <= 1, StoreOK, CurIndexErase
    PROVE  StoreOK'
<1>1. /\ DOMAIN words = 0..(index_cnt - 1) /\ fails \in 0..1 /\ index \in Nat
      /\ saves \in Nat
  BY StoreTypes
<1>2. index \in Nat \ {0} /\ IdleOK(words, dat, fails, index)
  <2>1. index >= 1 /\ IdleOK(words, dat, fails, index)
    BY DEF CurIndexErase, StoreOK
  <2> QED BY <1>1, <2>1
<1>3. /\ words' = ErasedIn(words, LastOf(index)) /\ index' = 0 /\ erased' = saves
      /\ step' = "idle" /\ UNCHANGED <<dat, saves, kept, fails>>
  BY DEF CurIndexErase, LastWritten, LastOf
<1>4. PICK e : e = ErasedIn(words, LastOf(index)) /\ e = words'
  BY <1>3
<1>5. IdleOK(e, dat, fails, 0)
  BY <1>1, <1>2, <1>4, CommandErases
<1>6. Below(dat, kept, saves, 0)
  <2>1. kept \in [0..MaxSaves -> 0..MaxSaves] /\ \A i \in 0..MaxSaves : kept[i] <= saves
    BY DEF StoreTypeInv, bbTypeOK, KeptOK
  <2>2. ASSUME NEW i \in 1..MaxSaves PROVE ~(kept[i] > saves)
    <3>1. i \in 0..MaxSaves
      OBVIOUS
    <3>2. kept[i] \in Nat /\ kept[i] <= saves
      BY <2>1, <3>1
    <3> QED BY <1>1, <3>2
  <2> QED BY <2>2 DEF Below, Is
<1> QED BY <1>3, <1>4, <1>5, <1>6 DEF StoreOK

(* Power fails in no unit: nothing has changed. *)
LEMMA TornNothing ==
    ASSUME NEW S, NEW V, NEW w \in [S -> V], NEW e \in {w} \union Torn(w, {})
    PROVE  e = w
<1>1. CASE e \in Torn(w, {})
  <2>1. e = [u \in DOMAIN w |-> w[u]]
    BY <1>1 DEF Torn
  <2> QED BY <2>1
<1> QED BY <1>1

(* What a power failure leaves alone. *)
LEMMA FailLeaves ==
    ASSUME ~WordTears, StoreTypeInv, PowerFails
    PROVE  /\ step \notin {"index_erase", "prev_erase", "cmd_erase"} =>
                words' = words
           /\ step \notin {"next_erase", "cur_erase", "data_write"} =>
                dat' = dat
<1>1. /\ words \in [0..(index_cnt - 1) -> (0..MaxSaves) \union {Erased, Junk}]
      /\ dat \in [0..(data_size - 1) -> Records \union {Erased, Junk}]
      /\ step \in Steps
  BY DEF StoreTypeInv, bbTypeOK
<1>2. /\ words' \in {words} \union Torn(words, WordsTouched)
      /\ dat' \in {dat} \union Torn(dat, DataTouched)
  BY DEF PowerFails
<1>3. ASSUME step \notin {"index_erase", "prev_erase", "cmd_erase"}
      PROVE  words' = words
  <2>1. WordsTouched = {}
    BY <1>1, <1>3 DEF WordsTouched, Steps
  <2> QED BY <1>1, <1>2, <2>1, TornNothing
<1>4. ASSUME step \notin {"next_erase", "cur_erase", "data_write"}
      PROVE  dat' = dat
  <2>1. DataTouched = {}
    BY <1>1, <1>4 DEF DataTouched, Steps
  <2> QED BY <1>1, <1>2, <2>1, TornNothing
<1> QED BY <1>3, <1>4

(* Power fails in the save of record index, before its data is complete. *)
LEMMA DataCut ==
    ASSUME WholeRecords,
           DataBlocks >= 3, index \in Nat, DOMAIN dat = 0..(data_size - 1),
           NEW w, Shows(w, index), DataOK(dat, 0, index),
           Below(dat, kept, erased, index), NEW T,
           \/ T = {} \/ T = NextOf(index) \/ T = RecordUnits(index)
           \/ T = CurOf(index) /\ (index * RecUnits) % BlockUnits = 0,
           NEW e \in {dat} \union Torn(dat, T)
    PROVE  OffOK(w, e, kept, erased, 1)
<1>1. index = 0 \/ Redo(e, index)
  <2>1. CASE index \in Nat \ {0}
    BY <2>1, DataTorn
  <2> QED BY <2>1
<1>2. Below(e, kept, erased, index)
  BY TornSpoils, BelowStays
<1> QED BY <1>1, <1>2, SaveOff

LEMMA PowerFailsOK ==
    ASSUME WholeRecords,
           IndexBlocks = 2, ~WordTears, DataBlocks >= 3, StoreTypeInv,
           fails' <= 1, StoreOK, PowerFails
    PROVE  StoreOK'
<1>1. /\ DOMAIN words = 0..(index_cnt - 1) /\ DOMAIN dat = 0..(data_size - 1)
      /\ index \in Nat /\ saves \in Nat /\ fails \in Nat /\ step \in Steps
  BY StoreTypes DEF StoreTypeInv, bbTypeOK
<1>2. /\ step # "off" /\ step' = "off" /\ kept' = kept
      /\ words' \in {words} \union Torn(words, WordsTouched)
      /\ dat' \in {dat} \union Torn(dat, DataTouched)
      /\ erased' = IF step = "cmd_erase" /\ words' # words THEN saves ELSE erased
  BY DEF PowerFails
<1>3. /\ step = "idle" => fails' = fails /\ fails \in 0..1
      /\ step # "idle" => fails' = 1 /\ fails = 0
  BY <1>1 DEF PowerFails
<1>4. Below(dat, kept, erased, index)
  BY <1>2 DEF StoreOK
<1>5. SUFFICES OffOK(words', dat', kept, erased', fails')
  BY <1>2 DEF StoreOK
<1>6. CASE step = "idle"
  <2>1. words' = words /\ dat' = dat /\ erased' = erased /\ fails' = fails
    BY <1>2, <1>3, <1>6, FailLeaves
  <2>2. IdleOK(words, dat, fails, index)
    BY <1>6 DEF StoreOK
  <2>3. OffOK(words, dat, kept, erased, fails)
    BY <1>1, <1>3, <1>4, <1>6, <2>2, IdleOff
  <2> QED BY <2>1, <2>3
<1>7. CASE step = "index_erase"
  <2>1. dat' = dat /\ erased' = erased /\ fails' = 1 /\ fails = 0
    BY <1>2, <1>3, <1>7, FailLeaves
  <2>2. words' \in {words} \union Torn(words, Words(Side(index)))
    BY <1>1, <1>2, <1>7, CodePlaces DEF WordsTouched
  <2>3. IdleOK(words, dat, 0, index) /\ index % BlockWords = 0
    BY <1>7, <2>1 DEF StoreOK
  <2>4. PICK e \in {words} \union Torn(words, Words(Side(index))) : e = words'
    BY <2>2
  <2>5. OffOK(e, dat, kept, erased, 1)
    BY <1>1, <1>4, <2>3, BlockTorn
  <2> QED BY <2>1, <2>4, <2>5
<1>8. CASE step = "index_write"
  <2>1. words' = words /\ dat' = dat /\ erased' = erased /\ fails' = 1 /\ fails = 0
    BY <1>2, <1>3, <1>8, FailLeaves
  <2>2. CASE index % BlockWords = 0
    <3>1. BlockOK(words, dat, 0, index)
      BY <1>8, <2>1, <2>2 DEF StoreOK
    <3>2. OffOK(words, dat, kept, erased, 1)
      BY <1>1, <1>4, <3>1, BlockOff
    <3> QED BY <2>1, <3>2
  <2>3. CASE index % BlockWords # 0
    <3>1. IdleOK(words, dat, 0, index)
      BY <1>8, <2>1, <2>3 DEF StoreOK
    <3>2. OffOK(words, dat, kept, erased, 1)
      <4>1. 0 \in 0..1
        OBVIOUS
      <4> QED BY <1>1, <1>4, <3>1, <4>1, IdleOff
    <3> QED BY <2>1, <3>2
  <2> QED BY <2>2, <2>3
<1>9. CASE step = "prev_erase"
  <2>1. dat' = dat /\ erased' = erased /\ fails' = 1 /\ fails = 0
    BY <1>2, <1>3, <1>9, FailLeaves
  <2>2. index % BlockWords = 0 /\ Shows(words, index) /\ DataOK(dat, 0, index)
    BY <1>9, <2>1 DEF StoreOK
  <2>3. words' \in {words} \union Torn(words, Words(Other(index)))
    BY <1>1, <1>2, <1>9, <2>2, CodePlaces DEF WordsTouched
  <2>4. PICK e \in {words} \union Torn(words, Words(Other(index))) : e = words'
    BY <2>3
  <2>5. Shows(e, index)
    BY <1>1, <2>2, BeforeTorn
  <2>6. PICK T : T = {}
    OBVIOUS
  <2>7. OffOK(e, dat, kept, erased, 1)
    BY <1>1, <1>4, <2>2, <2>5, <2>6, DataCut
  <2> QED BY <2>1, <2>4, <2>7
<1>10. CASE step \in {"next_erase", "cur_erase", "data_write"}
  <2>1. words' = words /\ erased' = erased /\ fails' = 1 /\ fails = 0
    BY <1>2, <1>3, <1>10, FailLeaves
  <2>2. /\ Shows(words, index) /\ DataOK(dat, 0, index)
        /\ step = "cur_erase" => (index * RecUnits) % BlockUnits = 0
    BY <1>10, <2>1 DEF StoreOK
  <2>3. PICK T : /\ T = DataTouched
                 /\ \/ T = {} \/ T = NextOf(index) \/ T = RecordUnits(index)
                    \/ T = CurOf(index) /\ (index * RecUnits) % BlockUnits = 0
    BY <1>1, <1>10, <2>2, CodePlaces DEF DataTouched
  <2>4. PICK e \in {dat} \union Torn(dat, T) : e = dat'
    BY <1>2, <2>3
  <2>5. OffOK(words, e, kept, erased, 1)
    BY <1>1, <1>4, <2>2, <2>3, DataCut
  <2> QED BY <2>1, <2>4, <2>5
<1>11. CASE step = "cmd_erase"
  <2>1. dat' = dat /\ fails' = 1 /\ fails = 0
    BY <1>2, <1>3, <1>11, FailLeaves
  <2>2. index \in Nat \ {0} /\ IdleOK(words, dat, 0, index)
    BY <1>1, <1>11, <2>1 DEF StoreOK
  <2>3. CASE words' = words
    <3>1. 0 \in 0..1
      OBVIOUS
    <3>2. OffOK(words, dat, kept, erased, 1)
      BY <1>1, <1>4, <2>2, <3>1, IdleOff
    <3> QED BY <1>2, <2>1, <2>3, <3>2
  <2>4. CASE words' # words
    <3>1. words' \in Torn(words, LastOf(index)) /\ erased' = saves
      BY <1>2, <1>11, <2>4 DEF WordsTouched, LastWritten, LastOf
    <3>2. PICK e \in Torn(words, LastOf(index)) : e = words'
      BY <3>1
    <3>3. Blank(e)
      BY <1>1, <2>2, CommandTorn
    <3>4. Below(dat, kept, saves, 1)
      <4>1. kept \in [0..MaxSaves -> 0..MaxSaves] /\ \A i \in 0..MaxSaves : kept[i] <= saves
        BY DEF StoreTypeInv, bbTypeOK, KeptOK
      <4>2. ASSUME NEW i \in 1..MaxSaves PROVE ~(kept[i] > saves)
        <5>1. i \in 0..MaxSaves
          OBVIOUS
        <5>2. kept[i] \in Nat /\ kept[i] <= saves
          BY <4>1, <5>1
        <5> QED BY <1>1, <5>2
      <4> QED BY <4>2 DEF Below, Is
    <3>5. OffOK(e, dat, kept, saves, 1)
      BY <3>3, <3>4 DEF OffOK
    <3> QED BY <2>1, <3>1, <3>2, <3>5
  <2> QED BY <2>3, <2>4
<1> QED BY <1>1, <1>2, <1>6, <1>7, <1>8, <1>9, <1>10, <1>11 DEF Steps

LEMMA StoreNext ==
    ASSUME WholeRecords, FewFailures,
           IndexBlocks = 2, ~WordTears, DataBlocks >= 3,
           StoreTypeInv, StoreInv, [bbNext]_bbVars
    PROVE  StoreInv'
<1>1. SUFFICES ASSUME fails' <= 1 PROVE StoreOK'
  BY DEF StoreInv
<1>2. fails \in Nat
  BY StoreTypes
<1>3. ASSUME UNCHANGED fails PROVE fails <= 1 /\ StoreOK
  BY <1>1, <1>3 DEF StoreInv
<1>4. ASSUME fails' = fails + 1 PROVE fails = 0 /\ StoreOK
  BY <1>1, <1>2, <1>4 DEF StoreInv
<1>5. CASE UNCHANGED bbVars
  <2>1. StoreOK /\ UNCHANGED <<words, dat, index, step, kept, erased, fails>>
    BY <1>3, <1>5 DEF bbVars
  <2> QED BY <2>1 DEF StoreOK
<1>6. CASE Start
  BY <1>3, <1>6, StartOK DEF Start
<1>7. CASE StartCut
  BY <1>4, <1>7, StartCutOK DEF StartCut
<1>8. CASE PowerFails
  <2>1. StoreOK
    BY <1>3, <1>4, <1>8 DEF PowerFails
  <2> QED BY <1>1, <1>8, <2>1, PowerFailsOK
<1>9. CASE Save
  BY <1>3, <1>9, SaveOK DEF Save
<1>10. CASE IndexErase
  BY <1>3, <1>10, IndexEraseOK DEF IndexErase
<1>11. CASE IndexWrite
  BY <1>3, <1>11, IndexWriteOK DEF IndexWrite
<1>12. CASE PrevErase
  BY <1>3, <1>12, PrevEraseOK DEF PrevErase
<1>13. CASE NextErase
  BY <1>3, <1>13, NextEraseOK DEF NextErase
<1>14. CASE CurErase
  BY <1>3, <1>14, CurEraseOK DEF CurErase
<1>15. CASE DataWrite
  BY <1>3, <1>15, DataWriteOK DEF DataWrite
<1>16. CASE EraseCommand
  BY <1>3, <1>16, EraseCommandOK DEF EraseCommand
<1>17. CASE CurIndexErase
  BY <1>3, <1>17, CurIndexEraseOK DEF CurIndexErase
<1> QED BY <1>5, <1>6, <1>7, <1>8, <1>9, <1>10, <1>11, <1>12, <1>13, <1>14,
           <1>15, <1>16, <1>17 DEF bbNext

(* The store never goes on at or before a record that it holds, wherever   *)
(* power failed, if it did so once inside an operation: with two sectors   *)
(* of index words that are programmed whole, at least three sectors that   *)
(* hold a whole number of records, and LookBack > MaxFails.                *)
THEOREM NothingIsForgotten ==
    ASSUME WholeRecords, FewFailures,
           IndexBlocks = 2, ~WordTears, DataBlocks >= 3
    PROVE  bbSpec => []NothingForgotten
<1>1. bbInit => StoreTypeInv /\ StoreInv
  BY StoreTypeInit, StoreInit DEF StoreInv
<1>2. StoreTypeInv /\ StoreInv /\ [bbNext]_bbVars => (StoreTypeInv /\ StoreInv)'
  BY StoreTypeNext, StoreNext
<1>3. StoreTypeInv /\ StoreInv => NothingForgotten
  <2>1. SUFFICES ASSUME StoreInv, step = "idle", fails <= 1, NEW i \in 1..MaxSaves,
                        Stored(i)
                 PROVE  i < index
    BY DEF NothingForgotten
  <2>2. Below(dat, kept, erased, index)
    BY <2>1 DEF StoreInv, StoreOK
  <2> QED BY <2>1, <2>2 DEF Below, Is, Stored
<1> QED BY <1>1, <1>2, <1>3, PTL DEF bbSpec

(* The store after any number of power failures that is less than LookBack *)
(* (FewFailures).  The search goes back by less than a lap of the data area,  *)
(* a record and a sector left over, and by hardly more than a block of     *)
(* index words.                                                            *)
Roomy ==
    /\ (LookBack + 1) * RecUnits + BlockUnits <= data_size
    /\ LookBack <= BlockWords + 2

Begins(n) == (n * RecUnits) % BlockUnits = 0

(* A record that comes no more than LookBack after another does not reach  *)
(* it a lap later, the sector it erases ahead included.                    *)
LEMMA Lap ==
    ASSUME Roomy, NEW a \in Nat, NEW n \in Nat, a <= n, n - a <= LookBack
    PROVE  n * RecUnits + RecUnits + BlockUnits <= a * RecUnits + data_size
<1>1. /\ RecUnits \in Nat /\ BlockUnits \in Nat /\ LookBack \in Nat
      /\ data_size \in Nat
      /\ (LookBack + 1) * RecUnits + BlockUnits <= data_size
  BY StoreSizes DEF Roomy
<1>2. PICK t \in Nat : n = a + t /\ t <= LookBack
  <2>1. n - a \in Nat /\ n = a + (n - a)
    OBVIOUS
  <2> QED BY <2>1
<1>3. (LookBack - t) * RecUnits >= 0
  BY <1>1, <1>2
<1>4. (LookBack - t) * RecUnits = LookBack * RecUnits - (t * RecUnits)
  BY <1>1, <1>2
<1>5. (LookBack + 1) * RecUnits = LookBack * RecUnits + RecUnits
  BY <1>1
<1>6. n * RecUnits = a * RecUnits + (t * RecUnits)
  BY <1>1, <1>2
<1>7. /\ LookBack * RecUnits \in Nat /\ t * RecUnits \in Nat
      /\ a * RecUnits \in Nat /\ n * RecUnits \in Nat
  BY <1>1, <1>2
<1> QED BY <1>1, <1>3, <1>4, <1>5, <1>6, <1>7

LEMMA Room ==
    ASSUME WholeRecords,
           Roomy
    PROVE  RecUnits + BlockUnits <= data_size /\ LookBack + 2 <= data_cnt
<1>1. /\ RecUnits \in Nat \ {0} /\ BlockUnits \in Nat /\ LookBack \in Nat
      /\ data_size \in Nat /\ data_cnt \in Nat /\ data_cnt * RecUnits = data_size
      /\ (LookBack + 1) * RecUnits + BlockUnits <= data_size
      /\ RecUnits <= BlockUnits
  BY StoreSizes, WholeSizes DEF Roomy
<1>2. /\ (LookBack + 1) * RecUnits = LookBack * RecUnits + RecUnits
      /\ LookBack * RecUnits \in Nat
      /\ (LookBack + 2) * RecUnits = LookBack * RecUnits + 2 * RecUnits
  BY <1>1
<1>3. RecUnits + BlockUnits <= data_size
  BY <1>1, <1>2
<1>4. (LookBack + 2) * RecUnits <= data_cnt * RecUnits
  BY <1>1, <1>2
<1>5. ASSUME data_cnt < LookBack + 2 PROVE FALSE
  <2>1. (LookBack + 2 - data_cnt) * RecUnits >= RecUnits
    BY <1>1, <1>5
  <2>2. (LookBack + 2 - data_cnt) * RecUnits
          = (LookBack + 2) * RecUnits - (data_cnt * RecUnits)
    BY <1>1
  <2>3. (LookBack + 2) * RecUnits \in Nat
    BY <1>1
  <2> QED BY <1>1, <1>4, <2>1, <2>2, <2>3
<1> QED BY <1>1, <1>3, <1>5

(* The records of which an erase ahead may take a part. *)
LEMMA SlotsAre ==
    SlotsOfBlock \in Nat /\ SlotsOfBlock * RecUnits >= BlockUnits
<1>1. /\ RecUnits \in Nat \ {0} /\ BlockUnits \in Nat \ {0} /\ RecUnits <= BlockUnits
  BY StoreSizes
<1> DEFINE a == BlockUnits + RecUnits - 2
           q == a \div RecUnits
<1>2. a \in Nat
  BY <1>1
<1>3. q \in Int /\ a % RecUnits \in 0..(RecUnits - 1)
      /\ a = RecUnits * q + (a % RecUnits)
  <2> HIDE DEF a
  <2> QED BY <1>1, <1>2, DivMod
<1>4. SlotsOfBlock = q + 1
  BY DEF SlotsOfBlock
<1>5. a = BlockUnits + RecUnits - 2
  OBVIOUS
<1> HIDE DEF a, q
<1>6. RecUnits * q \in Int /\ (q + 1) * RecUnits = RecUnits * q + RecUnits
  BY <1>1, <1>3
<1>7. (q + 1) * RecUnits >= BlockUnits
  BY <1>1, <1>2, <1>3, <1>5, <1>6
<1>8. q + 1 >= 0
  <2>1. q + 1 <= -1 => (q + 1) * RecUnits <= 0
    BY <1>1, <1>3
  <2> QED BY <1>1, <1>3, <1>7, <2>1
<1> QED BY <1>3, <1>4, <1>7, <1>8

(* A record that the next erases ahead spare. *)
LEMMA LapSlots ==
    ASSUME WholeRecords,
           NEW a \in Nat, NEW n \in Nat, a + data_cnt >= n + 1 + SlotsOfBlock
    PROVE  n * RecUnits + RecUnits + BlockUnits <= a * RecUnits + data_size
<1>1. /\ RecUnits \in Nat \ {0} /\ BlockUnits \in Nat /\ data_size \in Nat
      /\ data_cnt \in Nat /\ data_cnt * RecUnits = data_size
      /\ SlotsOfBlock \in Nat /\ SlotsOfBlock * RecUnits >= BlockUnits
  BY StoreSizes, WholeSizes, SlotsAre
<1>2. PICK t \in Nat : a + data_cnt = (n + 1 + SlotsOfBlock) + t
  <2>1. (a + data_cnt) - (n + 1 + SlotsOfBlock) \in Nat
    BY <1>1
  <2> QED BY <1>1, <2>1
<1>3. (a + data_cnt) * RecUnits = a * RecUnits + data_cnt * RecUnits
  BY <1>1
<1>4. ((n + 1 + SlotsOfBlock) + t) * RecUnits
         = n * RecUnits + RecUnits + SlotsOfBlock * RecUnits + (t * RecUnits)
  BY <1>1, <1>2
<1>5. /\ n * RecUnits \in Nat /\ t * RecUnits \in Nat /\ a * RecUnits \in Nat
      /\ SlotsOfBlock * RecUnits \in Nat
  BY <1>1, <1>2
<1> QED BY <1>1, <1>2, <1>3, <1>4, <1>5

(* Records a lap apart share their place. *)
LEMMA SlotShared ==
    ASSUME NEW d, NEW i \in Nat
    PROVE  /\ i + data_cnt \in Nat
           /\ Sound(d, i + data_cnt) <=> Sound(d, i)
<1>1. data_cnt \in Nat \ {0}
  BY StoreSizes
<1>2. (i + data_cnt) % data_cnt = i % data_cnt
  <2> DEFINE q == i \div data_cnt
             m == i % data_cnt
  <2>1. q \in Int /\ m \in 0..(data_cnt - 1) /\ i = data_cnt * q + m
    BY <1>1, DivMod
  <2> HIDE DEF q, m
  <2>2. q + 1 \in Int
    BY <2>1
  <2>3. (data_cnt * (q + 1) + m) % data_cnt = m
    BY <1>1, <2>1, <2>2, ModUnique
  <2>4. data_cnt * (q + 1) + m = i + data_cnt
    BY <1>1, <2>1
  <2> QED BY <2>3, <2>4 DEF m
<1>3. RecordUnits(i + data_cnt) = RecordUnits(i)
  BY <1>2 DEF RecordUnits
<1> QED BY <1>1, <1>3 DEF Sound

(* Records less than a lap apart do not share a unit. *)
LEMMA SlotApart ==
    ASSUME WholeRecords,
           NEW i \in Nat, NEW n \in Nat, i # n, i < n + data_cnt, n < i + data_cnt,
           NEW d, NEW e, Leaves(d, e, RecordUnits(n))
    PROVE  (Sound(e, i) <=> Sound(d, i)) /\ ReadAt(e, i) = ReadAt(d, i)
<1>1. /\ RecUnits \in Nat \ {0} /\ data_cnt \in Nat \ {0}
  BY StoreSizes
<1> DEFINE a == i % data_cnt
           c == n % data_cnt
<1>2. a \in 0..(data_cnt - 1) /\ c \in 0..(data_cnt - 1)
  <2>1. i \in Int /\ n \in Int
    OBVIOUS
  <2> QED BY <1>1, <2>1, DivMod
<1>3. a # c
  <2>1. i \in Int /\ n \in Int
    OBVIOUS
  <2>2. CASE i < n
    BY <1>1, <2>1, <2>2, ModDistinct
  <2>3. CASE n < i
    BY <1>1, <2>1, <2>3, ModDistinct
  <2> QED BY <2>1, <2>2, <2>3
<1>4. /\ RecordUnits(i) = (a * RecUnits)..(a * RecUnits + RecUnits - 1)
      /\ RecordUnits(n) = (c * RecUnits)..(c * RecUnits + RecUnits - 1)
  BY DEF RecordUnits
<1> HIDE DEF a, c
<1>5. a * RecUnits + RecUnits <= c * RecUnits \/ c * RecUnits + RecUnits <= a * RecUnits
  <2>1. CASE a < c
    <3>1. (c - a) * RecUnits >= RecUnits
      BY <1>1, <1>2, <2>1
    <3>2. (c - a) * RecUnits = c * RecUnits - (a * RecUnits)
      BY <1>1, <1>2
    <3>3. a * RecUnits \in Nat /\ c * RecUnits \in Nat
      BY <1>1, <1>2
    <3> QED BY <1>1, <3>1, <3>2, <3>3
  <2>2. CASE c < a
    <3>1. (a - c) * RecUnits >= RecUnits
      BY <1>1, <1>2, <2>2
    <3>2. (a - c) * RecUnits = a * RecUnits - (c * RecUnits)
      BY <1>1, <1>2
    <3>3. a * RecUnits \in Nat /\ c * RecUnits \in Nat
      BY <1>1, <1>2
    <3> QED BY <1>1, <3>1, <3>2, <3>3
  <2> QED BY <1>2, <1>3, <2>1, <2>2
<1>6. PICK p \in Nat, q \in Nat : p = a * RecUnits /\ q = c * RecUnits
  BY <1>1, <1>2
<1>7. /\ RecordUnits(i) = p..(p + RecUnits - 1)
      /\ RecordUnits(n) = q..(q + RecUnits - 1)
      /\ p + RecUnits <= q \/ q + RecUnits <= p
  BY <1>4, <1>5, <1>6
<1>8. \A u \in RecordUnits(i) : u \notin RecordUnits(n)
  BY <1>1, <1>7
<1>9. \A u \in RecordUnits(i) : e[u] = d[u]
  <2>1. RecordUnits(i) \subseteq 0..(data_size - 1)
    BY RecordUnitsAre
  <2> QED BY <1>8, <2>1 DEF Leaves
<1>10. Min(RecordUnits(i)) \in RecordUnits(i)
  BY RecordUnitsAre
<1> QED BY <1>9, <1>10 DEF Sound, ReadAt

(* Later records lie in later sectors, and only the first of a sector can  *)
(* begin it.                                                               *)
LEMMA SectorOrder ==
    ASSUME NEW a \in Nat, NEW b \in Nat, a <= b
    PROVE  /\ SectorOf(a) <= SectorOf(b)
           /\ a < b /\ SectorOf(a) = SectorOf(b) => ~Begins(b)
           /\ a * RecUnits <= b * RecUnits
<1>0. RecUnits \in Nat \ {0} /\ BlockUnits \in Nat \ {0}
  BY StoreSizes
<1>1. /\ a * RecUnits <= b * RecUnits /\ a * RecUnits \in Nat /\ b * RecUnits \in Nat
      /\ a < b => a * RecUnits < b * RecUnits
  <2>1. (b - a) * RecUnits >= 0 /\ (a < b => (b - a) * RecUnits >= RecUnits)
    BY <1>0
  <2>2. (b - a) * RecUnits = b * RecUnits - (a * RecUnits)
    BY <1>0
  <2>3. a * RecUnits \in Nat /\ b * RecUnits \in Nat
    BY <1>0
  <2> QED BY <1>0, <2>1, <2>2, <2>3
<1> DEFINE p == a * RecUnits
           y == b * RecUnits
           q == p \div BlockUnits
           z == y \div BlockUnits
<1>2. /\ q \in Int /\ p % BlockUnits \in 0..(BlockUnits - 1)
      /\ p = BlockUnits * q + (p % BlockUnits)
      /\ z \in Int /\ y % BlockUnits \in 0..(BlockUnits - 1)
      /\ y = BlockUnits * z + (y % BlockUnits)
  <2>1. p \in Int /\ y \in Int
    BY <1>1
  <2> HIDE DEF p, y
  <2> QED BY <1>0, <2>1, DivMod
<1>3. /\ SectorOf(a) = p - (p % BlockUnits) /\ SectorOf(b) = y - (y % BlockUnits)
      /\ Begins(b) <=> y % BlockUnits = 0
      /\ p <= y /\ p \in Nat /\ y \in Nat /\ (a < b => p < y)
  BY <1>1 DEF SectorOf, Begins
<1> HIDE DEF p, y, q, z
<1>4. BlockUnits * q \in Int /\ BlockUnits * z \in Int
  BY <1>0, <1>2
<1>5. z < q => BlockUnits * z + BlockUnits <= BlockUnits * q
  <2>1. z < q => BlockUnits * (q - z) >= BlockUnits
    BY <1>0, <1>2
  <2>2. BlockUnits * (q - z) = BlockUnits * q - (BlockUnits * z)
    BY <1>0, <1>2
  <2> QED BY <1>0, <1>4, <2>1, <2>2
<1>6. q < z => BlockUnits * q + BlockUnits <= BlockUnits * z
  <2>1. q < z => BlockUnits * (z - q) >= BlockUnits
    BY <1>0, <1>2
  <2>2. BlockUnits * (z - q) = BlockUnits * z - (BlockUnits * q)
    BY <1>0, <1>2
  <2> QED BY <1>0, <1>4, <2>1, <2>2
<1>7. SectorOf(a) = BlockUnits * q /\ SectorOf(b) = BlockUnits * z
  BY <1>2, <1>3, <1>4
<1>8. q <= z
  BY <1>0, <1>2, <1>3, <1>4, <1>5
<1>9. SectorOf(a) <= SectorOf(b)
  BY <1>0, <1>2, <1>4, <1>6, <1>7, <1>8
<1>10. a < b /\ SectorOf(a) = SectorOf(b) => ~Begins(b)
  BY <1>0, <1>2, <1>3, <1>4, <1>7
<1> QED BY <1>1, <1>9, <1>10

(* A sound record of the lap that ends before n is the one last stored.    *)
Match(d, k, n) ==
    \A i \in 0..MaxSaves : i < n /\ i + data_cnt >= n /\ Sound(d, i) =>
        ReadAt(d, i) = [idx |-> i, id |-> k[i]]
(* b is the last record begun, n the one to be written: what lies behind   *)
(* record b in the sector of n is erased.                                  *)
Behind(d, n, b) ==
    IF n = b + 1 THEN Clean(d, n)
    ELSE SectorOf(n) = SectorOf(b) /\ ~Begins(n) =>
           Clear(d, b * RecUnits + RecUnits, SectorOf(b) + BlockUnits)
(* Records lost for good, *)
Gone(d, k, er, r, b) ==
    {i \in 0..MaxSaves : /\ i < r /\ k[i] > er /\ ~Sound(d, i)
                         /\ i + data_cnt >= b + 1 + SlotsOfBlock}
(* and records r to b, which were begun and are to be written again. Power *)
(* failed at least as often.                                               *)
Front(d, k, er, f, n, r, b) ==
    /\ 1 <= r /\ r <= b + 1
    /\ r = 1 \/ Sound(d, r - 1)
    /\ \A i \in r..b : ~Sound(d, i)
    /\ Match(d, k, b + 1)
    /\ Behind(d, n, b)
    /\ Cardinality(Gone(d, k, er, r, b)) + ((b + 1) - r) <= f
(* In the save of record n: one more record is under way than power has    *)
(* failed, unless what is written will be sound.                           *)
Begun(d, k, er, f, n, r, b) ==
    /\ r <= n /\ n <= b
    /\ Front(d, k, er, f + 1, n, r, b)
    /\ \/ Cardinality(Gone(d, k, er, r, b)) + ((b + 1) - r) <= f
       \/ b = n /\ Clean(d, n)

(* The units that a save of record n erases or writes. *)
Touches(n, T) ==
    \/ T = {} \/ T = RecordUnits(n)
    \/ T = NextOf(n) /\ Crosses(n)
    \/ T = CurOf(n) /\ Begins(n)

LEMMA GoneFinite ==
    ASSUME NEW d, NEW k, NEW er, NEW r, NEW b
    PROVE  /\ IsFiniteSet(Gone(d, k, er, r, b))
           /\ Cardinality(Gone(d, k, er, r, b)) \in Nat
<1>1. PICK m \in Int : m = MaxSaves
  BY StoreSizes
<1>2. IsFiniteSet(0..m)
  BY FS_Interval
<1>3. Gone(d, k, er, r, b) \subseteq 0..m
  BY <1>1 DEF Gone
<1>4. IsFiniteSet(Gone(d, k, er, r, b))
  BY <1>2, <1>3, FS_Subset
<1> QED BY <1>4, FS_CardinalityType

(* Fewer are lost when no more are. *)
LEMMA GoneFewer ==
    ASSUME NEW d, NEW k, NEW er, NEW r, NEW b, NEW S,
           S \subseteq Gone(d, k, er, r, b)
    PROVE  /\ IsFiniteSet(S) /\ Cardinality(S) \in Nat
           /\ Cardinality(S) <= Cardinality(Gone(d, k, er, r, b))
           /\ Cardinality(Gone(d, k, er, r, b)) \in Nat
<1>1. IsFiniteSet(Gone(d, k, er, r, b))
  BY GoneFinite
<1>2. IsFiniteSet(S) /\ Cardinality(S) <= Cardinality(Gone(d, k, er, r, b))
  BY <1>1, FS_Subset
<1> QED BY <1>2, GoneFinite, FS_CardinalityType

LEMMA FrontMore ==
    ASSUME NEW d, NEW k \in [0..MaxSaves -> Nat], NEW er \in Nat, NEW f \in Nat,
           NEW g \in Nat, f <= g, NEW es \in Nat, er <= es,
           NEW n \in Nat, NEW r \in Nat, NEW b \in Nat,
           Front(d, k, er, f, n, r, b)
    PROVE  Front(d, k, es, g, n, r, b)
<1>1. Gone(d, k, es, r, b) \subseteq Gone(d, k, er, r, b)
  BY DEF Gone
<1>2. /\ Cardinality(Gone(d, k, es, r, b)) \in Nat
      /\ Cardinality(Gone(d, k, es, r, b)) <= Cardinality(Gone(d, k, er, r, b))
      /\ Cardinality(Gone(d, k, er, r, b)) \in Nat
  BY <1>1, GoneFewer
<1>3. Cardinality(Gone(d, k, er, r, b)) + ((b + 1) - r) <= f
  BY DEF Front
<1>4. Cardinality(Gone(d, k, es, r, b)) + ((b + 1) - r) <= g
  BY <1>2, <1>3
<1> QED BY <1>4 DEF Front

(* The next record goes back: it is r again. *)
LEMMA BehindBack ==
    ASSUME WholeRecords,
           NEW d, NEW n \in Nat, NEW r \in Nat, NEW b \in Nat,
           1 <= r, r <= n, n <= b + 1, Behind(d, n, b)
    PROVE  Behind(d, r, b)
<1>1. CASE r = b + 1
  <2>1. n = r
    BY <1>1
  <2> QED BY <2>1
<1>2. CASE r # b + 1
  <2>0. r <= b
    BY <1>2
  <2>1. SUFFICES ASSUME SectorOf(r) = SectorOf(b), ~Begins(r)
                 PROVE  Clear(d, b * RecUnits + RecUnits, SectorOf(b) + BlockUnits)
    BY <1>2 DEF Behind
  <2>2. ~Begins(b)
    BY <2>0, <2>1, SectorOrder
  <2>3. CASE n = b + 1
    <3>1. Clean(d, b + 1)
      BY <2>3 DEF Behind
    <3>2. Rest(d, b)
      BY <3>1, CleanRest
    <3> QED BY <2>2, <3>2 DEF Rest, Begins
  <2>4. CASE n # b + 1
    <3>1. n <= b
      BY <2>4
    <3>2. SectorOf(r) <= SectorOf(n) /\ SectorOf(n) <= SectorOf(b)
      BY <3>1, SectorOrder
    <3>3. SectorOf(r) \in Nat /\ SectorOf(n) \in Nat /\ SectorOf(b) \in Nat
      BY SectorPlace
    <3>4. SectorOf(n) = SectorOf(b) /\ SectorOf(r) = SectorOf(n)
      BY <2>1, <3>2, <3>3
    <3>5. ~Begins(n)
      <4>1. CASE r = n
        BY <2>1, <4>1
      <4>2. CASE r # n
        <5>1. r < n
          BY <4>2
        <5> QED BY <3>4, <5>1, SectorOrder
      <4> QED BY <4>1, <4>2
    <3> QED BY <2>4, <3>4, <3>5 DEF Behind
  <2> QED BY <2>3, <2>4
<1> QED BY <1>1, <1>2

LEMMA FrontBack ==
    ASSUME WholeRecords,
           NEW d, NEW k, NEW er, NEW f,
           NEW n \in Nat, NEW r \in Nat, NEW b \in Nat, r <= n, n <= b + 1,
           Front(d, k, er, f, n, r, b)
    PROVE  Front(d, k, er, f, r, r, b)
<1>1. 1 <= r /\ Behind(d, n, b)
  BY DEF Front
<1>2. Behind(d, r, b)
  BY <1>1, BehindBack
<1> QED BY <1>2 DEF Front

(* No more than power has failed are to be written again. *)
LEMMA FrontShort ==
    ASSUME NEW d, NEW k, NEW er, NEW f \in Nat,
           NEW n \in Nat, NEW r \in Nat, NEW b \in Nat,
           Front(d, k, er, f, n, r, b)
    PROVE  1 <= r /\ r <= b + 1 /\ (b + 1) - r <= f
<1>1. Cardinality(Gone(d, k, er, r, b)) \in Nat
  BY GoneFinite
<1>2. /\ Cardinality(Gone(d, k, er, r, b)) + ((b + 1) - r) <= f
      /\ 1 <= r /\ r <= b + 1
  BY DEF Front
<1> QED BY <1>1, <1>2

(* The index of record n is written: it is begun. *)
LEMMA FrontBegun ==
    ASSUME WholeRecords,
           NEW d, NEW k \in [0..MaxSaves -> Nat], NEW er \in Nat, NEW f \in Nat,
           NEW n \in Nat, NEW r \in Nat, NEW b \in Nat, r <= n, n <= b + 1,
           Front(d, k, er, f, n, r, b)
    PROVE  \E c \in Nat : /\ b <= c /\ n <= c /\ (n <= b => c = b)
                          /\ Begun(d, k, er, f, n, r, c)
<1>1. CASE n <= b
  <2>1. Front(d, k, er, f + 1, n, r, b)
    <3>1. f + 1 \in Nat /\ f <= f + 1 /\ er <= er
      OBVIOUS
    <3> QED BY <3>1, FrontMore
  <2>2. Cardinality(Gone(d, k, er, r, b)) + ((b + 1) - r) <= f
    BY DEF Front
  <2>3. Begun(d, k, er, f, n, r, b)
    BY <1>1, <2>1, <2>2 DEF Begun
  <2> QED BY <1>1, <2>3
<1>2. CASE n = b + 1
  <2>1. Clean(d, n)
    BY <1>2 DEF Front, Behind
  <2>2. ~Sound(d, n)
    <3>1. Spoils(d, d, {})
      BY DEF Spoils
    <3> QED BY <2>1, <3>1, CleanNotSound
  <2>3. \A i \in r..n : ~Sound(d, i)
    <3>1. \A i \in r..b : ~Sound(d, i)
      BY DEF Front
    <3>2. \A i \in r..n : i \in r..b \/ i = n
      BY <1>2
    <3> QED BY <2>2, <3>1, <3>2
  <2>4. Match(d, k, n + 1)
    <3>1. SUFFICES ASSUME NEW i \in 0..MaxSaves, i < n + 1, i + data_cnt >= n + 1,
                          Sound(d, i)
                   PROVE  ReadAt(d, i) = [idx |-> i, id |-> k[i]]
      BY DEF Match
    <3>2. i # n
      BY <2>2, <3>1
    <3>3. i < b + 1 /\ i + data_cnt >= b + 1
      BY <1>2, <3>1, <3>2, StoreSizes
    <3>4. Match(d, k, b + 1)
      BY DEF Front
    <3> QED BY <3>1, <3>3, <3>4 DEF Match
  <2>5. Behind(d, n, n)
    <3>1. n # n + 1
      OBVIOUS
    <3>2. Clear(d, n * RecUnits, SectorOf(n) + BlockUnits)
      BY <2>1 DEF Clean
    <3>3. n * RecUnits \in Nat /\ RecUnits \in Nat /\ SectorOf(n) + BlockUnits \in Nat
      <4>1. n * RecUnits \in Nat /\ SectorOf(n) \in Nat
        BY SectorPlace
      <4>2. RecUnits \in Nat /\ BlockUnits \in Nat
        BY StoreSizes
      <4> QED BY <4>1, <4>2
    <3>4. PICK p \in Nat, q \in Nat : p = n * RecUnits /\ q = SectorOf(n) + BlockUnits
      BY <3>3
    <3>5. Clear(d, p + RecUnits, q)
      BY <3>2, <3>3, <3>4 DEF Clear
    <3> QED BY <3>1, <3>4, <3>5 DEF Behind
  <2>6. Gone(d, k, er, r, n) \subseteq Gone(d, k, er, r, b)
    <3>1. SlotsOfBlock \in Nat /\ data_cnt \in Nat
      BY SlotsAre, StoreSizes
    <3>2. \A i \in 0..MaxSaves : i + data_cnt >= n + 1 + SlotsOfBlock =>
            i + data_cnt >= b + 1 + SlotsOfBlock
      BY <1>2, <3>1
    <3> QED BY <3>2 DEF Gone
  <2>7. /\ Cardinality(Gone(d, k, er, r, n)) \in Nat
        /\ Cardinality(Gone(d, k, er, r, n)) <= Cardinality(Gone(d, k, er, r, b))
        /\ Cardinality(Gone(d, k, er, r, b)) \in Nat
    BY <2>6, GoneFewer
  <2>8. Cardinality(Gone(d, k, er, r, b)) + ((b + 1) - r) <= f
    BY DEF Front
  <2>9. Cardinality(Gone(d, k, er, r, n)) + ((n + 1) - r) <= f + 1
    BY <1>2, <2>7, <2>8
  <2>10. 1 <= r /\ r <= n + 1 /\ (r = 1 \/ Sound(d, r - 1))
    BY <1>2 DEF Front
  <2>11. Front(d, k, er, f + 1, n, r, n)
    BY <2>3, <2>4, <2>5, <2>9, <2>10 DEF Front
  <2>12. Begun(d, k, er, f, n, r, n)
    BY <2>1, <2>11 DEF Begun
  <2> QED BY <1>2, <2>12
<1> QED BY <1>1, <1>2

(* All that a save touches lies from its record on, no more than a sector  *)
(* behind it.                                                              *)
LEMMA TouchPlace ==
    ASSUME WholeRecords,
           NEW n \in Nat, NEW T, Touches(n, T)
    PROVE  Within(n * RecUnits, n * RecUnits + RecUnits + BlockUnits, T)
<1> DEFINE p == n * RecUnits
           s == SectorOf(n)
           y == p + RecUnits
           z == s + BlockUnits
           q == s + 2 * BlockUnits
           l == p + RecUnits + BlockUnits
<1>1. /\ p \in Nat /\ s \in Nat /\ s <= p /\ p < z /\ y = p + RecUnits
      /\ z = s + BlockUnits /\ q = s + 2 * BlockUnits
      /\ l = p + RecUnits + BlockUnits
      /\ Begins(n) => s = p
  BY SectorPlace DEF Begins
<1>2. Crosses(n) => y >= z
  BY DEF Crosses
<1>3. Within(z, q, NextOf(n)) /\ Within(s, z, CurOf(n)) /\ Within(p, y, RecordUnits(n))
  BY Touched
<1> HIDE DEF p, s, y, z, q, l
<1>4. /\ p \in Int /\ s \in Int /\ y \in Int /\ z \in Int /\ q \in Int /\ l \in Int
      /\ p <= p /\ y <= l /\ p <= z
      /\ Crosses(n) => q <= l
      /\ Begins(n) => p <= s /\ z <= l
  BY <1>1, <1>2, StoreSizes
<1>5. CASE T = {}
  BY <1>5 DEF Within
<1>6. CASE T = RecordUnits(n)
  BY <1>3, <1>4, <1>6, AtWider DEF p, l
<1>7. CASE T = NextOf(n) /\ Crosses(n)
  BY <1>3, <1>4, <1>7, AtWider DEF p, l
<1>8. CASE T = CurOf(n) /\ Begins(n)
  BY <1>3, <1>4, <1>8, AtWider DEF p, l
<1> QED BY <1>5, <1>6, <1>7, <1>8 DEF Touches

(* A record before stays, when it is not reached a lap later. *)
LEMMA TouchSpares ==
    ASSUME WholeRecords,
           NEW n \in Nat, NEW T, Touches(n, T), NEW a \in Nat, a < n,
           n * RecUnits + RecUnits + BlockUnits <= a * RecUnits + data_size,
           NEW d, NEW e, Leaves(d, e, T), Sound(d, a)
    PROVE  Sound(e, a)
<1> DEFINE p == n * RecUnits
           l == p + RecUnits + BlockUnits
           x == a * RecUnits
           y == x + RecUnits
<1>1. Within(p, l, T)
  BY TouchPlace
<1>2. p \in Nat /\ x \in Nat /\ y <= p
  <2>1. a + 1 \in Nat /\ a + 1 <= n
    OBVIOUS
  <2>2. (a + 1) * RecUnits <= n * RecUnits
    BY <2>1, SectorOrder
  <2>3. (a + 1) * RecUnits = a * RecUnits + RecUnits
    BY StoreSizes
  <2>4. n * RecUnits \in Nat /\ a * RecUnits \in Nat
    BY StoreSizes
  <2> QED BY <2>2, <2>3, <2>4
<1>3. l <= x + data_size /\ y = x + RecUnits /\ l = p + RecUnits + BlockUnits
  OBVIOUS
<1> HIDE DEF p, l, x, y
<1>4. p \in Int /\ l \in Int /\ x \in Int /\ y \in Int
  BY <1>2, <1>3, StoreSizes
<1>5. \A u \in x..(y - 1) : u % data_size \notin T
  BY <1>1, <1>2, <1>3, <1>4, ApartBefore
<1>6. y - 1 = x + RecUnits - 1
  BY <1>2, <1>3, StoreSizes
<1>7. \A u \in (a * RecUnits)..(a * RecUnits + RecUnits - 1) :
        u % data_size \notin T
  BY <1>5, <1>6 DEF x
<1> QED BY <1>7, SoundStays

(* What is erased behind the last record begun stays so. *)
LEMMA BehindTouched ==
    ASSUME WholeRecords,
           Roomy, NEW n \in Nat, NEW T, Touches(n, T), NEW b \in Nat, n <= b,
           NEW d, NEW e, Leaves(d, e, T), Behind(d, n, b)
    PROVE  Behind(e, n, b)
<1>0. n # b + 1
  OBVIOUS
<1>1. SUFFICES ASSUME SectorOf(n) = SectorOf(b), ~Begins(n)
               PROVE  Clear(e, b * RecUnits + RecUnits, SectorOf(b) + BlockUnits)
  BY <1>0 DEF Behind
<1> DEFINE p == n * RecUnits
           s == SectorOf(n)
           y == p + RecUnits
           z == s + BlockUnits
           q == s + 2 * BlockUnits
           x == b * RecUnits + RecUnits
<1>2. /\ p \in Nat /\ s \in Nat /\ s <= p /\ p < z /\ y = p + RecUnits
      /\ z = s + BlockUnits /\ q = s + 2 * BlockUnits
      /\ Crosses(n) => y >= z
  BY SectorPlace DEF Crosses
<1>3. x \in Nat /\ y <= x
  <2>1. n * RecUnits <= b * RecUnits
    BY SectorOrder
  <2>2. n * RecUnits \in Nat /\ b * RecUnits \in Nat /\ RecUnits \in Nat
    BY StoreSizes
  <2> QED BY <2>1, <2>2
<1>4. Within(z, q, NextOf(n)) /\ Within(p, y, RecordUnits(n))
  BY Touched
<1>5. Clear(d, x, z)
  BY <1>0, <1>1 DEF Behind
<1>6. T = {} \/ T = RecordUnits(n) \/ (T = NextOf(n) /\ Crosses(n))
  BY <1>1 DEF Touches
<1> HIDE DEF p, s, y, z, q, x
<1>7. RecUnits + BlockUnits <= data_size
  BY Room
<1>8. /\ p \in Int /\ y \in Int /\ z \in Int /\ q \in Int /\ x \in Int
      /\ z <= z /\ (Crosses(n) => q <= x + data_size) /\ z <= p + data_size
  BY <1>2, <1>3, <1>7, StoreSizes
<1>9. \A u \in x..(z - 1) : u % data_size \notin T
  <2>1. CASE T = {}
    BY <2>1
  <2>2. CASE T = RecordUnits(n)
    BY <1>3, <1>4, <1>8, <2>2, ApartBehind
  <2>3. CASE T = NextOf(n) /\ Crosses(n)
    BY <1>4, <1>8, <2>3, ApartBefore
  <2> QED BY <1>6, <2>1, <2>2, <2>3
<1>10. Clear(e, x, z)
  BY <1>5, <1>8, <1>9, ClearStays
<1> QED BY <1>1, <1>10 DEF x, z, s

(* No sound record goes that was not given up before. *)
LEMMA GoneTouched ==
    ASSUME WholeRecords,
           NEW n \in Nat, NEW T, Touches(n, T), NEW r \in Nat, NEW b \in Nat,
           r <= n, n <= b, NEW d, NEW e, Spoils(d, e, T), NEW k, NEW er
    PROVE  Gone(e, k, er, r, b) \subseteq Gone(d, k, er, r, b)
<1>0. Leaves(d, e, T)
  BY SpoilsLeaves
<1> SUFFICES ASSUME NEW i \in Gone(e, k, er, r, b), Sound(d, i) PROVE FALSE
  BY DEF Gone
<1>1. /\ i \in 0..MaxSaves /\ i < r /\ ~Sound(e, i)
      /\ i + data_cnt >= b + 1 + SlotsOfBlock
  BY DEF Gone
<1>2. data_cnt \in Nat /\ SlotsOfBlock \in Nat
  BY StoreSizes, SlotsAre
<1>3. i \in Nat /\ i < n /\ i + data_cnt >= n + 1 + SlotsOfBlock
  BY <1>1, <1>2
<1>4. n * RecUnits + RecUnits + BlockUnits <= i * RecUnits + data_size
  BY <1>3, LapSlots
<1>5. Sound(e, i)
  BY <1>0, <1>3, <1>4, TouchSpares
<1> QED BY <1>1, <1>5

LEMMA MatchSpoilt ==
    ASSUME WholeRecords,
           NEW d, NEW e, NEW T, Spoils(d, e, T), NEW k, NEW n \in Nat, Match(d, k, n)
    PROVE  Match(e, k, n)
<1> SUFFICES ASSUME NEW i \in 0..MaxSaves, i < n, i + data_cnt >= n, Sound(e, i)
             PROVE  ReadAt(e, i) = [idx |-> i, id |-> k[i]]
  BY DEF Match
<1>1. i \in Nat
  BY StoreSizes
<1>2. Sound(d, i) /\ ReadAt(d, i) = ReadAt(e, i)
  BY <1>1, SoundBefore
<1> QED BY <1>2 DEF Match

(* Erasing and losing units in the save of record n. *)
LEMMA FrontTouched ==
    ASSUME WholeRecords,
           Roomy, NEW n \in Nat, NEW T, Touches(n, T), NEW r \in Nat, NEW b \in Nat,
           r <= n, n <= b, NEW d, NEW e, Spoils(d, e, T),
           NEW k \in [0..MaxSaves -> Nat], NEW er, NEW f \in Nat, f <= LookBack,
           Front(d, k, er, f, n, r, b)
    PROVE  /\ Front(e, k, er, f, n, r, b)
           /\ Gone(e, k, er, r, b) \subseteq Gone(d, k, er, r, b)
<1>0. Leaves(d, e, T)
  BY SpoilsLeaves
<1>1. 1 <= r /\ r <= b + 1 /\ (b + 1) - r <= f
  BY FrontShort
<1>2. Gone(e, k, er, r, b) \subseteq Gone(d, k, er, r, b)
  BY GoneTouched
<1>3. /\ Cardinality(Gone(e, k, er, r, b)) \in Nat
      /\ Cardinality(Gone(e, k, er, r, b)) <= Cardinality(Gone(d, k, er, r, b))
      /\ Cardinality(Gone(d, k, er, r, b)) \in Nat
  BY <1>2, GoneFewer
<1>4. Cardinality(Gone(d, k, er, r, b)) + ((b + 1) - r) <= f
  BY DEF Front
<1>5. Cardinality(Gone(e, k, er, r, b)) + ((b + 1) - r) <= f
  BY <1>1, <1>3, <1>4
<1>6. Match(e, k, b + 1)
  <2>1. b + 1 \in Nat /\ Match(d, k, b + 1)
    BY DEF Front
  <2> QED BY <2>1, MatchSpoilt
<1>7. Behind(e, n, b)
  <2>1. Behind(d, n, b)
    BY DEF Front
  <2> QED BY <1>0, <2>1, BehindTouched
<1>8. ASSUME NEW i \in r..b PROVE ~Sound(e, i)
  <2>1. i \in Nat /\ ~Sound(d, i)
    BY DEF Front
  <2> QED BY <2>1, SoundBefore
<1>9. r = 1 \/ Sound(e, r - 1)
  <2>1. SUFFICES ASSUME r # 1 PROVE Sound(e, r - 1)
    OBVIOUS
  <2>2. Sound(d, r - 1)
    BY <2>1 DEF Front
  <2>3. PICK a \in Nat : a = r - 1
    BY <1>1
  <2>4. a < n /\ a <= n /\ n - a <= LookBack
    BY <1>1, <2>3, StoreSizes
  <2>5. n * RecUnits + RecUnits + BlockUnits <= a * RecUnits + data_size
    BY <2>4, Lap
  <2>6. Sound(e, a)
    BY <1>0, <2>2, <2>3, <2>4, <2>5, TouchSpares
  <2> QED BY <2>3, <2>6
<1>10. Front(e, k, er, f, n, r, b)
  BY <1>1, <1>5, <1>6, <1>7, <1>8, <1>9 DEF Front
<1> QED BY <1>2, <1>10

(* The erase ahead, *)
LEMMA NextErased ==
    ASSUME WholeRecords,
           Roomy, NEW n \in Nat, Crosses(n), NEW d, DOMAIN d = 0..(data_size - 1),
           NEW e, e = ErasedIn(d, NextOf(n))
    PROVE  /\ Spoils(d, e, NextOf(n)) /\ Ahead(e, n)
           /\ Clean(d, n) => Clean(e, n)
<1> DEFINE p == n * RecUnits
           s == SectorOf(n)
           z == s + BlockUnits
           q == s + 2 * BlockUnits
<1>1. /\ p \in Nat /\ s \in Nat /\ s <= p /\ p < z
      /\ z = s + BlockUnits /\ q = s + 2 * BlockUnits
      /\ p + RecUnits >= z
  BY SectorPlace DEF Crosses
<1>2. /\ Spoils(d, e, NextOf(n))
      /\ \A u \in 0..(data_size - 1) : u \in NextOf(n) => e[u] = Erased
  BY EraseSpoils
<1>3. Leaves(d, e, NextOf(n))
  BY <1>2, SpoilsLeaves
<1>4. Within(z, q, NextOf(n)) /\ \A x \in z..(q - 1) : x % data_size \in NextOf(n)
  BY Touched
<1> HIDE DEF p, s, z, q
<1>5. RecUnits + BlockUnits <= data_size
  BY Room
<1>6. Clear(e, z, q)
  <2> SUFFICES ASSUME NEW x \in z..(q - 1) PROVE e[x % data_size] = Erased
    BY DEF Clear
  <2>1. x \in Int
    BY <1>1, StoreSizes
  <2>2. x % data_size \in 0..(data_size - 1)
    BY <2>1, StoreSizes, DivMod
  <2> QED BY <1>2, <1>4, <2>2
<1>7. Ahead(e, n)
  BY <1>6 DEF Ahead, z, q, s
<1>8. ASSUME Clear(d, p, z) PROVE Clear(e, p, z)
  <2>1. p \in Int /\ z \in Int /\ q \in Int /\ z <= z /\ q <= p + data_size
    BY <1>1, <1>5, StoreSizes
  <2>2. \A x \in p..(z - 1) : x % data_size \notin NextOf(n)
    BY <1>4, <2>1, ApartBefore
  <2> QED BY <1>3, <1>8, <2>1, <2>2, ClearStays
<1>9. Clean(d, n) => Clean(e, n)
  BY <1>8 DEF Clean, p, z, s
<1> QED BY <1>2, <1>7, <1>9

(* the erase of the sector that a record begins, *)
LEMMA CurErased ==
    ASSUME WholeRecords,
           Roomy, NEW n \in Nat, Begins(n), NEW d, DOMAIN d = 0..(data_size - 1),
           Ahead(d, n), NEW e, e = ErasedIn(d, CurOf(n))
    PROVE  Spoils(d, e, CurOf(n)) /\ Ahead(e, n) /\ Clean(e, n)
<1> DEFINE p == n * RecUnits
           s == SectorOf(n)
           z == s + BlockUnits
           q == s + 2 * BlockUnits
<1>1. /\ p \in Nat /\ s \in Nat /\ s = p
      /\ z = s + BlockUnits /\ q = s + 2 * BlockUnits
      /\ Crosses(n) => p + RecUnits >= z
  BY SectorPlace DEF Crosses, Begins
<1>2. /\ Spoils(d, e, CurOf(n))
      /\ \A u \in 0..(data_size - 1) : u \in CurOf(n) => e[u] = Erased
  BY EraseSpoils
<1>3. Leaves(d, e, CurOf(n))
  BY <1>2, SpoilsLeaves
<1>4. Within(s, z, CurOf(n)) /\ \A x \in s..(z - 1) : x % data_size \in CurOf(n)
  BY Touched
<1> HIDE DEF p, s, z, q
<1>5. RecUnits + BlockUnits <= data_size
  BY Room
<1>6. Clear(e, p, z)
  <2> SUFFICES ASSUME NEW x \in s..(z - 1) PROVE e[x % data_size] = Erased
    BY <1>1 DEF Clear
  <2>1. x \in Int
    BY <1>1, StoreSizes
  <2>2. x % data_size \in 0..(data_size - 1)
    BY <2>1, StoreSizes, DivMod
  <2> QED BY <1>2, <1>4, <2>2
<1>7. Clean(e, n)
  BY <1>6 DEF Clean, p, z, s
<1>8. ASSUME Crosses(n), Clear(d, z, q) PROVE Clear(e, z, q)
  <2>1. s \in Int /\ z \in Int /\ q \in Int /\ z <= z /\ q <= s + data_size
    BY <1>1, <1>5, <1>8, StoreSizes
  <2>2. \A x \in z..(q - 1) : x % data_size \notin CurOf(n)
    BY <1>4, <2>1, ApartBehind
  <2> QED BY <1>3, <1>8, <2>1, <2>2, ClearStays
<1>9. Ahead(e, n)
  BY <1>8 DEF Ahead, z, q, s
<1> QED BY <1>2, <1>7, <1>9

LEMMA BegunTouched ==
    ASSUME WholeRecords,
           Roomy, NEW n \in Nat, NEW T, Touches(n, T), NEW r \in Nat, NEW b \in Nat,
           NEW d, NEW e, Spoils(d, e, T), Clean(d, n) => Clean(e, n),
           NEW k \in [0..MaxSaves -> Nat], NEW er, NEW f \in Nat, f < LookBack,
           Begun(d, k, er, f, n, r, b)
    PROVE  Begun(e, k, er, f, n, r, b)
<1>1. r <= n /\ n <= b /\ Front(d, k, er, f + 1, n, r, b)
  BY DEF Begun
<1>2. f + 1 \in Nat /\ f + 1 <= LookBack
  BY StoreSizes
<1>3. /\ Front(e, k, er, f + 1, n, r, b)
      /\ Gone(e, k, er, r, b) \subseteq Gone(d, k, er, r, b)
  BY <1>1, <1>2, FrontTouched
<1>4. /\ Cardinality(Gone(e, k, er, r, b)) \in Nat
      /\ Cardinality(Gone(e, k, er, r, b)) <= Cardinality(Gone(d, k, er, r, b))
      /\ Cardinality(Gone(d, k, er, r, b)) \in Nat
  BY <1>3, GoneFewer
<1>5. CASE Cardinality(Gone(d, k, er, r, b)) + ((b + 1) - r) <= f
  <2>1. Cardinality(Gone(e, k, er, r, b)) + ((b + 1) - r) <= f
    BY <1>4, <1>5
  <2> QED BY <1>1, <1>3, <2>1 DEF Begun
<1>6. CASE b = n /\ Clean(d, n)
  BY <1>1, <1>3, <1>6 DEF Begun
<1> QED BY <1>5, <1>6 DEF Begun

(* Power fails in the save of record n. *)
LEMMA BegunCut ==
    ASSUME WholeRecords,
           Roomy, NEW n \in Nat, NEW T, Touches(n, T), NEW r \in Nat, NEW b \in Nat,
           NEW d, NEW e, Spoils(d, e, T),
           NEW k \in [0..MaxSaves -> Nat], NEW er, NEW f \in Nat, f < LookBack,
           Begun(d, k, er, f, n, r, b)
    PROVE  Front(e, k, er, f + 1, r, r, b)
<1>1. r <= n /\ n <= b /\ Front(d, k, er, f + 1, n, r, b)
  BY DEF Begun
<1>2. f + 1 \in Nat /\ f + 1 <= LookBack /\ n <= b + 1
  BY <1>1, StoreSizes
<1>3. Front(e, k, er, f + 1, n, r, b)
  BY <1>1, <1>2, FrontTouched
<1> QED BY <1>1, <1>2, <1>3, FrontBack

(* and the record: what is erased behind it, *)
LEMMA CleanWritten ==
    ASSUME WholeRecords,
           Roomy, NEW n \in Nat, NEW d, NEW e, Leaves(d, e, RecordUnits(n)),
           Ahead(d, n), Clear(d, n * RecUnits + RecUnits, SectorOf(n) + BlockUnits)
    PROVE  Clean(e, n + 1)
<1> DEFINE p == n * RecUnits
           s == SectorOf(n)
           y == p + RecUnits
           z == s + BlockUnits
           q == s + 2 * BlockUnits
           b == SectorOf(n + 1) + BlockUnits
<1>1. /\ p \in Nat /\ s \in Nat /\ s <= p /\ p < z /\ y = p + RecUnits
      /\ z = s + BlockUnits /\ q = s + 2 * BlockUnits
  BY SectorPlace
<1>2. /\ Crosses(n) <=> y >= z
      /\ Crosses(n) => Clear(d, z, q)
      /\ Clear(d, y, z)
  BY DEF Crosses, Ahead
<1>3. /\ (n + 1) * RecUnits = y /\ b = SectorOf(n + 1) + BlockUnits
      /\ (Crosses(n) => SectorOf(n + 1) = z)
      /\ (~Crosses(n) => SectorOf(n + 1) = s)
  BY NextSector
<1>4. Within(p, y, RecordUnits(n))
  BY Touched
<1> HIDE DEF p, s, y, z, q, b
<1>5. RecUnits + BlockUnits <= data_size
  BY Room
<1>6. Clear(d, y, b) /\ b \in Int /\ b <= p + data_size
  <2>1. CASE Crosses(n)
    <3>1. Clear(d, z, q) /\ b = z + BlockUnits /\ y >= z
      BY <1>2, <1>3, <2>1
    <3>2. b = q /\ q \in Int /\ q <= p + data_size
      BY <1>1, <1>2, <1>5, <2>1, <3>1, StoreSizes
    <3>3. \A x \in y..(q - 1) : x \in z..(q - 1)
      BY <1>1, <3>1, <3>2, StoreSizes
    <3>4. Clear(d, y, q)
      BY <3>1, <3>3 DEF Clear
    <3> QED BY <3>2, <3>4
  <2>2. CASE ~Crosses(n)
    <3>1. b = z /\ z \in Int /\ z <= p + data_size
      BY <1>1, <1>3, <1>5, <2>2, StoreSizes
    <3> QED BY <1>2, <3>1
  <2> QED BY <2>1, <2>2
<1>7. y \in Int /\ p \in Int /\ y <= y
  BY <1>1, StoreSizes
<1>8. \A x \in y..(b - 1) : x % data_size \notin RecordUnits(n)
  BY <1>4, <1>6, <1>7, ApartBehind
<1>9. Clear(e, y, b)
  BY <1>6, <1>7, <1>8, ClearStays
<1> QED BY <1>3, <1>9 DEF Clean

LEMMA BehindWritten ==
    ASSUME WholeRecords,
           Roomy, NEW n \in Nat, NEW b \in Nat, n <= b, NEW d, NEW e,
           Leaves(d, e, RecordUnits(n)), Ahead(d, n), Begins(n) => Clean(d, n),
           Behind(d, n, b)
    PROVE  Behind(e, n + 1, b)
<1> DEFINE p == n * RecUnits
           s == SectorOf(n)
           y == p + RecUnits
           z == s + BlockUnits
           q == s + 2 * BlockUnits
           x == b * RecUnits + RecUnits
           l == SectorOf(b) + BlockUnits
<1>1. /\ p \in Nat /\ s \in Nat /\ s <= p /\ p < z /\ y = p + RecUnits
      /\ z = s + BlockUnits /\ q = s + 2 * BlockUnits
  BY SectorPlace
<1>2. /\ Crosses(n) <=> y >= z
      /\ Crosses(n) => Clear(d, z, q)
      /\ Begins(n) => Clear(d, p, z)
  BY DEF Crosses, Ahead, Clean
<1>3. n # b + 1
  OBVIOUS
<1>4. SectorOf(n) = SectorOf(b) /\ ~Begins(n) => Clear(d, x, l)
  BY <1>3 DEF Behind
<1>5. x \in Nat /\ y <= x /\ l = SectorOf(b) + BlockUnits
  <2>1. n * RecUnits <= b * RecUnits
    BY SectorOrder
  <2>2. n * RecUnits \in Nat /\ b * RecUnits \in Nat /\ RecUnits \in Nat
    BY StoreSizes
  <2> QED BY <2>1, <2>2
<1>6. Within(p, y, RecordUnits(n))
  BY Touched
<1>7. /\ (Crosses(n) => SectorOf(n + 1) = z)
      /\ (~Crosses(n) => SectorOf(n + 1) = s)
  BY NextSector
<1>8. s = SectorOf(n)
  OBVIOUS
<1>9. CASE n = b
  <2>1. Clear(d, y, z)
    <3>1. CASE Begins(n)
      <4>1. Clear(d, p, z)
        BY <1>2, <3>1
      <4> HIDE DEF p, s, y, z
      <4>2. \A u \in y..(z - 1) : u \in p..(z - 1)
        BY <1>1, StoreSizes
      <4> QED BY <4>1, <4>2 DEF Clear
    <3>2. CASE ~Begins(n)
      <4>1. Clear(d, x, l)
        BY <1>4, <1>9, <3>2
      <4> QED BY <1>9, <4>1
    <3> QED BY <3>1, <3>2
  <2>2. Clean(e, n + 1)
    BY <2>1, CleanWritten
  <2> QED BY <1>9, <2>2 DEF Behind
<1>10. CASE n # b
  <2>1. n + 1 # b + 1
    BY <1>10
  <2>2. SUFFICES ASSUME SectorOf(n + 1) = SectorOf(b) PROVE Clear(e, x, l)
    BY <2>1 DEF Behind
  <2>3. RecUnits + BlockUnits <= data_size
    BY Room
  <2> HIDE DEF p, s, y, z, q, x, l
  <2>4. Clear(d, x, l) /\ l \in Int /\ l <= p + data_size
    <3>1. CASE Crosses(n)
      <4>1. l = q /\ y >= z /\ Clear(d, z, q)
        <5>1. SectorOf(b) = z
          BY <1>7, <2>2, <3>1
        <5> QED BY <1>1, <1>2, <1>5, <3>1, <5>1, StoreSizes
      <4>2. q \in Int /\ q <= p + data_size
        BY <1>1, <2>3, <4>1, StoreSizes
      <4>3. \A u \in x..(q - 1) : u \in z..(q - 1)
        BY <1>1, <1>5, <4>1, <4>2, StoreSizes
      <4>4. Clear(d, x, q)
        BY <4>1, <4>3 DEF Clear
      <4> QED BY <4>1, <4>2, <4>4
    <3>2. CASE ~Crosses(n)
      <4>1. SectorOf(n) = SectorOf(b) /\ l = z
        <5>1. SectorOf(b) = s
          BY <1>7, <2>2, <3>2
        <5> QED BY <1>1, <1>5, <1>8, <5>1
      <4>2. z \in Int /\ z <= p + data_size
        BY <1>1, <2>3, StoreSizes
      <4>3. Clear(d, x, l)
        <5>1. CASE Begins(n)
          <6>1. \A u \in x..(z - 1) : u \in p..(z - 1)
            BY <1>1, <1>5, <4>2, StoreSizes
          <6>2. Clear(d, p, z)
            BY <1>2, <5>1
          <6>3. Clear(d, x, z)
            BY <6>1, <6>2 DEF Clear
          <6> QED BY <4>1, <6>3
        <5>2. CASE ~Begins(n)
          BY <1>4, <4>1, <5>2
        <5> QED BY <5>1, <5>2
      <4> QED BY <4>1, <4>2, <4>3
    <3> QED BY <3>1, <3>2
  <2>5. x \in Int /\ y \in Int /\ p \in Int
    BY <1>1, <1>5, StoreSizes
  <2>6. \A u \in x..(l - 1) : u % data_size \notin RecordUnits(n)
    BY <1>5, <1>6, <2>4, <2>5, ApartBehind
  <2> QED BY <2>4, <2>5, <2>6, ClearStays
<1> QED BY <1>9, <1>10

LEMMA UnionAtMost ==
    ASSUME NEW S, IsFiniteSet(S), NEW T, IsFiniteSet(T)
    PROVE  /\ IsFiniteSet(S \union T)
           /\ Cardinality(S \union T) <= Cardinality(S) + Cardinality(T)
           /\ Cardinality(S \union T) \in Nat
           /\ Cardinality(S) \in Nat /\ Cardinality(T) \in Nat
<1>1. /\ IsFiniteSet(S \union T)
      /\ Cardinality(S \union T) =
           Cardinality(S) + Cardinality(T) - Cardinality(S \cap T)
  BY FS_Union
<1>2. IsFiniteSet(S \cap T)
  BY FS_Subset
<1>3. /\ Cardinality(S) \in Nat /\ Cardinality(T) \in Nat
      /\ Cardinality(S \cap T) \in Nat /\ Cardinality(S \union T) \in Nat
  BY <1>1, <1>2, FS_CardinalityType
<1> QED BY <1>1, <1>3

(* What is read back where a record was written is that record. *)
LEMMA WrittenIs ==
    ASSUME WholeRecords,
           NEW n \in Nat, NEW d, NEW c \in Records, NEW e,
           Writes(d, e, RecordUnits(n), c), Sound(e, n)
    PROVE  ReadAt(e, n) = c
<1> DEFINE a == Min(RecordUnits(n))
<1>1. a \in RecordUnits(n)
  BY RecordUnitsAre
<1>2. e[a] = Program(d[a], c)
  BY <1>1 DEF Writes
<1>3. e[a] \in Records
  BY DEF Sound
<1>4. e[a] # Junk
  BY <1>3, NoData
<1>5. e[a] = c
  BY <1>2, <1>4 DEF Program
<1> QED BY <1>5 DEF ReadAt

LEMMA MatchWritten ==
    ASSUME WholeRecords,
           Roomy, NEW n \in 0..MaxSaves, NEW b \in Nat, n <= b, b - n <= LookBack,
           NEW d, NEW e, Leaves(d, e, RecordUnits(n)), NEW s,
           [idx |-> n, id |-> s] \in Records,
           Writes(d, e, RecordUnits(n), [idx |-> n, id |-> s]),
           NEW k \in [0..MaxSaves -> Nat], Match(d, k, b + 1)
    PROVE  Match(e, [k EXCEPT ![n] = s], b + 1)
<1> DEFINE h == [k EXCEPT ![n] = s]
<1>1. SUFFICES ASSUME NEW i \in 0..MaxSaves, i < b + 1, i + data_cnt >= b + 1,
                      Sound(e, i)
               PROVE  ReadAt(e, i) = [idx |-> i, id |-> h[i]]
  BY DEF Match
<1>2. n \in Nat /\ i \in Nat /\ data_cnt \in Nat /\ LookBack + 2 <= data_cnt
      /\ LookBack \in Nat
  BY StoreSizes, Room
<1>3. CASE i = n
  <2>1. ReadAt(e, n) = [idx |-> n, id |-> s]
    BY <1>1, <1>2, <1>3, WrittenIs
  <2>2. h[i] = s
    BY <1>3
  <2> QED BY <1>3, <2>1, <2>2
<1>4. CASE i # n
  <2>1. i < n + data_cnt /\ n < i + data_cnt
    BY <1>1, <1>2
  <2>2. (Sound(e, i) <=> Sound(d, i)) /\ ReadAt(e, i) = ReadAt(d, i)
    BY <1>2, <1>4, <2>1, SlotApart
  <2>3. h[i] = k[i]
    BY <1>4
  <2>4. ReadAt(d, i) = [idx |-> i, id |-> k[i]]
    BY <1>1, <2>2 DEF Match
  <2> QED BY <2>2, <2>3, <2>4
<1> QED BY <1>3, <1>4

(* The records lost, when record n is sound now, *)
LEMMA GoneBefore ==
    ASSUME WholeRecords,
           NEW n \in 0..MaxSaves, NEW b \in Nat, n <= b, NEW r \in Nat, r <= n,
           NEW d, NEW e, Leaves(d, e, RecordUnits(n)), Sound(e, n), NEW s,
           NEW k \in [0..MaxSaves -> Nat], NEW er
    PROVE  Cardinality(Gone(e, [k EXCEPT ![n] = s], er, n + 1, b))
             <= Cardinality(Gone(d, k, er, r, b)) + (n - r)
<1> DEFINE h == [k EXCEPT ![n] = s]
           G == Gone(d, k, er, r, b)
           H == Gone(e, h, er, n + 1, b)
<1>1. n \in Nat /\ data_cnt \in Nat /\ SlotsOfBlock \in Nat
  BY StoreSizes, SlotsAre
<1>2. ASSUME NEW i \in H PROVE i \in G \union (r..(n - 1))
  <2>1. /\ i \in 0..MaxSaves /\ i < n + 1 /\ h[i] > er /\ ~Sound(e, i)
        /\ i + data_cnt >= b + 1 + SlotsOfBlock
    BY <1>2 DEF Gone
  <2>2. i # n
    BY <2>1
  <2>3. i \in Nat /\ i < n /\ i < n + data_cnt /\ n < i + data_cnt
    BY <1>1, <2>1, <2>2
  <2>4. ~Sound(d, i)
    BY <1>1, <2>1, <2>2, <2>3, SlotApart
  <2>5. h[i] = k[i]
    BY <2>1, <2>2
  <2>6. CASE i < r
    BY <2>1, <2>4, <2>5, <2>6 DEF Gone
  <2>7. CASE ~(i < r)
    BY <1>1, <2>3, <2>7
  <2> QED BY <2>6, <2>7
<1>3. IsFiniteSet(G)
  BY GoneFinite
<1> HIDE DEF G, H
<1>4. PICK m \in Int : m = n - 1
  BY <1>1
<1>5. IsFiniteSet(r..m) /\ Cardinality(r..m) = n - r
  <2>1. /\ IsFiniteSet(r..m)
        /\ Cardinality(r..m) = IF r > m THEN 0 ELSE m - r + 1
    BY FS_Interval
  <2> QED BY <1>1, <1>4, <2>1
<1>6. /\ IsFiniteSet(G \union (r..m))
      /\ Cardinality(G \union (r..m)) <= Cardinality(G) + Cardinality(r..m)
      /\ Cardinality(G \union (r..m)) \in Nat /\ Cardinality(G) \in Nat
  BY <1>3, <1>5, UnionAtMost
<1>7. H \subseteq G \union (r..m)
  BY <1>2, <1>4
<1>8. IsFiniteSet(H) /\ Cardinality(H) <= Cardinality(G \union (r..m))
  BY <1>6, <1>7, FS_Subset
<1>9. Cardinality(H) \in Nat
  BY <1>8, FS_CardinalityType
<1>10. Cardinality(H) <= Cardinality(G) + (n - r)
  BY <1>1, <1>5, <1>6, <1>8, <1>9
<1> QED BY <1>10 DEF G, H

(* and when it is not. *)
LEMMA GoneStill ==
    ASSUME WholeRecords,
           NEW n \in 0..MaxSaves, NEW b \in Nat, n <= b, NEW r \in Nat, r <= n,
           NEW d, NEW e, Leaves(d, e, RecordUnits(n)), NEW s,
           NEW k \in [0..MaxSaves -> Nat], NEW er
    PROVE  Cardinality(Gone(e, [k EXCEPT ![n] = s], er, r, b))
             <= Cardinality(Gone(d, k, er, r, b))
<1> DEFINE h == [k EXCEPT ![n] = s]
<1>1. n \in Nat /\ data_cnt \in Nat /\ SlotsOfBlock \in Nat
  BY StoreSizes, SlotsAre
<1>2. ASSUME NEW i \in Gone(e, h, er, r, b) PROVE i \in Gone(d, k, er, r, b)
  <2>1. /\ i \in 0..MaxSaves /\ i < r /\ h[i] > er /\ ~Sound(e, i)
        /\ i + data_cnt >= b + 1 + SlotsOfBlock
    BY <1>2 DEF Gone
  <2>2. i \in Nat /\ i # n /\ i < n + data_cnt /\ n < i + data_cnt
    BY <1>1, <2>1
  <2>3. ~Sound(d, i)
    BY <1>1, <2>1, <2>2, SlotApart
  <2>4. h[i] = k[i]
    BY <2>1, <2>2
  <2> QED BY <2>1, <2>3, <2>4 DEF Gone
<1>3. Gone(e, h, er, r, b) \subseteq Gone(d, k, er, r, b)
  BY <1>2
<1> QED BY <1>3, GoneFewer

(* Record n is written: it is there, or it is to be written again. *)
LEMMA FrontWritten ==
    ASSUME WholeRecords,
           Roomy, NEW n \in 0..MaxSaves, NEW r \in Nat, NEW b \in Nat,
           NEW d, DOMAIN d = 0..(data_size - 1), NEW s,
           [idx |-> n, id |-> s] \in Records,
           NEW e, e = ProgrammedIn(d, RecordUnits(n), [idx |-> n, id |-> s]),
           NEW k \in [0..MaxSaves -> Nat], NEW er, NEW f \in Nat, f < LookBack,
           Begun(d, k, er, f, n, r, b), Ahead(d, n), Begins(n) => Clean(d, n)
    PROVE  \E t \in Nat : /\ t <= n + 1
                          /\ Front(e, [k EXCEPT ![n] = s], er, f, n + 1, t, b)
<1> DEFINE h == [k EXCEPT ![n] = s]
           c == [idx |-> n, id |-> s]
<1>0. n \in Nat
  BY StoreSizes
<1>1. /\ Leaves(d, e, RecordUnits(n)) /\ DOMAIN e = 0..(data_size - 1)
      /\ Writes(d, e, RecordUnits(n), c)
  BY <1>0, WriteUnits
<1>2. r <= n /\ n <= b /\ Front(d, k, er, f + 1, n, r, b)
  BY DEF Begun
<1>3. f + 1 \in Nat /\ f + 1 <= LookBack /\ LookBack + 2 <= data_cnt
      /\ LookBack \in Nat /\ data_cnt \in Nat
  BY StoreSizes, Room
<1>4. 1 <= r /\ r <= b + 1 /\ (b + 1) - r <= f + 1
  BY <1>2, <1>3, FrontShort
<1>5. b - n <= LookBack /\ b < n + data_cnt /\ n < (r - 1) + data_cnt
  BY <1>0, <1>2, <1>3, <1>4
<1>6. Match(e, h, b + 1)
  <2>1. Match(d, k, b + 1)
    BY <1>2 DEF Front
  <2> QED BY <1>1, <1>2, <1>5, <2>1, MatchWritten
<1>7. Behind(e, n + 1, b)
  <2>1. Behind(d, n, b)
    BY <1>2 DEF Front
  <2> QED BY <1>0, <1>1, <1>2, <2>1, BehindWritten
<1>8. ASSUME NEW i \in r..b, i # n PROVE ~Sound(e, i)
  <2>1. i \in Nat /\ i < n + data_cnt /\ n < i + data_cnt
    BY <1>0, <1>3, <1>4, <1>5
  <2>2. ~Sound(d, i)
    BY <1>2 DEF Front
  <2> QED BY <1>0, <1>1, <1>8, <2>1, <2>2, SlotApart
<1>9. Cardinality(Gone(d, k, er, r, b)) + ((b + 1) - r) <= f + 1
      /\ Cardinality(Gone(d, k, er, r, b)) \in Nat
  BY <1>2, GoneFinite DEF Front
<1>10. CASE Sound(e, n)
  <2>1. Cardinality(Gone(e, h, er, n + 1, b))
          <= Cardinality(Gone(d, k, er, r, b)) + (n - r)
    BY <1>1, <1>2, <1>10, GoneBefore
  <2>2. Cardinality(Gone(e, h, er, n + 1, b)) \in Nat
    BY GoneFinite
  <2>3. Cardinality(Gone(e, h, er, n + 1, b)) + ((b + 1) - (n + 1)) <= f
    BY <1>0, <1>9, <2>1, <2>2
  <2>4. \A i \in (n + 1)..b : ~Sound(e, i)
    <3>1. \A i \in (n + 1)..b : i \in r..b /\ i # n
      BY <1>0, <1>2
    <3> QED BY <1>8, <3>1
  <2>5. /\ n + 1 \in Nat /\ 1 <= n + 1 /\ n + 1 <= b + 1 /\ n + 1 <= n + 1
        /\ (n + 1) - 1 = n
    BY <1>0, <1>2
  <2>6. n + 1 = 1 \/ Sound(e, (n + 1) - 1)
    BY <1>10, <2>5
  <2>7. Front(e, h, er, f, n + 1, n + 1, b)
    BY <1>6, <1>7, <2>3, <2>4, <2>5, <2>6 DEF Front
  <2> QED BY <2>5, <2>7
<1>11. CASE ~Sound(e, n)
  <2>1. ~Clean(d, n)
    BY <1>0, <1>11, WriteSound
  <2>2. Cardinality(Gone(d, k, er, r, b)) + ((b + 1) - r) <= f
    BY <2>1 DEF Begun
  <2>3. Cardinality(Gone(e, h, er, r, b)) <= Cardinality(Gone(d, k, er, r, b))
    BY <1>1, <1>2, GoneStill
  <2>4. Cardinality(Gone(e, h, er, r, b)) \in Nat
    BY GoneFinite
  <2>5. Cardinality(Gone(e, h, er, r, b)) + ((b + 1) - r) <= f
    BY <1>4, <2>2, <2>3, <2>4, <1>9
  <2>6. \A i \in r..b : ~Sound(e, i)
    BY <1>8, <1>11
  <2>7. r = 1 \/ Sound(e, r - 1)
    <3>1. SUFFICES ASSUME r # 1 PROVE Sound(e, r - 1)
      OBVIOUS
    <3>2. Sound(d, r - 1)
      BY <1>2, <3>1 DEF Front
    <3>3. PICK a \in Nat : a = r - 1
      BY <1>4
    <3>4. a # n /\ a < n + data_cnt /\ n < a + data_cnt
      BY <1>0, <1>2, <1>3, <1>5, <3>3
    <3>5. Sound(e, a) <=> Sound(d, a)
      BY <1>0, <1>1, <3>4, SlotApart
    <3> QED BY <3>2, <3>3, <3>5
  <2>8. Front(e, h, er, f, n + 1, r, b)
    BY <1>4, <1>6, <1>7, <2>5, <2>6, <2>7 DEF Front
  <2>9. r <= n + 1
    BY <1>0, <1>2
  <2> QED BY <2>8, <2>9
<1> QED BY <1>10, <1>11

(* The first record of a log is there when it was written. *)
LEMMA FirstWritten ==
    ASSUME WholeRecords,
           Roomy, NEW d, DOMAIN d = 0..(data_size - 1), NEW s,
           [idx |-> 0, id |-> s] \in Records,
           NEW e, e = ProgrammedIn(d, RecordUnits(0), [idx |-> 0, id |-> s]),
           NEW k \in [0..MaxSaves -> Nat], NEW er, NEW f \in Nat,
           Ahead(d, 0), Clean(d, 0)
    PROVE  Front(e, [k EXCEPT ![0] = s], er, f, 1, 1, 0)
<1> DEFINE h == [k EXCEPT ![0] = s]
           c == [idx |-> 0, id |-> s]
<1>0. 0 \in Nat /\ 0 \in 0..MaxSaves
  BY StoreSizes
<1>1. /\ Leaves(d, e, RecordUnits(0)) /\ Writes(d, e, RecordUnits(0), c)
  BY <1>0, WriteUnits
<1>2. Sound(e, 0)
  BY <1>0, WriteSound
<1>3. ReadAt(e, 0) = c
  BY <1>0, <1>1, <1>2, WrittenIs
<1>4. Match(e, h, 0 + 1)
  <2>1. ASSUME NEW i \in 0..MaxSaves, i < 0 + 1 PROVE i = 0
    BY <2>1
  <2>2. h[0] = s
    BY <1>0
  <2>3. \A i \in 0..MaxSaves : i < 0 + 1 => ReadAt(e, i) = [idx |-> i, id |-> h[i]]
    BY <1>3, <2>1, <2>2
  <2> QED BY <2>3 DEF Match
<1>5. Clean(e, 0 + 1)
  <2> DEFINE p == 0 * RecUnits
             z == SectorOf(0) + BlockUnits
  <2>1. Clear(d, p, z)
    BY DEF Clean
  <2>2. p \in Nat /\ RecUnits \in Nat /\ z \in Int
    <3>1. p \in Nat /\ SectorOf(0) \in Nat
      BY <1>0, SectorPlace
    <3>2. RecUnits \in Nat /\ BlockUnits \in Nat
      BY StoreSizes
    <3> HIDE DEF p
    <3> QED BY <3>1, <3>2
  <2> HIDE DEF p, z
  <2>3. Clear(d, p + RecUnits, z)
    BY <2>1, <2>2 DEF Clear
  <2>4. Clear(d, 0 * RecUnits + RecUnits, SectorOf(0) + BlockUnits)
    BY <2>3 DEF p, z
  <2> QED BY <1>0, <1>1, <2>4, CleanWritten
<1>6. Gone(e, h, er, 1, 0) = {}
  <2>1. \A i \in 0..MaxSaves : i < 1 => i = 0
    OBVIOUS
  <2> QED BY <1>2, <2>1 DEF Gone
<1>7. Cardinality({}) = 0
  BY FS_EmptySet
<1>8. Cardinality(Gone(e, h, er, 1, 0)) + ((0 + 1) - 1) <= f
  <2>1. PICK g : g = Gone(e, h, er, 1, 0)
    OBVIOUS
  <2>2. Cardinality(g) = 0
    BY <1>6, <1>7, <2>1
  <2>3. Cardinality(g) + ((0 + 1) - 1) <= f
    BY <2>2
  <2> QED BY <2>1, <2>3
<1>9. \A i \in 1..0 : ~Sound(e, i)
  OBVIOUS
<1>10. Behind(e, 1, 0)
  BY <1>5 DEF Behind
<1>11. 1 <= 1 /\ 1 <= 0 + 1 /\ 1 = 1
  OBVIOUS
<1> QED BY <1>4, <1>8, <1>9, <1>10, <1>11 DEF Front

(* A block of index words loses its head: then no index is shown any more, *)
(* or that of the other block still is.                                    *)
LEMMA HeadLost ==
    ASSUME IndexBlocks = 2, NEW w, Single(w), NEW m \in Nat, Shows(w, m),
           NEW s \in {0, BlockWords}, NEW e, SpoilsWords(w, e, Words(s)),
           ~IndexValid(e, s)
    PROVE  Blank(e) \/ Shows(e, m)
<1>1. /\ Side(m) \in {0, BlockWords} /\ Other(m) \in {0, BlockWords}
      /\ Other(m) # Side(m)
  BY SideFacts
<1>2. CASE s = Side(m)
  <2>1. IndexValid(w, s)
    BY <1>2, HeadShows DEF Shows
  <2>2. Blank(e)
    BY <1>1, <1>2, <2>1, NoHeads
  <2> QED BY <2>2
<1>3. CASE s # Side(m)
  <2>1. s = Other(m)
    BY <1>1, <1>3
  <2>2. Shows(e, m)
    BY <2>1, ShowsStays
  <2> QED BY <2>2
<1> QED BY <1>2, <1>3

(* The first word of a block is written, which was erased. *)
LEMMA HeadAdded ==
    ASSUME IndexBlocks = 2, NEW w, DOMAIN w = 0..(index_cnt - 1),
           NEW n \in Nat, n % BlockWords = 0, Cleared(w, n),
           NEW e, e = ProgrammedIn(w, {SlotOf(n)}, n)
    PROVE  /\ Own(e, n)
           /\ ~IndexValid(w, Other(n)) => Shows(e, n)
           /\ \A m \in Nat : Shows(w, m) =>
                /\ First(m) # n
                /\ First(m) < n => Shows(e, n)
                /\ First(m) > n => Shows(e, m)
<1>1. /\ Side(n) \in {0, BlockWords} /\ Other(n) \in {0, BlockWords}
      /\ Other(n) # Side(n) /\ First(n) \in Nat /\ n = First(n) + (n % BlockWords)
      /\ BlockWords \in Nat \ {0, 1} /\ index_cnt = 2 * BlockWords
  BY SideFacts, TwoBlocks
<1>2. SlotOf(n) = Side(n)
  <2>1. SlotOf(n) = Side(n) + (n % BlockWords)
    BY WordPlace
  <2> QED BY <1>1, <2>1
<1>3. \A u \in 0..(index_cnt - 1) :
        e[u] = IF u = Side(n) THEN Program(w[u], n) ELSE w[u]
  BY <1>2 DEF ProgrammedIn
<1>4. \A j \in 0..(BlockWords - 1) :
        Side(n) + j \in 0..(index_cnt - 1) /\ w[Side(n) + j] = Erased
        /\ (Side(n) + j = Side(n) <=> j = 0)
  BY <1>1 DEF Cleared
<1>5. ASSUME NEW j \in 0..(BlockWords - 1)
      PROVE  e[Side(n) + j] = IF j <= n % BlockWords THEN First(n) + j ELSE Erased
  <2>1. CASE j = 0
    <3>1. e[Side(n) + j] = n
      BY <1>3, <1>4, <2>1 DEF Program
    <3> QED BY <1>1, <2>1, <3>1
  <2>2. CASE j # 0
    <3>1. Side(n) + j \in 0..(index_cnt - 1) /\ Side(n) + j # Side(n)
      BY <1>4, <2>2
    <3>2. e[Side(n) + j] = w[Side(n) + j]
      BY <1>3, <3>1
    <3>3. e[Side(n) + j] = Erased
      BY <1>4, <3>2
    <3>4. ~(j <= n % BlockWords)
      BY <2>2
    <3> QED BY <3>3, <3>4
  <2> QED BY <2>1, <2>2
<1>6. Own(e, n)
  BY <1>5 DEF Own
<1>7. e[Other(n)] = w[Other(n)] /\ First(n) = n
  <2>1. Other(n) \in 0..(index_cnt - 1) /\ Other(n) # Side(n)
    BY <1>1
  <2>2. e[Other(n)] = w[Other(n)]
    BY <1>3, <2>1
  <2>3. First(n) = n - 0
    BY DEF First
  <2> QED BY <2>2, <2>3
<1>8. (IndexValid(w, Other(n)) => w[Other(n)] < n) => Shows(e, n)
  BY <1>6, <1>7 DEF Shows, IndexValid
<1>9. ASSUME NEW m \in Nat, Shows(w, m)
      PROVE  /\ First(m) # n
             /\ First(m) < n => Shows(e, n)
             /\ First(m) > n => Shows(e, m)
  <2>1. /\ Side(m) \in {0, BlockWords} /\ Other(m) \in {0, BlockWords}
        /\ Other(m) # Side(m) /\ First(m) \in Nat
        /\ \A j \in 0..(BlockWords - 1) : (First(m) + j) % index_cnt = Side(m) + j
        /\ \A j \in 0..(BlockWords - 1) : (First(n) + j) % index_cnt = Side(n) + j
    BY SideFacts
  <2>2. w[Side(m)] = First(m) /\ IndexValid(w, Side(m))
    BY <1>9, HeadShows DEF Shows
  <2>3. w[Side(n)] = Erased
    <3>1. 0 \in 0..(BlockWords - 1) /\ Side(n) + 0 = Side(n)
      BY <1>1
    <3>2. w[Side(n) + 0] = Erased
      BY <1>4, <3>1
    <3> QED BY <3>1, <3>2
  <2>4. Side(m) = Other(n) /\ Other(m) = Side(n)
    <3>1. Side(m) # Side(n)
      BY <2>1, <2>2, <2>3, NoData
    <3> QED BY <1>1, <2>1, <3>1
  <2>5. First(m) # n
    <3>1. 0 \in 0..(BlockWords - 1)
      BY <1>1
    <3>2. (First(m) + 0) % index_cnt = Side(m) + 0
      BY <2>1, <3>1
    <3>3. (First(n) + 0) % index_cnt = Side(n) + 0
      BY <2>1, <3>1
    <3>4. First(m) = First(n) => Side(m) + 0 = Side(n) + 0
      BY <3>2, <3>3
    <3> QED BY <1>1, <1>7, <2>1, <2>4, <3>4
  <2>6. First(m) < n => Shows(e, n)
    BY <1>8, <2>2, <2>4
  <2>7. ASSUME First(m) > n PROVE Shows(e, m)
    <3>1. \A j \in 0..(BlockWords - 1) : e[Side(m) + j] = w[Side(m) + j]
      <4>1. ASSUME NEW j \in 0..(BlockWords - 1)
            PROVE  Side(m) + j \in 0..(index_cnt - 1) /\ Side(m) + j # Side(n)
        <5>1. /\ Side(m) \in {0, BlockWords} /\ Side(n) \in {0, BlockWords}
              /\ Side(m) # Side(n) /\ BlockWords \in Nat \ {0, 1}
              /\ index_cnt = 2 * BlockWords
          BY <1>1, <2>1, <2>4
        <5> QED BY <5>1
      <4> QED BY <1>3, <4>1
    <3>2. Own(e, m)
      BY <1>9, <3>1 DEF Shows, Own
    <3>3. e[Other(m)] = n
      <4>1. 0 \in 0..(BlockWords - 1) /\ Side(n) + 0 = Side(n)
        BY <1>1
      <4>2. Side(n) \in 0..(index_cnt - 1)
        BY <1>4, <4>1
      <4> QED BY <1>3, <2>3, <2>4, <4>2 DEF Program
    <3> QED BY <2>7, <3>2, <3>3 DEF Shows
  <2> QED BY <2>5, <2>6, <2>7
<1>10. ~IndexValid(w, Other(n)) => Shows(e, n)
  BY <1>8
<1> QED BY <1>6, <1>9, <1>10

(* Blocks of indices that are no more than a block apart. *)
LEMMA BlockApart ==
    ASSUME IndexBlocks = 2, NEW n \in Nat, NEW m \in Nat, n <= m,
           m <= n + BlockWords
    PROVE  /\ First(m) = First(n) => Side(m) = Side(n) /\ Other(m) = Other(n)
           /\ First(m) # First(n) => Side(m) = Other(n) /\ Other(m) = Side(n)
<1>1. /\ BlockWords \in Nat \ {0, 1} /\ index_cnt = 2 * BlockWords
      /\ index_cnt \in Nat \ {0}
  BY TwoBlocks
<1>2. /\ Side(n) \in {0, BlockWords} /\ First(n) \in Nat
      /\ n = First(n) + (n % BlockWords) /\ n % BlockWords \in 0..(BlockWords - 1)
      /\ \A j \in 0..(BlockWords - 1) : (First(n) + j) % index_cnt = Side(n) + j
  BY SideFacts
<1>3. /\ Side(m) \in {0, BlockWords} /\ First(m) \in Nat
      /\ m = First(m) + (m % BlockWords) /\ m % BlockWords \in 0..(BlockWords - 1)
      /\ \A j \in 0..(BlockWords - 1) : (First(m) + j) % index_cnt = Side(m) + j
  BY SideFacts
<1>4. 0 \in 0..(BlockWords - 1)
  BY <1>1
<1>5. First(n) % index_cnt = Side(n) /\ First(m) % index_cnt = Side(m)
  <2>1. (First(n) + 0) % index_cnt = Side(n) + 0
    BY <1>2, <1>4
  <2>2. (First(m) + 0) % index_cnt = Side(m) + 0
    BY <1>3, <1>4
  <2>3. First(n) + 0 = First(n) /\ First(m) + 0 = First(m)
        /\ Side(n) + 0 = Side(n) /\ Side(m) + 0 = Side(m)
    <3>1. BlockWords \in Nat
      BY <1>1
    <3>2. /\ First(n) \in Nat /\ First(m) \in Nat
          /\ Side(n) \in {0, BlockWords} /\ Side(m) \in {0, BlockWords}
      BY <1>2, <1>3
    <3> QED BY <3>1, <3>2
  <2> QED BY <2>1, <2>2, <2>3
<1>6. CASE First(m) = First(n)
  <2>1. Side(m) = Side(n)
    BY <1>5, <1>6
  <2> QED BY <1>6, <2>1 DEF Other
<1>7. CASE First(m) # First(n)
  <2>0. PICK a \in Nat, c \in Nat, x \in Nat, y \in Nat, K \in Nat \ {0, 1} :
          /\ a = First(n) /\ c = First(m) /\ x = n % BlockWords /\ y = m % BlockWords
          /\ K = BlockWords
    BY <1>1, <1>2, <1>3
  <2>1. n = a + x /\ m = c + y /\ x < K /\ y < K /\ a # c
    BY <1>2, <1>3, <1>7, <2>0
  <2>2. PICK q \in Int, p \in Int : a = K * q /\ c = K * p
    <3>1. /\ n \div K \in Int /\ n = K * (n \div K) + (n % K)
          /\ m \div K \in Int /\ m = K * (m \div K) + (m % K)
      BY <2>0, DivMod
    <3>2. PICK q \in Int, p \in Int : q = n \div K /\ p = m \div K
      BY <3>1
    <3>3. n = K * q + x /\ m = K * p + y
      BY <2>0, <3>1, <3>2
    <3>4. K * q \in Int /\ K * p \in Int
      OBVIOUS
    <3>5. a = K * q /\ c = K * p
      BY <2>1, <3>3, <3>4
    <3> QED BY <3>5
  <2>3. /\ K * (q - p) = a - c /\ K * (p - q) = c - a
    BY <2>2
  <2>4. a < c
    <3>1. p < q => K * (q - p) >= K
      OBVIOUS
    <3>2. p # q
      BY <2>1, <2>2
    <3>3. ~(p < q)
      BY <2>1, <2>3, <3>1
    <3>4. K * (p - q) >= K
      BY <3>2, <3>3
    <3> QED BY <2>3, <3>4
  <2>5. c < a + 2 * K
    <3>1. m <= n + K
      BY <2>0
    <3> QED BY <2>1, <3>1
  <2>6. a % index_cnt # c % index_cnt
    <3>1. a \in Int /\ c \in Int /\ a < c /\ c < a + index_cnt
      BY <1>1, <2>0, <2>4, <2>5
    <3> QED BY <1>1, <3>1, ModDistinct
  <2>7. Side(m) # Side(n)
    BY <1>5, <2>0, <2>6
  <2>8. Side(m) = BlockWords - Side(n) /\ BlockWords - Side(m) = Side(n)
    <3>1. /\ Side(m) \in {0, BlockWords} /\ Side(n) \in {0, BlockWords}
          /\ BlockWords \in Nat
      BY <1>1, <1>2, <1>3
    <3> QED BY <2>7, <3>1
  <2> QED BY <1>7, <2>8 DEF Other
<1> QED BY <1>6, <1>7

(* A word within a block is written. *)
LEMMA WordAdded ==
    ASSUME IndexBlocks = 2, NEW w, DOMAIN w = 0..(index_cnt - 1),
           NEW n \in Nat, n % BlockWords # 0, NEW m \in Nat, n - 1 <= m,
           m <= n + BlockWords, Shows(w, m),
           NEW e, e = ProgrammedIn(w, {SlotOf(n)}, n)
    PROVE  /\ Single(w) => Single(e)
           /\ IF m = n - 1 THEN Shows(e, n) ELSE n <= m /\ Shows(e, m)
<1>0. n \in Nat \ {0}
  <2>1. n # 0
    BY TwoBlocks, ModSmall
  <2> QED BY <2>1
<1>1. /\ Side(n) \in {0, BlockWords} /\ Other(n) \in {0, BlockWords}
      /\ Other(n) # Side(n) /\ First(n) \in Nat /\ n = First(n) + (n % BlockWords)
      /\ n % BlockWords \in 0..(BlockWords - 1)
      /\ BlockWords \in Nat \ {0, 1} /\ index_cnt = 2 * BlockWords
  BY SideFacts, TwoBlocks
<1> DEFINE j == n % BlockWords
<1>2. SlotOf(n) = Side(n) + j
  BY WordPlace
<1>3. \A u \in 0..(index_cnt - 1) :
        e[u] = IF u = Side(n) + j THEN Program(w[u], n) ELSE w[u]
  BY <1>2 DEF ProgrammedIn
<1>4. /\ e[0] = w[0] /\ e[BlockWords] = w[BlockWords]
  <2>1. j \in 1..(BlockWords - 1)
    BY <1>1
  <2> HIDE DEF j
  <2>2. /\ 0 \in 0..(index_cnt - 1) /\ BlockWords \in 0..(index_cnt - 1)
        /\ 0 # Side(n) + j /\ BlockWords # Side(n) + j
    BY <1>1, <2>1
  <2> QED BY <1>3, <2>2
<1>5. /\ \A s \in {0, BlockWords} : e[s] = w[s]
      /\ \A s \in {0, BlockWords} : IndexValid(e, s) <=> IndexValid(w, s)
  BY <1>4 DEF IndexValid
<1>6. Single(w) => Single(e)
  BY <1>5 DEF Single
<1>7. \A i \in 0..(BlockWords - 1) :
         /\ Side(n) + i \in 0..(index_cnt - 1)
         /\ (Side(n) + i = Side(n) + j <=> i = j)
  BY <1>1
<1>8. CASE m = n - 1
  <2>1. Side(m) = Side(n) /\ First(m) = First(n) /\ m % BlockWords = j - 1
    BY <1>0, <1>8, SideBack
  <2>2. \A i \in 0..(BlockWords - 1) :
          w[Side(n) + i] = IF i <= j - 1 THEN First(n) + i ELSE Erased
    BY <2>1 DEF Shows, Own
  <2>3. ASSUME NEW i \in 0..(BlockWords - 1)
        PROVE  e[Side(n) + i] = IF i <= j THEN First(n) + i ELSE Erased
    <3>1. CASE i = j
      <4>1. w[Side(n) + i] = Erased
        BY <1>1, <2>2, <3>1
      <4>2. e[Side(n) + i] = n
        BY <1>3, <1>7, <3>1, <4>1 DEF Program
      <4> QED BY <1>1, <3>1, <4>2
    <3>2. CASE i # j
      <4>1. e[Side(n) + i] = w[Side(n) + i]
        BY <1>3, <1>7, <3>2
      <4>2. i <= j - 1 <=> i <= j
        BY <1>1, <3>2
      <4> QED BY <2>2, <4>1, <4>2
    <3> QED BY <3>1, <3>2
  <2>4. Own(e, n)
    BY <2>3 DEF Own
  <2>5. Other(m) = Other(n)
    BY <2>1 DEF Other
  <2>6. Shows(e, n)
    BY <1>1, <1>5, <2>1, <2>4, <2>5 DEF Shows
  <2> QED BY <1>6, <1>8, <2>6
<1>9. CASE m # n - 1
  <2>0. n <= m
    BY <1>0, <1>9
  <2>1. /\ Side(m) \in {0, BlockWords} /\ Other(m) \in {0, BlockWords}
        /\ Other(m) # Side(m) /\ m = First(m) + (m % BlockWords)
        /\ m % BlockWords \in 0..(BlockWords - 1) /\ First(m) \in Nat
    BY SideFacts
  <2>2. /\ First(m) = First(n) => Side(m) = Side(n) /\ Other(m) = Other(n)
        /\ First(m) # First(n) => Side(m) = Other(n) /\ Other(m) = Side(n)
    BY <2>0, BlockApart
  <2>3. \A i \in 0..(BlockWords - 1) :
          w[Side(m) + i] = IF i <= m % BlockWords THEN First(m) + i ELSE Erased
    BY DEF Shows, Own
  <2>4. CASE First(m) = First(n)
    <3>1. w[Side(n) + j] = n
      <4>1. j \in 0..(BlockWords - 1) /\ j <= m % BlockWords
        BY <1>1, <2>0, <2>1, <2>4
      <4>2. w[Side(m) + j] = First(m) + j
        BY <2>3, <4>1
      <4> QED BY <1>1, <2>2, <2>4, <4>2
    <3>2. \A u \in 0..(index_cnt - 1) : e[u] = w[u]
      BY <1>3, <3>1 DEF Program
    <3>3. SpoilsWords(w, e, Words(Other(m)))
      BY <3>2 DEF SpoilsWords
    <3>4. Shows(e, m)
      BY <3>3, ShowsStays
    <3> QED BY <1>6, <1>9, <2>0, <3>4
  <2>5. CASE First(m) # First(n)
    <3>1. \A i \in 0..(BlockWords - 1) : e[Side(m) + i] = w[Side(m) + i]
      <4>1. j \in 0..(BlockWords - 1) /\ Side(m) = Other(n)
        BY <1>1, <2>2, <2>5
      <4> HIDE DEF j
      <4>2. \A i \in 0..(BlockWords - 1) :
              Side(m) + i \in 0..(index_cnt - 1) /\ Side(m) + i # Side(n) + j
        BY <1>1, <4>1
      <4> QED BY <1>3, <4>2
    <3>2. Own(e, m)
      BY <2>3, <3>1 DEF Own
    <3>3. Shows(e, m)
      BY <1>5, <2>1, <3>2 DEF Shows
    <3> QED BY <1>6, <1>9, <2>0, <3>3
  <2> QED BY <2>4, <2>5
<1> QED BY <1>8, <1>9

(* What the index words show lies between lo and hi. *)
Showing(w, lo, hi) == \E m \in Nat : lo <= m /\ m <= hi /\ Shows(w, m)
(* From index m the search finds what is to be written again. *)
Found(d, k, er, f, m) ==
    m = 0 \/ \E r \in Nat, b \in Nat :
               r <= m + 1 /\ m <= b /\ Front(d, k, er, f, r, r, b)
(* While the power is off, between saves, *)
OffFront(w, d, k, er, f) ==
    Blank(w) \/ \E m \in Nat : Shows(w, m) /\ Found(d, k, er, f, m)
IdleFront(w, d, k, er, f, n) ==
    /\ Single(w)
    /\ n = 0 => OffFront(w, d, k, er, f)
    /\ n >= 1 => \E r \in Nat, b \in Nat :
         /\ Showing(w, n - 1, b) /\ r <= n /\ n <= b + 1
         /\ Front(d, k, er, f, n, r, b)
(* before index n is written into an empty block, *)
BlockFront(w, d, k, er, f, n) ==
    /\ Cleared(w, n)
    /\ n = 0 => OffFront(w, d, k, er, f)
    /\ n >= 1 => \E r \in Nat, b \in Nat :
         /\ Blank(w) \/ Showing(w, n - 1, b)
         /\ r <= n /\ n <= b + 1
         /\ Front(d, k, er, f, n, r, b)
(* after that, and while the data of record n is written. *)
PrevFront(w, d, k, er, f, n) ==
    /\ Own(w, n)
    /\ n = 0 => Shows(w, 0) \/ OffFront(w, d, k, er, f)
    /\ n >= 1 => \E r \in Nat, b \in Nat :
         Showing(w, n, b) /\ Begun(d, k, er, f, n, r, b)
DataFront(w, d, k, er, f, n) ==
    /\ Single(w)
    /\ n = 0 => Shows(w, 0)
    /\ n >= 1 => \E r \in Nat, b \in Nat :
         Showing(w, n, b) /\ Begun(d, k, er, f, n, r, b)

LEMMA FoundMore ==
    ASSUME NEW d, NEW k \in [0..MaxSaves -> Nat], NEW er \in Nat, NEW f \in Nat,
           NEW g \in Nat, f <= g, NEW es \in Nat, er <= es,
           NEW m \in Nat, Found(d, k, er, f, m)
    PROVE  Found(d, k, es, g, m)
<1>1. CASE m = 0
  BY <1>1 DEF Found
<1>2. CASE m # 0
  <2>1. PICK r \in Nat, b \in Nat : r <= m + 1 /\ m <= b /\ Front(d, k, er, f, r, r, b)
    BY <1>2 DEF Found
  <2>2. Front(d, k, es, g, r, r, b)
    BY <2>1, FrontMore
  <2> QED BY <2>1, <2>2 DEF Found
<1> QED BY <1>1, <1>2

LEMMA OffMore ==
    ASSUME NEW w, NEW d, NEW k \in [0..MaxSaves -> Nat], NEW er \in Nat,
           NEW f \in Nat, NEW g \in Nat, f <= g, NEW es \in Nat, er <= es,
           OffFront(w, d, k, er, f)
    PROVE  OffFront(w, d, k, es, g)
<1>1. ASSUME NEW m \in Nat, Shows(w, m), Found(d, k, er, f, m)
      PROVE  OffFront(w, d, k, es, g)
  <2>1. Found(d, k, es, g, m)
    BY <1>1, FoundMore
  <2> QED BY <1>1, <2>1 DEF OffFront
<1> QED BY <1>1 DEF OffFront

(* What is shown is found. *)
LEMMA ShowingOff ==
    ASSUME WholeRecords,
           NEW w, NEW d, NEW k, NEW er, NEW f, NEW n \in Nat, NEW r \in Nat,
           NEW b \in Nat, r <= n, n <= b + 1, Front(d, k, er, f, n, r, b),
           NEW m \in Nat, n <= m + 1, m <= b, Shows(w, m)
    PROVE  OffFront(w, d, k, er, f)
<1>1. Front(d, k, er, f, r, r, b)
  BY FrontBack
<1>2. r <= m + 1
  OBVIOUS
<1>3. Found(d, k, er, f, m)
  BY <1>1, <1>2 DEF Found
<1> QED BY <1>3 DEF OffFront

(* Power fails between saves. *)
LEMMA IdleOffFront ==
    ASSUME WholeRecords,
           NEW w, NEW d, NEW k, NEW er, NEW f, NEW n \in Nat,
           IdleFront(w, d, k, er, f, n)
    PROVE  OffFront(w, d, k, er, f)
<1>1. CASE n = 0
  BY <1>1 DEF IdleFront
<1>2. CASE n # 0
  <2>1. n >= 1
    BY <1>2
  <2>2. PICK r \in Nat, b \in Nat :
          /\ Showing(w, n - 1, b) /\ r <= n /\ n <= b + 1
          /\ Front(d, k, er, f, n, r, b)
    BY <2>1 DEF IdleFront
  <2>3. PICK m \in Nat : n - 1 <= m /\ m <= b /\ Shows(w, m)
    BY <2>2 DEF Showing
  <2>4. n <= m + 1
    BY <2>3
  <2> QED BY <2>2, <2>3, <2>4, ShowingOff
<1> QED BY <1>1, <1>2

(* A block of index words is erased, or power fails in that. *)
Beheads(w, e, s) == SpoilsWords(w, e, Words(s)) /\ ~IndexValid(e, s)

LEMMA OffSpoiled ==
    ASSUME IndexBlocks = 2, NEW w, Single(w), NEW s \in {0, BlockWords},
           NEW e, Beheads(w, e, s), NEW d, NEW k, NEW er, NEW f,
           OffFront(w, d, k, er, f)
    PROVE  OffFront(e, d, k, er, f)
<1>0. SpoilsWords(w, e, Words(s)) /\ ~IndexValid(e, s)
  BY DEF Beheads
<1>1. CASE Blank(w)
  <2>1. Blank(e)
    BY <1>0, <1>1, BlankStays
  <2> QED BY <2>1 DEF OffFront
<1>2. ASSUME NEW m \in Nat, Shows(w, m), Found(d, k, er, f, m)
      PROVE  OffFront(e, d, k, er, f)
  <2>1. Blank(e) \/ Shows(e, m)
    BY <1>0, <1>2, HeadLost
  <2> QED BY <1>2, <2>1 DEF OffFront
<1> QED BY <1>1, <1>2 DEF OffFront

(* The search goes back over all that is to be written again. *)
LEMMA SearchFront ==
    ASSUME NEW d, NEW k, NEW er, NEW f \in Nat, f < LookBack,
           NEW m \in Nat, NEW r \in Nat, NEW b \in Nat, r <= m + 1, m <= b,
           Front(d, k, er, f, r, r, b)
    PROVE  __bbox_data_search_by_index(d, m) = IF r >= 2 THEN r ELSE 0
<1> DEFINE low == IF m > LookBack THEN m - LookBack ELSE 0
           found == {i \in (low + 1)..m : Sound(d, i)}
           n == __bbox_data_search_by_index(d, m)
<1>1. n = IF found = {} THEN low ELSE Max(found) + 1
  BY DEF __bbox_data_search_by_index
<1>2. /\ 1 <= r /\ (b + 1) - r <= f
      /\ r = 1 \/ Sound(d, r - 1)
      /\ \A i \in r..b : ~Sound(d, i)
  BY FrontShort DEF Front
<1>3. LookBack \in Nat
  BY StoreSizes
<1>4. /\ low \in Nat
      /\ r >= 2 => r - 1 \in (low + 1)..m
      /\ r = 1 => low = 0
  <2>1. /\ LookBack \in Nat /\ 1 <= r /\ (b + 1) - r <= f
    BY <1>2, <1>3
  <2> QED BY <2>1
<1> HIDE DEF low
<1>5. \A i \in found : i \in Nat /\ i <= m /\ i < r
  <2> SUFFICES ASSUME NEW i \in (low + 1)..m, Sound(d, i)
               PROVE  i \in Nat /\ i <= m /\ i < r
    OBVIOUS
  <2>1. i \in Nat /\ i <= m
    BY <1>4
  <2>2. ~(i \in r..b)
    BY <1>2
  <2> QED BY <2>1, <2>2
<1>6. CASE r = 1
  <2>1. found = {}
    <3> SUFFICES ASSUME NEW i \in found PROVE FALSE
      OBVIOUS
    <3>1. i \in (low + 1)..m
      OBVIOUS
    <3>2. i >= 1
      BY <1>4, <3>1
    <3>3. i < r /\ i \in Nat
      BY <1>5
    <3> HIDE DEF found
    <3> QED BY <1>6, <3>2, <3>3
  <2>2. n = 0
    BY <1>1, <1>4, <1>6, <2>1
  <2> QED BY <1>6, <2>2
<1>7. CASE r # 1
  <2>1. r >= 2 /\ Sound(d, r - 1)
    BY <1>2, <1>7
  <2>2. r - 1 \in found
    BY <1>4, <2>1
  <2>3. found \in SUBSET Nat /\ \A i \in found : i <= m
    BY <1>5
  <2> HIDE DEF found
  <2>4. Max(found) \in found /\ \A i \in found : i <= Max(found)
    BY <2>2, <2>3, MaxNat
  <2>5. Max(found) \in Nat /\ Max(found) < r /\ r - 1 <= Max(found)
    BY <1>5, <2>2, <2>4
  <2>6. Max(found) + 1 = r
    BY <2>5
  <2>7. n = r
    BY <1>1, <2>2, <2>6
  <2> QED BY <2>1, <2>7
<1> QED BY <1>6, <1>7

LEMMA SearchNothing ==
    ASSUME NEW d
    PROVE  __bbox_data_search_by_index(d, 0) = 0
<1> DEFINE found == {i \in (0 + 1)..0 : Sound(d, i)}
<1>1. ~(0 > LookBack)
  BY StoreSizes
<1>2. (0 + 1)..0 = {}
  OBVIOUS
<1>3. found = {}
  BY <1>2
<1> QED BY <1>1, <1>3 DEF __bbox_data_search_by_index

(* A restart. *)
LEMMA RestartFront ==
    ASSUME IndexBlocks = 2, NEW w, DOMAIN w = 0..(index_cnt - 1), NEW d,
           NEW k, NEW er, NEW f \in Nat, f < LookBack, OffFront(w, d, k, er, f),
           NEW e, e = ErasedIn(w, SpareWords(w)),
           NEW n, n = __bbox_data_search_by_index(d, __bbox_max_index_calc(w))
    PROVE  n \in Nat /\ IdleFront(e, d, k, er, f, n)
<1>1. ASSUME n = 0, Single(e), OffFront(e, d, k, er, f)
      PROVE  n \in Nat /\ IdleFront(e, d, k, er, f, n)
  <2>1. ~(n >= 1)
    BY <1>1
  <2> QED BY <1>1, <2>1 DEF IdleFront
<1>2. CASE Blank(w)
  <2>1. n = 0
    BY <1>2, NothingFound, SearchNothing
  <2>2. Blank(e) /\ Single(e)
    BY <1>2, EraseSpare
  <2> QED BY <1>1, <2>1, <2>2 DEF OffFront
<1>3. ASSUME NEW m \in Nat, Shows(w, m), Found(d, k, er, f, m)
      PROVE  n \in Nat /\ IdleFront(e, d, k, er, f, n)
  <2>1. n = __bbox_data_search_by_index(d, m)
    BY <1>3, IndexFound
  <2>2. Shows(e, m) /\ Single(e)
    BY <1>3, EraseSpare
  <2>3. OffFront(e, d, k, er, f)
    BY <1>3, <2>2 DEF OffFront
  <2>4. CASE m = 0
    <3>1. n = 0
      BY <2>1, <2>4, SearchNothing
    <3> QED BY <1>1, <2>2, <2>3, <3>1
  <2>5. CASE m # 0
    <3>1. PICK r \in Nat, b \in Nat :
            r <= m + 1 /\ m <= b /\ Front(d, k, er, f, r, r, b)
      BY <1>3, <2>5 DEF Found
    <3>2. n = IF r >= 2 THEN r ELSE 0
      BY <2>1, <3>1, SearchFront
    <3>3. CASE r >= 2
      <4>1. n = r
        BY <3>2, <3>3
      <4>2. r - 1 <= m /\ r <= b + 1 /\ r <= r /\ r # 0
        BY <3>1, <3>3
      <4>3. Showing(e, r - 1, b)
        BY <2>2, <3>1, <4>2 DEF Showing
      <4>4. IdleFront(e, d, k, er, f, r)
        BY <2>2, <3>1, <4>2, <4>3 DEF IdleFront
      <4> QED BY <4>1, <4>4
    <3>4. CASE ~(r >= 2)
      BY <1>1, <2>2, <2>3, <3>2, <3>4
    <3> QED BY <3>3, <3>4
  <2> QED BY <2>4, <2>5
<1> QED BY <1>2, <1>3 DEF OffFront

(* Power fails while the spare block is erased. *)
LEMMA RestartCut ==
    ASSUME IndexBlocks = 2, NEW w, DOMAIN w = 0..(index_cnt - 1), NEW d,
           NEW k, NEW er, NEW f, OffFront(w, d, k, er, f), NEW b \in SpareBlocks(w),
           NEW D, D = UNION {WordBlock(c * BlockWords) :
                               c \in {x \in SpareBlocks(w) : x < b}},
           NEW e \in Torn(ErasedIn(w, D), WordBlock(b * BlockWords))
    PROVE  OffFront(e, d, k, er, f)
<1> DEFINE T == D \union WordBlock(b * BlockWords)
<1>1. SpoilsWords(w, e, T)
  <2>1. PICK c \in {Erased, Junk} : e = [u \in DOMAIN ErasedIn(w, D) |->
          IF u \in WordBlock(b * BlockWords) THEN c ELSE ErasedIn(w, D)[u]]
    BY DEF Torn
  <2>2. DOMAIN ErasedIn(w, D) = 0..(index_cnt - 1)
    BY DEF ErasedIn
  <2>3. \A u \in 0..(index_cnt - 1) :
          ErasedIn(w, D)[u] = IF u \in D THEN Erased ELSE w[u]
    BY DEF ErasedIn
  <2> QED BY <2>1, <2>2, <2>3 DEF SpoilsWords
<1>2. CASE Blank(w)
  <2>1. Blank(e)
    BY <1>1, <1>2, BlankStays
  <2> QED BY <2>1 DEF OffFront
<1>3. ASSUME NEW m \in Nat, Shows(w, m), Found(d, k, er, f, m)
      PROVE  OffFront(e, d, k, er, f)
  <2>1. \A c \in SpareBlocks(w) :
          WordBlock(c * BlockWords) = Words(Other(m)) /\ c = 1 - BlockIndex(w)
    BY <1>3, SpareFound
  <2>2. T \subseteq Words(Other(m))
    BY <2>1
  <2>3. SpoilsWords(w, e, Words(Other(m)))
    BY <1>1, <2>2 DEF SpoilsWords
  <2>4. Shows(e, m)
    BY <1>3, <2>3, ShowsStays
  <2> QED BY <1>3, <2>4 DEF OffFront
<1> QED BY <1>2, <1>3 DEF OffFront

(* The index of a save, when it begins a block: the erase before it, *)
LEMMA BlockFrontErased ==
    ASSUME IndexBlocks = 2, NEW w, DOMAIN w = 0..(index_cnt - 1), NEW d,
           NEW k, NEW er, NEW f, NEW n \in Nat, IdleFront(w, d, k, er, f, n),
           NEW e, e = ErasedIn(w, Words(Side(n)))
    PROVE  BlockFront(e, d, k, er, f, n)
<1>1. Side(n) \in {0, BlockWords}
  BY SideFacts
<1>2. /\ SpoilsWords(w, e, Words(Side(n))) /\ ~IndexValid(e, Side(n))
      /\ \A j \in 0..(BlockWords - 1) : e[Side(n) + j] = Erased
  BY <1>1, EraseWords
<1>3. Cleared(e, n)
  BY <1>2 DEF Cleared
<1>4. Single(w)
  BY DEF IdleFront
<1>5. ASSUME n = 0 PROVE OffFront(e, d, k, er, f)
  <2>1. OffFront(w, d, k, er, f)
    BY <1>5 DEF IdleFront
  <2>2. Beheads(w, e, Side(n))
    BY <1>2 DEF Beheads
  <2> QED BY <1>1, <1>4, <2>1, <2>2, OffSpoiled
<1>6. ASSUME n >= 1
      PROVE  \E r \in Nat, b \in Nat :
                /\ Blank(e) \/ Showing(e, n - 1, b)
                /\ r <= n /\ n <= b + 1
                /\ Front(d, k, er, f, n, r, b)
  <2>1. PICK r \in Nat, b \in Nat :
          /\ Showing(w, n - 1, b) /\ r <= n /\ n <= b + 1
          /\ Front(d, k, er, f, n, r, b)
    BY <1>6 DEF IdleFront
  <2>2. PICK m \in Nat : n - 1 <= m /\ m <= b /\ Shows(w, m)
    BY <2>1 DEF Showing
  <2>3. Blank(e) \/ Shows(e, m)
    BY <1>1, <1>2, <1>4, <2>2, HeadLost
  <2>4. Blank(e) \/ Showing(e, n - 1, b)
    BY <2>2, <2>3 DEF Showing
  <2> QED BY <2>1, <2>4
<1> QED BY <1>3, <1>5, <1>6 DEF BlockFront

(* power failing after that, *)
LEMMA BlockFrontOff ==
    ASSUME WholeRecords,
           NEW w, NEW d, NEW k, NEW er, NEW f, NEW n \in Nat,
           BlockFront(w, d, k, er, f, n)
    PROVE  OffFront(w, d, k, er, f)
<1>1. CASE n = 0
  BY <1>1 DEF BlockFront
<1>2. CASE n # 0
  <2>1. n >= 1
    BY <1>2
  <2>2. PICK r \in Nat, b \in Nat :
          /\ Blank(w) \/ Showing(w, n - 1, b)
          /\ r <= n /\ n <= b + 1
          /\ Front(d, k, er, f, n, r, b)
    BY <2>1 DEF BlockFront
  <2>3. CASE Blank(w)
    BY <2>3 DEF OffFront
  <2>4. CASE Showing(w, n - 1, b)
    <3>1. PICK m \in Nat : n - 1 <= m /\ m <= b /\ Shows(w, m)
      BY <2>4 DEF Showing
    <3>2. n <= m + 1
      BY <3>1
    <3> QED BY <2>2, <3>1, <3>2, ShowingOff
  <2> QED BY <2>2, <2>3, <2>4
<1> QED BY <1>1, <1>2

(* and the word. *)
LEMMA HeadFrontWritten ==
    ASSUME WholeRecords,
           IndexBlocks = 2, NEW w, DOMAIN w = 0..(index_cnt - 1), NEW d,
           NEW k \in [0..MaxSaves -> Nat], NEW er \in Nat, NEW f \in Nat,
           NEW n \in Nat, n % BlockWords = 0, BlockFront(w, d, k, er, f, n),
           NEW e, e = ProgrammedIn(w, {SlotOf(n)}, n)
    PROVE  PrevFront(e, d, k, er, f, n)
<1>1. /\ Own(e, n)
      /\ ~IndexValid(w, Other(n)) => Shows(e, n)
      /\ \A m \in Nat : Shows(w, m) =>
           /\ First(m) # n
           /\ First(m) < n => Shows(e, n)
           /\ First(m) > n => Shows(e, m)
  <2>1. Cleared(w, n)
    BY DEF BlockFront
  <2> QED BY <2>1, HeadAdded
<1>2. Blank(w) => Shows(e, n)
  <2>1. Other(n) \in {0, BlockWords}
    BY SideFacts
  <2> QED BY <1>1, <2>1 DEF Blank
<1>3. ASSUME NEW m \in Nat, Shows(w, m)
      PROVE  Shows(e, n) \/ (m > n /\ Shows(e, m))
  <2>1. /\ First(m) \in Nat /\ m = First(m) + (m % BlockWords)
        /\ m % BlockWords \in 0..(BlockWords - 1)
    BY SideFacts
  <2>2. m >= First(m)
    <3>1. PICK a \in Nat, x \in Nat : a = First(m) /\ x = m % BlockWords
      BY <2>1
    <3>2. m = a + x
      BY <2>1, <3>1
    <3> QED BY <3>1, <3>2
  <2>3. First(m) # n /\ (First(m) < n => Shows(e, n)) /\ (First(m) > n => Shows(e, m))
    BY <1>1, <1>3
  <2>4. First(m) \in Nat
    BY <2>1
  <2> QED BY <2>2, <2>3, <2>4
<1>4. ASSUME n = 0 PROVE Shows(e, 0) \/ OffFront(e, d, k, er, f)
  <2>1. OffFront(w, d, k, er, f)
    BY <1>4 DEF BlockFront
  <2>2. CASE Blank(w)
    BY <1>2, <1>4, <2>2
  <2>3. ASSUME NEW m \in Nat, Shows(w, m), Found(d, k, er, f, m)
        PROVE  Shows(e, 0) \/ OffFront(e, d, k, er, f)
    <3>1. Shows(e, n) \/ Shows(e, m)
      BY <1>3, <2>3
    <3> QED BY <1>4, <2>3, <3>1 DEF OffFront
  <2> QED BY <2>1, <2>2, <2>3 DEF OffFront
<1>5. ASSUME n >= 1
      PROVE  \E r \in Nat, b \in Nat :
                Showing(e, n, b) /\ Begun(d, k, er, f, n, r, b)
  <2>1. PICK r \in Nat, b \in Nat :
          /\ Blank(w) \/ Showing(w, n - 1, b)
          /\ r <= n /\ n <= b + 1
          /\ Front(d, k, er, f, n, r, b)
    BY <1>5 DEF BlockFront
  <2>2. PICK c \in Nat : b <= c /\ n <= c /\ Begun(d, k, er, f, n, r, c)
    BY <2>1, FrontBegun
  <2>3. Shows(e, n) => Showing(e, n, c)
    BY <2>2 DEF Showing
  <2>4. CASE Blank(w)
    BY <1>2, <2>2, <2>3, <2>4
  <2>5. CASE Showing(w, n - 1, b)
    <3>1. PICK m \in Nat : n - 1 <= m /\ m <= b /\ Shows(w, m)
      BY <2>5 DEF Showing
    <3>2. Shows(e, n) \/ (m > n /\ Shows(e, m))
      BY <1>3, <3>1
    <3>3. m > n => n <= m /\ m <= c
      BY <2>2, <3>1
    <3>4. m > n /\ Shows(e, m) => Showing(e, n, c)
      BY <3>3 DEF Showing
    <3> QED BY <2>2, <2>3, <3>2, <3>4
  <2> QED BY <2>1, <2>4, <2>5
<1> QED BY <1>1, <1>4, <1>5 DEF PrevFront

(* The index of a save within a block. *)
LEMMA WordFrontWritten ==
    ASSUME WholeRecords,
           IndexBlocks = 2, Roomy, NEW w, DOMAIN w = 0..(index_cnt - 1), NEW d,
           NEW k \in [0..MaxSaves -> Nat], NEW er \in Nat, NEW f \in Nat,
           f < LookBack, NEW n \in Nat, n % BlockWords # 0,
           IdleFront(w, d, k, er, f, n),
           NEW e, e = ProgrammedIn(w, {SlotOf(n)}, n)
    PROVE  DataFront(e, d, k, er, f, n)
<1>1. n # 0 /\ n >= 1
  <2>1. n # 0
    BY TwoBlocks, ModSmall
  <2> QED BY <2>1
<1>2. PICK r \in Nat, b \in Nat :
        /\ Showing(w, n - 1, b) /\ r <= n /\ n <= b + 1
        /\ Front(d, k, er, f, n, r, b)
  BY <1>1 DEF IdleFront
<1>3. PICK m \in Nat : n - 1 <= m /\ m <= b /\ Shows(w, m)
  BY <1>2 DEF Showing
<1>4. m <= n + BlockWords
  <2>1. (b + 1) - r <= f
    BY <1>2, FrontShort
  <2>2. BlockWords \in Nat /\ LookBack \in Nat
    BY StoreSizes
  <2>3. LookBack <= BlockWords + 2
    BY DEF Roomy
  <2> QED BY <1>2, <1>3, <2>1, <2>2, <2>3
<1>5. /\ Single(w) => Single(e)
      /\ IF m = n - 1 THEN Shows(e, n) ELSE n <= m /\ Shows(e, m)
  BY <1>3, <1>4, WordAdded
<1>6. Single(e)
  BY <1>5 DEF IdleFront
<1>7. PICK c \in Nat : b <= c /\ n <= c /\ Begun(d, k, er, f, n, r, c)
  BY <1>2, FrontBegun
<1>8. Showing(e, n, c)
  <2>1. m <= c
    BY <1>3, <1>7
  <2> QED BY <1>5, <1>7, <2>1 DEF Showing
<1> QED BY <1>1, <1>6, <1>7, <1>8 DEF DataFront

(* The erase of the block before, *)
LEMMA PrevFrontErased ==
    ASSUME IndexBlocks = 2, NEW w, DOMAIN w = 0..(index_cnt - 1), NEW d,
           NEW k, NEW er, NEW f, NEW n \in Nat, PrevFront(w, d, k, er, f, n),
           NEW e, e = ErasedIn(w, Words(Other(n)))
    PROVE  DataFront(e, d, k, er, f, n)
<1>1. Shows(e, n) /\ Single(e)
  <2>1. Own(w, n)
    BY DEF PrevFront
  <2> QED BY <2>1, BeforeErased
<1>2. ASSUME n >= 1
      PROVE  \E r \in Nat, b \in Nat :
                Showing(e, n, b) /\ Begun(d, k, er, f, n, r, b)
  <2>1. PICK r \in Nat, b \in Nat : Begun(d, k, er, f, n, r, b)
    BY <1>2 DEF PrevFront
  <2>2. n <= b
    BY <2>1 DEF Begun
  <2>3. Showing(e, n, b)
    BY <1>1, <2>2 DEF Showing
  <2> QED BY <2>1, <2>3
<1> QED BY <1>1, <1>2 DEF DataFront

(* and power failing before or in it. *)
LEMMA PrevFrontCut ==
    ASSUME WholeRecords,
           IndexBlocks = 2, NEW w, DOMAIN w = 0..(index_cnt - 1), NEW d,
           NEW k \in [0..MaxSaves -> Nat], NEW er \in Nat, NEW f \in Nat,
           NEW n \in Nat, PrevFront(w, d, k, er, f, n),
           NEW e \in {w} \union Torn(w, Words(Other(n)))
    PROVE  OffFront(e, d, k, er, f + 1)
<1>0. f + 1 \in Nat /\ f <= f + 1 /\ er <= er
  OBVIOUS
<1>1. CASE e = w
  <2>1. CASE n = 0
    <3>1. Shows(w, 0) \/ OffFront(w, d, k, er, f)
      BY <2>1 DEF PrevFront
    <3>2. Shows(w, 0) => OffFront(w, d, k, er, f + 1)
      BY DEF OffFront, Found
    <3>3. OffFront(w, d, k, er, f) => OffFront(w, d, k, er, f + 1)
      BY <1>0, OffMore
    <3> QED BY <1>1, <3>1, <3>2, <3>3
  <2>2. CASE n # 0
    <3>1. n >= 1
      BY <2>2
    <3>2. PICK r \in Nat, b \in Nat :
            Showing(w, n, b) /\ Begun(d, k, er, f, n, r, b)
      BY <3>1 DEF PrevFront
    <3>3. PICK m \in Nat : n <= m /\ m <= b /\ Shows(w, m)
      BY <3>2 DEF Showing
    <3>4. r <= n /\ n <= b /\ Front(d, k, er, f + 1, n, r, b)
      BY <3>2 DEF Begun
    <3>5. n <= b + 1 /\ n <= m + 1
      BY <3>3, <3>4
    <3> QED BY <1>1, <3>3, <3>4, <3>5, ShowingOff
  <2> QED BY <2>1, <2>2
<1>2. CASE e \in Torn(w, Words(Other(n)))
  <2>1. Other(n) \in {0, BlockWords}
    BY SideFacts
  <2>2. SpoilsWords(w, e, Words(Other(n))) /\ ~IndexValid(e, Other(n))
    BY <1>2, <2>1, TornWords
  <2>3. Own(e, n)
    BY <2>2, ShowsStays DEF PrevFront
  <2>4. Shows(e, n)
    BY <2>2, <2>3 DEF Shows
  <2>5. CASE n = 0
    BY <2>4, <2>5 DEF OffFront, Found
  <2>6. CASE n # 0
    <3>1. n >= 1
      BY <2>6
    <3>2. PICK r \in Nat, b \in Nat : Begun(d, k, er, f, n, r, b)
      BY <3>1 DEF PrevFront
    <3>3. r <= n /\ n <= b /\ Front(d, k, er, f + 1, n, r, b)
      BY <3>2 DEF Begun
    <3>4. n <= b + 1 /\ n <= n + 1
      BY <3>3
    <3> QED BY <2>4, <3>3, <3>4, ShowingOff
  <2> QED BY <2>5, <2>6
<1> QED BY <1>1, <1>2

(* A sector is erased. *)
LEMMA DataFrontTouched ==
    ASSUME WholeRecords,
           Roomy, NEW n \in Nat, NEW T, Touches(n, T), NEW d, NEW e,
           Spoils(d, e, T), Clean(d, n) => Clean(e, n), NEW w,
           NEW k \in [0..MaxSaves -> Nat], NEW er, NEW f \in Nat, f < LookBack,
           DataFront(w, d, k, er, f, n)
    PROVE  DataFront(w, e, k, er, f, n)
<1>1. ASSUME n >= 1
      PROVE  \E r \in Nat, b \in Nat :
                Showing(w, n, b) /\ Begun(e, k, er, f, n, r, b)
  <2>1. PICK r \in Nat, b \in Nat :
          Showing(w, n, b) /\ Begun(d, k, er, f, n, r, b)
    BY <1>1 DEF DataFront
  <2>2. Begun(e, k, er, f, n, r, b)
    BY <2>1, BegunTouched
  <2> QED BY <2>1, <2>2
<1> QED BY <1>1 DEF DataFront

(* Power fails while the data area is changed. *)
LEMMA DataFrontCut ==
    ASSUME WholeRecords,
           Roomy, NEW n \in Nat, NEW T, Touches(n, T), NEW d, NEW e,
           Spoils(d, e, T), NEW w,
           NEW k \in [0..MaxSaves -> Nat], NEW er, NEW f \in Nat, f < LookBack,
           DataFront(w, d, k, er, f, n)
    PROVE  OffFront(w, e, k, er, f + 1)
<1>1. CASE n = 0
  BY <1>1 DEF DataFront, OffFront, Found
<1>2. CASE n # 0
  <2>1. n >= 1
    BY <1>2
  <2>2. PICK r \in Nat, b \in Nat :
          Showing(w, n, b) /\ Begun(d, k, er, f, n, r, b)
    BY <2>1 DEF DataFront
  <2>3. Front(e, k, er, f + 1, r, r, b)
    BY <2>2, BegunCut
  <2>4. PICK m \in Nat : n <= m /\ m <= b /\ Shows(w, m)
    BY <2>2 DEF Showing
  <2>5. r <= m + 1
    BY <2>2, <2>4 DEF Begun
  <2>6. Found(e, k, er, f + 1, m)
    BY <2>3, <2>4, <2>5 DEF Found
  <2> QED BY <2>4, <2>6 DEF OffFront
<1> QED BY <1>1, <1>2

(* The record is written. *)
LEMMA RecordWritten ==
    ASSUME WholeRecords,
           Roomy, NEW n \in 0..MaxSaves, NEW d, DOMAIN d = 0..(data_size - 1),
           NEW s, [idx |-> n, id |-> s] \in Records,
           NEW e, e = ProgrammedIn(d, RecordUnits(n), [idx |-> n, id |-> s]), NEW w,
           NEW k \in [0..MaxSaves -> Nat], NEW er, NEW f \in Nat, f < LookBack,
           DataFront(w, d, k, er, f, n), Ahead(d, n), Begins(n) => Clean(d, n)
    PROVE  IdleFront(w, e, [k EXCEPT ![n] = s], er, f, n + 1)
<1>1. n \in Nat /\ (n + 1) - 1 = n /\ n + 1 # 0
  OBVIOUS
<1>2. \E r \in Nat, b \in Nat :
         /\ Showing(w, n, b) /\ r <= n + 1 /\ n + 1 <= b + 1
         /\ Front(e, [k EXCEPT ![n] = s], er, f, n + 1, r, b)
  <2>1. CASE n = 0
    <3>1. Clean(d, 0)
      <4>1. Begins(0)
        <5>1. BlockUnits \in Nat \ {0} /\ RecUnits \in Nat
          BY StoreSizes
        <5>2. 0 * RecUnits = 0 /\ 0 \in 0..(BlockUnits - 1)
          BY <5>1
        <5> QED BY <5>1, <5>2, ModSmall DEF Begins
      <4> QED BY <2>1, <4>1
    <3>2. /\ [idx |-> 0, id |-> s] \in Records /\ Ahead(d, 0)
          /\ e = ProgrammedIn(d, RecordUnits(0), [idx |-> 0, id |-> s])
      BY <2>1
    <3>3. Front(e, [k EXCEPT ![0] = s], er, f, 1, 1, 0)
      BY <3>1, <3>2, FirstWritten
    <3>4. Shows(w, 0)
      BY <2>1 DEF DataFront
    <3>5. Showing(w, 0, 0)
      BY <3>4 DEF Showing
    <3>6. PICK r \in Nat, b \in Nat : r = 1 /\ b = 0
      OBVIOUS
    <3>7. /\ Showing(w, n, b) /\ r <= n + 1 /\ n + 1 <= b + 1
          /\ Front(e, [k EXCEPT ![n] = s], er, f, n + 1, r, b)
      BY <2>1, <3>3, <3>5, <3>6
    <3> QED BY <3>7
  <2>2. CASE n # 0
    <3>1. n >= 1
      BY <1>1, <2>2
    <3>2. PICK r \in Nat, b \in Nat :
            Showing(w, n, b) /\ Begun(d, k, er, f, n, r, b)
      BY <3>1 DEF DataFront
    <3>3. PICK t \in Nat :
            t <= n + 1 /\ Front(e, [k EXCEPT ![n] = s], er, f, n + 1, t, b)
      BY <3>2, FrontWritten
    <3>4. n + 1 <= b + 1
      BY <1>1, <3>2 DEF Begun
    <3> QED BY <3>2, <3>3, <3>4
  <2> QED BY <2>1, <2>2
<1>3. Single(w)
  BY DEF DataFront
<1> QED BY <1>1, <1>2, <1>3 DEF IdleFront

(* The erase command, *)
LEMMA CommandFront ==
    ASSUME WholeRecords,
           IndexBlocks = 2, NEW w, DOMAIN w = 0..(index_cnt - 1), NEW d,
           NEW k \in [0..MaxSaves -> Nat], NEW er \in Nat, NEW es \in Nat, er <= es,
           NEW f \in Nat, NEW n \in Nat \ {0}, IdleFront(w, d, k, er, f, n),
           NEW e, e = ErasedIn(w, LastOf(n))
    PROVE  IdleFront(e, d, k, es, f, 0)
<1>1. n - 1 \in Nat
  OBVIOUS
<1>2. Side(n - 1) \in {0, BlockWords}
  BY <1>1, SideFacts
<1>3. SpoilsWords(w, e, Words(Side(n - 1))) /\ ~IndexValid(e, Side(n - 1))
  BY <1>2, LastBlock, EraseWords
<1>4. Single(w) /\ Single(e)
  BY <1>3, BlankStays DEF IdleFront
<1>5. OffFront(w, d, k, er, f)
  BY IdleOffFront
<1>6. Beheads(w, e, Side(n - 1))
  BY <1>3 DEF Beheads
<1>7. OffFront(e, d, k, er, f)
  BY <1>2, <1>4, <1>5, <1>6, OffSpoiled
<1>8. OffFront(e, d, k, es, f)
  BY <1>7, OffMore
<1> QED BY <1>4, <1>8 DEF IdleFront

(* and power failing in an erase of index words. *)
LEMMA IndexCut ==
    ASSUME WholeRecords,
           IndexBlocks = 2, NEW w, DOMAIN w = 0..(index_cnt - 1), NEW d,
           NEW k \in [0..MaxSaves -> Nat], NEW er \in Nat, NEW es \in Nat, er <= es,
           NEW f \in Nat, NEW n \in Nat, IdleFront(w, d, k, er, f, n),
           NEW s \in {0, BlockWords}, NEW e \in {w} \union Torn(w, Words(s))
    PROVE  OffFront(e, d, k, es, f + 1)
<1>1. OffFront(w, d, k, er, f) /\ Single(w)
  BY IdleOffFront DEF IdleFront
<1>2. OffFront(e, d, k, er, f)
  <2>1. CASE e = w
    BY <1>1, <2>1
  <2>2. CASE e \in Torn(w, Words(s))
    <3>1. Beheads(w, e, s)
      BY <2>2, TornWords DEF Beheads
    <3> QED BY <1>1, <3>1, OffSpoiled
  <2> QED BY <2>1, <2>2
<1>3. f + 1 \in Nat /\ f <= f + 1
  OBVIOUS
<1> QED BY <1>2, <1>3, OffMore

(* What holds after any number of power failures.                          *)
FrontInv ==
    /\ step = "off" => OffFront(words, dat, kept, erased, fails)
    /\ step \in {"idle", "index_erase", "cmd_erase"} =>
         IdleFront(words, dat, kept, erased, fails, index)
    /\ step = "index_erase" => index % BlockWords = 0
    /\ step = "cmd_erase" => index >= 1
    /\ step = "index_write" =>
         IF index % BlockWords # 0
         THEN IdleFront(words, dat, kept, erased, fails, index)
         ELSE BlockFront(words, dat, kept, erased, fails, index)
    /\ step = "prev_erase" =>
         /\ index % BlockWords = 0
         /\ PrevFront(words, dat, kept, erased, fails, index)
    /\ step \in {"next_erase", "cur_erase", "data_write"} =>
         DataFront(words, dat, kept, erased, fails, index)
    /\ step = "next_erase" => Crosses(index)
    /\ step \in {"cur_erase", "data_write"} => Ahead(dat, index)
    /\ step = "cur_erase" => Begins(index)
    /\ step = "data_write" => (Begins(index) => Clean(dat, index))

LEMMA FrontTypes ==
    ASSUME FewFailures,
           StoreTypeInv
    PROVE  /\ DOMAIN words = 0..(index_cnt - 1) /\ DOMAIN dat = 0..(data_size - 1)
           /\ index \in Nat /\ index \in 0..MaxSaves
           /\ kept \in [0..MaxSaves -> Nat] /\ \A i \in 0..MaxSaves : kept[i] <= saves
           /\ saves \in Nat /\ erased \in Nat /\ erased <= saves
           /\ fails \in Nat /\ fails < LookBack
           /\ fails < MaxFails => fails + 1 < LookBack
<1>1. /\ DOMAIN words = 0..(index_cnt - 1) /\ DOMAIN dat = 0..(data_size - 1)
      /\ index \in Nat /\ index \in 0..MaxSaves
      /\ saves \in Nat /\ fails \in Nat /\ fails <= MaxFails
  BY StoreTypes
<1>2. MaxFails \in Nat /\ LookBack \in Nat /\ MaxFails < LookBack /\ MaxSaves \in Nat
  BY StoreSizes DEF FewFailures
<1>3. /\ kept \in [0..MaxSaves -> 0..MaxSaves] /\ erased \in 0..MaxSaves
      /\ \A i \in 0..MaxSaves : kept[i] <= saves /\ erased <= saves
  BY DEF StoreTypeInv, bbTypeOK, KeptOK
<1>4. kept \in [0..MaxSaves -> Nat] /\ erased \in Nat /\ erased <= saves
  <2>1. erased <= saves
    BY DEF StoreTypeInv, KeptOK
  <2>2. 0..MaxSaves \subseteq Nat
    BY <1>2
  <2> QED BY <1>3, <2>1, <2>2
<1>5. fails < LookBack /\ (fails < MaxFails => fails + 1 < LookBack)
  BY <1>1, <1>2
<1> QED BY <1>1, <1>3, <1>4, <1>5

LEMMA FrontInit ==
    ASSUME IndexBlocks = 2, bbInit
    PROVE  FrontInv
<1>1. /\ Erased \notin Nat /\ BlockWords \in Nat \ {0}
      /\ index_cnt = 2 * BlockWords
  BY NoData, TwoBlocks
<1>2. 0 \in 0..(index_cnt - 1) /\ BlockWords \in 0..(index_cnt - 1)
  BY <1>1
<1>3. words[0] = Erased /\ words[BlockWords] = Erased
  BY <1>2 DEF bbInit
<1>4. Blank(words)
  BY <1>1, <1>3 DEF Blank, IndexValid
<1>5. OffFront(words, dat, kept, erased, fails)
  BY <1>4 DEF OffFront
<1> QED BY <1>5 DEF bbInit, FrontInv

(* The search at a restart. *)
LEMMA StartFront ==
    ASSUME FewFailures,
           IndexBlocks = 2, StoreTypeInv, FrontInv, Start
    PROVE  FrontInv'
<1>1. DOMAIN words = 0..(index_cnt - 1) /\ fails \in Nat /\ fails < LookBack
  BY FrontTypes
<1>2. /\ words' = ErasedIn(words, SpareWords(words))
      /\ index' = __bbox_data_search_by_index(dat, __bbox_max_index_calc(words))
      /\ step' = "idle" /\ UNCHANGED <<dat, kept, erased, fails>>
  BY DEF Start, SpareWords
<1>3. OffFront(words, dat, kept, erased, fails)
  BY DEF Start, FrontInv
<1>4. PICK e, n : /\ e = ErasedIn(words, SpareWords(words)) /\ e = words'
                  /\ n = __bbox_data_search_by_index(dat, __bbox_max_index_calc(words))
                  /\ n = index'
  BY <1>2
<1>5. IdleFront(e, dat, kept, erased, fails, n)
  BY <1>1, <1>3, <1>4, RestartFront
<1> QED BY <1>2, <1>4, <1>5 DEF FrontInv

LEMMA StartCutFront ==
    ASSUME FewFailures,
           IndexBlocks = 2, StoreTypeInv, FrontInv, StartCut
    PROVE  FrontInv'
<1>1. /\ DOMAIN words = 0..(index_cnt - 1) /\ fails \in Nat /\ erased \in Nat
      /\ kept \in [0..MaxSaves -> Nat]
  BY FrontTypes
<1>2. /\ OffFront(words, dat, kept, erased, fails)
      /\ step' = "off" /\ fails' = fails + 1 /\ UNCHANGED <<dat, kept, erased>>
  BY DEF StartCut, FrontInv
<1>3. PICK b \in SpareBlocks(words) :
        words' \in Torn(ErasedIn(words,
                     UNION {WordBlock(c * BlockWords) :
                              c \in {x \in SpareBlocks(words) : x < b}}),
                   WordBlock(b * BlockWords))
  BY DEF StartCut
<1>4. PICK D : D = UNION {WordBlock(c * BlockWords) :
                            c \in {x \in SpareBlocks(words) : x < b}}
  OBVIOUS
<1>5. PICK e \in Torn(ErasedIn(words, D), WordBlock(b * BlockWords)) : e = words'
  BY <1>3, <1>4
<1>6. OffFront(e, dat, kept, erased, fails)
  BY <1>1, <1>2, <1>4, RestartCut
<1>7. OffFront(e, dat, kept, erased, fails + 1)
  <2>1. fails + 1 \in Nat /\ fails <= fails + 1 /\ erased <= erased
    BY <1>1
  <2> QED BY <1>1, <1>6, <2>1, OffMore
<1> QED BY <1>2, <1>5, <1>7 DEF FrontInv

(* A save begins, *)
LEMMA SaveFront ==
    ASSUME WholeRecords,
           IndexBlocks = 2, StoreTypeInv, FrontInv, Save
    PROVE  FrontInv'
<1>1. index \in Nat
  BY StoreTypes
<1>2. /\ step = "idle" /\ UNCHANGED <<words, dat, index, kept, erased, fails>>
      /\ step' = IF AtWordBlockStart THEN "index_erase" ELSE "index_write"
  BY DEF Save, ram
<1>3. AtWordBlockStart <=> index % BlockWords = 0
  BY <1>1, CodePlaces
<1> QED BY <1>2, <1>3 DEF FrontInv

(* and its index is written. *)
LEMMA IndexEraseFront ==
    ASSUME WholeRecords,
           IndexBlocks = 2, StoreTypeInv, FrontInv, IndexErase
    PROVE  FrontInv'
<1>1. DOMAIN words = 0..(index_cnt - 1) /\ index \in Nat
  BY StoreTypes
<1>2. /\ step = "index_erase" /\ step' = "index_write"
      /\ UNCHANGED <<dat, index, kept, erased, fails>>
      /\ words' = ErasedIn(words, Words(Side(index)))
  BY <1>1, CodePlaces DEF IndexErase, ram
<1>3. index % BlockWords = 0 /\ IdleFront(words, dat, kept, erased, fails, index)
  BY <1>2 DEF FrontInv
<1>4. PICK e : e = ErasedIn(words, Words(Side(index))) /\ e = words'
  BY <1>2
<1>5. BlockFront(e, dat, kept, erased, fails, index)
  BY <1>1, <1>3, <1>4, BlockFrontErased
<1> QED BY <1>2, <1>3, <1>4, <1>5 DEF FrontInv

(* The index shows the record, whose data comes next. *)
LEMMA DataFrontBegins ==
    ASSUME WholeRecords,
           IndexBlocks = 2, index \in Nat, step' = DataStep,
           UNCHANGED <<dat, index, kept, erased, fails>>,
           DataFront(words', dat, kept, erased, fails, index)
    PROVE  FrontInv'
<1>1. /\ ReachesNext <=> Crosses(index)
      /\ AtDataBlockStart <=> Begins(index)
  BY CodePlaces DEF Begins
<1>2. ~Crosses(index) => Ahead(dat, index)
  BY DEF Ahead
<1>3. /\ step' = "next_erase" => Crosses(index)
      /\ step' = "cur_erase" => Begins(index) /\ Ahead(dat, index)
      /\ step' = "data_write" => ~Begins(index) /\ Ahead(dat, index)
      /\ step' \in {"next_erase", "cur_erase", "data_write"}
  BY <1>1, <1>2 DEF DataStep
<1> QED BY <1>3 DEF FrontInv

LEMMA IndexWriteFront ==
    ASSUME WholeRecords, FewFailures,
           IndexBlocks = 2, Roomy, StoreTypeInv, FrontInv, IndexWrite
    PROVE  FrontInv'
<1>1. /\ DOMAIN words = 0..(index_cnt - 1) /\ index \in Nat /\ fails \in Nat
      /\ fails < LookBack /\ erased \in Nat /\ kept \in [0..MaxSaves -> Nat]
  BY FrontTypes
<1>2. /\ step = "index_write" /\ UNCHANGED <<dat, index, kept, erased, fails>>
      /\ words' = ProgrammedIn(words, {SlotOf(index)}, index)
      /\ step' = IF index % BlockWords = 0 THEN "prev_erase" ELSE DataStep
  BY <1>1, CodePlaces DEF IndexWrite, ram
<1>4. PICK e : e = ProgrammedIn(words, {SlotOf(index)}, index) /\ e = words'
  BY <1>2
<1>5. CASE index % BlockWords = 0
  <2>1. BlockFront(words, dat, kept, erased, fails, index)
    BY <1>2, <1>5 DEF FrontInv
  <2>2. PrevFront(e, dat, kept, erased, fails, index)
    BY <1>1, <1>4, <1>5, <2>1, HeadFrontWritten
  <2> QED BY <1>2, <1>4, <1>5, <2>2 DEF FrontInv
<1>6. CASE index % BlockWords # 0
  <2>1. IdleFront(words, dat, kept, erased, fails, index)
    BY <1>2, <1>6 DEF FrontInv
  <2>2. DataFront(e, dat, kept, erased, fails, index)
    BY <1>1, <1>4, <1>6, <2>1, WordFrontWritten
  <2>3. DataFront(words', dat, kept, erased, fails, index) /\ step' = DataStep
    BY <1>2, <1>4, <1>6, <2>2
  <2> QED BY <1>1, <1>2, <2>3, DataFrontBegins
<1> QED BY <1>5, <1>6

LEMMA PrevEraseFront ==
    ASSUME WholeRecords,
           IndexBlocks = 2, StoreTypeInv, FrontInv, PrevErase
    PROVE  FrontInv'
<1>1. DOMAIN words = 0..(index_cnt - 1) /\ index \in Nat
  BY StoreTypes
<1>2. /\ index % BlockWords = 0
      /\ PrevFront(words, dat, kept, erased, fails, index)
  BY DEF PrevErase, FrontInv
<1>3. /\ step' = DataStep /\ UNCHANGED <<dat, index, kept, erased, fails>>
      /\ words' = ErasedIn(words, Words(Other(index)))
  BY <1>1, <1>2, CodePlaces DEF PrevErase, ram
<1>4. PICK e : e = ErasedIn(words, Words(Other(index))) /\ e = words'
  BY <1>3
<1>5. DataFront(e, dat, kept, erased, fails, index)
  BY <1>1, <1>2, <1>4, PrevFrontErased
<1>6. DataFront(words', dat, kept, erased, fails, index)
  BY <1>4, <1>5
<1> QED BY <1>1, <1>3, <1>6, DataFrontBegins

(* The sectors are erased, *)
LEMMA NextEraseFront ==
    ASSUME WholeRecords, FewFailures,
           IndexBlocks = 2, Roomy, StoreTypeInv, FrontInv, NextErase
    PROVE  FrontInv'
<1>1. /\ DOMAIN dat = 0..(data_size - 1) /\ index \in Nat /\ fails \in Nat
      /\ fails < LookBack /\ kept \in [0..MaxSaves -> Nat]
  BY FrontTypes
<1>2. DataFront(words, dat, kept, erased, fails, index) /\ Crosses(index)
  BY DEF NextErase, FrontInv
<1>3. /\ dat' = ErasedIn(dat, NextOf(index))
      /\ UNCHANGED <<words, index, kept, erased, fails>>
      /\ step' = IF Begins(index) THEN "cur_erase" ELSE "data_write"
  BY <1>1, CodePlaces DEF NextErase, ram, Begins
<1>4. PICK e : e = ErasedIn(dat, NextOf(index)) /\ e = dat'
  BY <1>3
<1>5. /\ Spoils(dat, e, NextOf(index)) /\ Ahead(e, index)
      /\ Clean(dat, index) => Clean(e, index)
  BY <1>1, <1>2, <1>4, NextErased
<1>6. Touches(index, NextOf(index))
  BY <1>2 DEF Touches
<1>7. DataFront(words, e, kept, erased, fails, index)
  BY <1>1, <1>2, <1>5, <1>6, DataFrontTouched
<1> QED BY <1>3, <1>4, <1>5, <1>7 DEF FrontInv

LEMMA CurEraseFront ==
    ASSUME WholeRecords, FewFailures,
           IndexBlocks = 2, Roomy, StoreTypeInv, FrontInv, CurErase
    PROVE  FrontInv'
<1>1. /\ DOMAIN dat = 0..(data_size - 1) /\ index \in Nat /\ fails \in Nat
      /\ fails < LookBack /\ kept \in [0..MaxSaves -> Nat]
  BY FrontTypes
<1>2. /\ DataFront(words, dat, kept, erased, fails, index)
      /\ Begins(index) /\ Ahead(dat, index)
  BY DEF CurErase, FrontInv
<1>3. /\ dat' = ErasedIn(dat, CurOf(index)) /\ step' = "data_write"
      /\ UNCHANGED <<words, index, kept, erased, fails>>
  BY <1>1, CodePlaces DEF CurErase, ram
<1>4. PICK e : e = ErasedIn(dat, CurOf(index)) /\ e = dat'
  BY <1>3
<1>5. Spoils(dat, e, CurOf(index)) /\ Ahead(e, index) /\ Clean(e, index)
  BY <1>1, <1>2, <1>4, CurErased
<1>6. Touches(index, CurOf(index))
  BY <1>2 DEF Touches
<1>7. DataFront(words, e, kept, erased, fails, index)
  BY <1>1, <1>2, <1>5, <1>6, DataFrontTouched
<1> QED BY <1>3, <1>4, <1>5, <1>7 DEF FrontInv

(* and the record is written. *)
LEMMA DataWriteFront ==
    ASSUME WholeRecords, FewFailures,
           IndexBlocks = 2, Roomy, StoreTypeInv, FrontInv, DataWrite
    PROVE  FrontInv'
<1>1. /\ DOMAIN dat = 0..(data_size - 1) /\ index \in Nat /\ index \in 0..MaxSaves
      /\ fails \in Nat /\ fails < LookBack /\ kept \in [0..MaxSaves -> Nat]
      /\ saves \in Nat
  BY FrontTypes
<1>2. index < saves /\ saves \in 0..MaxSaves /\ MaxSaves \in Nat
  BY StoreTypes, StoreSizes DEF DataWrite, StoreTypeInv, KeptOK
<1>3. /\ DataFront(words, dat, kept, erased, fails, index) /\ Ahead(dat, index)
      /\ Begins(index) => Clean(dat, index)
  BY DEF DataWrite, FrontInv
<1>4. [idx |-> index, id |-> saves] \in Records
  <2>1. saves \in 1..MaxSaves
    BY <1>1, <1>2
  <2> QED BY <1>1, <2>1 DEF Records
<1>5. /\ dat' = ProgrammedIn(dat, RecordUnits(index), [idx |-> index, id |-> saves])
      /\ step' = "idle" /\ index' = index + 1 /\ kept' = [kept EXCEPT ![index] = saves]
      /\ UNCHANGED <<words, erased, fails>>
  BY DEF DataWrite
<1>6. PICK e : /\ e = ProgrammedIn(dat, RecordUnits(index), [idx |-> index, id |-> saves])
               /\ e = dat'
  BY <1>5
<1>7. IdleFront(words, e, [kept EXCEPT ![index] = saves], erased, fails, index + 1)
  BY <1>1, <1>3, <1>4, <1>6, RecordWritten
<1> QED BY <1>5, <1>6, <1>7 DEF FrontInv

(* The erase command. *)
LEMMA EraseCommandFront ==
    ASSUME StoreTypeInv, FrontInv, EraseCommand
    PROVE  FrontInv'
<1>1. index \in Nat /\ index # 0
  BY StoreTypes DEF EraseCommand
<1>2. index >= 1
  BY <1>1
<1> QED BY <1>2 DEF EraseCommand, ram, FrontInv

LEMMA CurIndexEraseFront ==
    ASSUME WholeRecords, FewFailures,
           IndexBlocks = 2, StoreTypeInv, FrontInv, CurIndexErase
    PROVE  FrontInv'
<1>1. /\ DOMAIN words = 0..(index_cnt - 1) /\ index \in Nat /\ fails \in Nat
      /\ kept \in [0..MaxSaves -> Nat] /\ saves \in Nat /\ erased \in Nat
      /\ erased <= saves
  BY FrontTypes
<1>2. index \in Nat \ {0} /\ IdleFront(words, dat, kept, erased, fails, index)
  <2>1. index >= 1 /\ IdleFront(words, dat, kept, erased, fails, index)
    BY DEF CurIndexErase, FrontInv
  <2> QED BY <1>1, <2>1
<1>3. /\ words' = ErasedIn(words, LastOf(index)) /\ index' = 0 /\ erased' = saves
      /\ step' = "idle" /\ UNCHANGED <<dat, saves, kept, fails>>
  BY DEF CurIndexErase, LastWritten, LastOf
<1>4. PICK e : e = ErasedIn(words, LastOf(index)) /\ e = words'
  BY <1>3
<1>5. IdleFront(e, dat, kept, saves, fails, 0)
  BY <1>1, <1>2, <1>4, CommandFront
<1> QED BY <1>3, <1>4, <1>5 DEF FrontInv

LEMMA PowerFailsFront ==
    ASSUME WholeRecords, FewFailures,
           IndexBlocks = 2, ~WordTears, Roomy, StoreTypeInv, FrontInv, PowerFails
    PROVE  FrontInv'
<1>1. /\ DOMAIN words = 0..(index_cnt - 1) /\ DOMAIN dat = 0..(data_size - 1)
      /\ index \in Nat /\ fails \in Nat /\ fails < LookBack
      /\ kept \in [0..MaxSaves -> Nat] /\ saves \in Nat /\ erased \in Nat
      /\ erased <= saves
  BY FrontTypes
<1>2. /\ step \in Steps /\ step # "off" /\ step' = "off" /\ kept' = kept
      /\ words' \in {words} \union Torn(words, WordsTouched)
      /\ dat' \in {dat} \union Torn(dat, DataTouched)
      /\ erased' = IF step = "cmd_erase" /\ words' # words THEN saves ELSE erased
      /\ fails' = IF step = "idle" THEN fails ELSE fails + 1
  BY DEF PowerFails, StoreTypeInv, bbTypeOK
<1>3. fails + 1 \in Nat /\ fails <= fails + 1 /\ erased <= erased
  BY <1>1
<1>4. OffFront(words, dat, kept, erased, fails) =>
        OffFront(words, dat, kept, erased, fails + 1)
  BY <1>1, <1>3, OffMore
<1>5. SUFFICES OffFront(words', dat', kept, erased', fails')
  BY <1>2 DEF FrontInv
<1>6. CASE step = "idle"
  <2>1. words' = words /\ dat' = dat /\ erased' = erased /\ fails' = fails
    BY <1>2, <1>6, FailLeaves
  <2>2. IdleFront(words, dat, kept, erased, fails, index)
    BY <1>6 DEF FrontInv
  <2>3. OffFront(words, dat, kept, erased, fails)
    BY <1>1, <2>2, IdleOffFront
  <2> QED BY <2>1, <2>3
<1>7. CASE step = "index_erase"
  <2>1. dat' = dat /\ erased' = erased /\ fails' = fails + 1
    BY <1>2, <1>7, FailLeaves
  <2>2. words' \in {words} \union Torn(words, Words(Side(index)))
    BY <1>1, <1>2, <1>7, CodePlaces DEF WordsTouched
  <2>3. IdleFront(words, dat, kept, erased, fails, index)
    BY <1>7 DEF FrontInv
  <2>4. PICK e \in {words} \union Torn(words, Words(Side(index))) : e = words'
    BY <2>2
  <2>5. Side(index) \in {0, BlockWords}
    BY <1>1, SideFacts
  <2>6. OffFront(e, dat, kept, erased, fails + 1)
    BY <1>1, <1>3, <2>3, <2>5, IndexCut
  <2> QED BY <2>1, <2>4, <2>6
<1>8. CASE step = "index_write"
  <2>1. words' = words /\ dat' = dat /\ erased' = erased /\ fails' = fails + 1
    BY <1>2, <1>8, FailLeaves
  <2>2. CASE index % BlockWords = 0
    <3>1. BlockFront(words, dat, kept, erased, fails, index)
      BY <1>8, <2>2 DEF FrontInv
    <3>2. OffFront(words, dat, kept, erased, fails)
      BY <1>1, <3>1, BlockFrontOff
    <3> QED BY <1>4, <2>1, <3>2
  <2>3. CASE index % BlockWords # 0
    <3>1. IdleFront(words, dat, kept, erased, fails, index)
      BY <1>8, <2>3 DEF FrontInv
    <3>2. OffFront(words, dat, kept, erased, fails)
      BY <1>1, <3>1, IdleOffFront
    <3> QED BY <1>4, <2>1, <3>2
  <2> QED BY <2>2, <2>3
<1>9. CASE step = "prev_erase"
  <2>1. dat' = dat /\ erased' = erased /\ fails' = fails + 1
    BY <1>2, <1>9, FailLeaves
  <2>2. /\ index % BlockWords = 0
        /\ PrevFront(words, dat, kept, erased, fails, index)
    BY <1>9 DEF FrontInv
  <2>3. words' \in {words} \union Torn(words, Words(Other(index)))
    BY <1>1, <1>2, <1>9, <2>2, CodePlaces DEF WordsTouched
  <2>4. PICK e \in {words} \union Torn(words, Words(Other(index))) : e = words'
    BY <2>3
  <2>5. OffFront(e, dat, kept, erased, fails + 1)
    BY <1>1, <2>2, PrevFrontCut
  <2> QED BY <2>1, <2>4, <2>5
<1>10. CASE step \in {"next_erase", "cur_erase", "data_write"}
  <2>1. words' = words /\ erased' = erased /\ fails' = fails + 1
    BY <1>2, <1>10, FailLeaves
  <2>2. /\ DataFront(words, dat, kept, erased, fails, index)
        /\ step = "next_erase" => Crosses(index)
        /\ step = "cur_erase" => Begins(index)
    BY <1>10 DEF FrontInv
  <2>3. PICK T : T = DataTouched /\ Touches(index, T)
    BY <1>1, <1>10, <2>2, CodePlaces DEF DataTouched, Touches
  <2>4. PICK e \in {dat} \union Torn(dat, T) : e = dat'
    BY <1>2, <2>3
  <2>5. Spoils(dat, e, T)
    BY <1>1, TornSpoils
  <2>6. OffFront(words, e, kept, erased, fails + 1)
    BY <1>1, <2>2, <2>3, <2>5, DataFrontCut
  <2> QED BY <2>1, <2>4, <2>6
<1>11. CASE step = "cmd_erase"
  <2>1. dat' = dat /\ fails' = fails + 1
    BY <1>2, <1>11, FailLeaves
  <2>2. index \in Nat \ {0} /\ IdleFront(words, dat, kept, erased, fails, index)
    <3>1. index >= 1 /\ IdleFront(words, dat, kept, erased, fails, index)
      BY <1>11 DEF FrontInv
    <3> QED BY <1>1, <3>1
  <2>3. CASE words' = words
    <3>1. OffFront(words, dat, kept, erased, fails)
      BY <1>1, <2>2, IdleOffFront
    <3> QED BY <1>2, <1>4, <2>1, <2>3, <3>1
  <2>4. CASE words' # words
    <3>1. words' \in {words} \union Torn(words, LastOf(index)) /\ erased' = saves
      BY <1>2, <1>11, <2>4 DEF WordsTouched, LastWritten, LastOf
    <3>2. LastOf(index) = Words(Side(index - 1)) /\ index - 1 \in Nat
      BY <2>2, LastBlock
    <3>3. Side(index - 1) \in {0, BlockWords}
      BY <3>2, SideFacts
    <3>4. PICK e \in {words} \union Torn(words, Words(Side(index - 1))) : e = words'
      BY <3>1, <3>2
    <3>5. OffFront(e, dat, kept, saves, fails + 1)
      BY <1>1, <2>2, <3>3, IndexCut
    <3> QED BY <2>1, <3>1, <3>4, <3>5
  <2> QED BY <2>3, <2>4
<1> QED BY <1>2, <1>6, <1>7, <1>8, <1>9, <1>10, <1>11 DEF Steps

LEMMA FrontNext ==
    ASSUME WholeRecords, FewFailures,
           IndexBlocks = 2, ~WordTears, Roomy, StoreTypeInv, FrontInv,
           [bbNext]_bbVars
    PROVE  FrontInv'
<1>1. CASE UNCHANGED bbVars
  <2>1. UNCHANGED <<words, dat, index, step, kept, erased, fails>>
    BY <1>1 DEF bbVars
  <2> QED BY <2>1 DEF FrontInv
<1>2. CASE Start
  BY <1>2, StartFront
<1>3. CASE StartCut
  BY <1>3, StartCutFront
<1>4. CASE PowerFails
  BY <1>4, PowerFailsFront
<1>5. CASE Save
  BY <1>5, SaveFront
<1>6. CASE IndexErase
  BY <1>6, IndexEraseFront
<1>7. CASE IndexWrite
  BY <1>7, IndexWriteFront
<1>8. CASE PrevErase
  BY <1>8, PrevEraseFront
<1>9. CASE NextErase
  BY <1>9, NextEraseFront
<1>10. CASE CurErase
  BY <1>10, CurEraseFront
<1>11. CASE DataWrite
  BY <1>11, DataWriteFront
<1>12. CASE EraseCommand
  BY <1>12, EraseCommandFront
<1>13. CASE CurIndexErase
  BY <1>13, CurIndexEraseFront
<1> QED BY <1>1, <1>2, <1>3, <1>4, <1>5, <1>6, <1>7, <1>8, <1>9, <1>10, <1>11,
           <1>12, <1>13 DEF bbNext

LEMMA FrontAlways ==
    ASSUME WholeRecords, FewFailures,
           IndexBlocks = 2, ~WordTears, Roomy
    PROVE  bbSpec => [](StoreTypeInv /\ FrontInv)
<1>1. bbInit => StoreTypeInv /\ FrontInv
  BY StoreTypeInit, FrontInit
<1>2. StoreTypeInv /\ FrontInv /\ [bbNext]_bbVars => (StoreTypeInv /\ FrontInv)'
  BY StoreTypeNext, FrontNext
<1> QED BY <1>1, <1>2, PTL DEF bbSpec

(* In the window of the records that are read, what is sound is what was   *)
(* last stored.                                                            *)
LEMMA WindowMatches ==
    ASSUME NEW d, NEW k, NEW er, NEW f \in Nat, f < LookBack, Roomy,
           NEW n \in Nat, NEW r \in Nat, NEW b \in Nat, r <= n, n <= b + 1,
           Front(d, k, er, f, n, r, b),
           NEW i \in 0..MaxSaves, i < n, i + data_cnt >= n, Sound(d, i)
    PROVE  ReadAt(d, i) = [idx |-> i, id |-> k[i]]
<1>1. /\ \A j \in r..b : ~Sound(d, j)
      /\ Match(d, k, b + 1)
  BY DEF Front
<1>2. i \in Nat /\ data_cnt \in Nat
  BY StoreSizes
<1>3. CASE i + data_cnt >= b + 1
  <2>1. i < b + 1
    BY <1>2
  <2> QED BY <1>1, <1>3, <2>1 DEF Match
<1>4. CASE ~(i + data_cnt >= b + 1)
  <2>1. Sound(d, i + data_cnt)
    BY <1>2, SlotShared
  <2>2. i + data_cnt \in r..b
    BY <1>2, <1>4
  <2> QED BY <1>1, <2>1, <2>2
<1> QED BY <1>3, <1>4

(* A record read back under an index in the window is the one last stored  *)
(* under that index (__bbox_flash_data_read_safe), wherever power fails,   *)
(* fewer than LookBack times inside an operation: with two sectors of      *)
(* index words that are programmed whole and a data area with room for the *)
(* search that holds a whole number of records.  With a remainder the last *)
(* record erases nothing ahead, and the code reads an impostor.            *)
THEOREM NoImpostorIsRead ==
    ASSUME WholeRecords, FewFailures,
           IndexBlocks = 2, ~WordTears, Roomy
    PROVE  bbSpec => []NoImpostor
<1>1. StoreTypeInv /\ FrontInv => NoImpostor
  <2>1. SUFFICES ASSUME StoreTypeInv, FrontInv, step = "idle", NEW i \in 0..MaxSaves,
                        __bbox_flash_data_read_safe(i)
                 PROVE  ReadAt(dat, i) = [idx |-> i, id |-> kept[i]]
    BY DEF NoImpostor
  <2>2. /\ index \in Nat /\ fails \in Nat /\ fails < LookBack
    BY <2>1, FrontTypes
  <2>3. data_act_cnt \in Nat /\ data_act_cnt <= data_cnt /\ data_cnt \in Nat
    BY <2>1, StoreSizes DEF StoreTypeInv, bbTypeOK
  <2>4. i \in Nat /\ i < index /\ i >= index - data_act_cnt /\ Sound(dat, i)
    BY <2>1, StoreSizes DEF __bbox_flash_data_read_safe
  <2>5. i + data_cnt >= index /\ index >= 1
    BY <2>2, <2>3, <2>4
  <2>6. IdleFront(words, dat, kept, erased, fails, index)
    BY <2>1 DEF FrontInv
  <2>7. PICK r \in Nat, b \in Nat :
          r <= index /\ index <= b + 1 /\ Front(dat, kept, erased, fails, index, r, b)
    BY <2>5, <2>6 DEF IdleFront
  <2> QED BY <2>2, <2>4, <2>5, <2>7, WindowMatches
<1> QED BY <1>1, FrontAlways, PTL

(* What is missing is gone, is to be written again, or is a lap before     *)
(* what is to be written again.                                            *)
LEMMA MissingAtMost ==
    ASSUME NEW d, NEW k \in [0..MaxSaves -> Nat], NEW er \in Nat, NEW f \in Nat,
           NEW n \in Nat, NEW r \in Nat, NEW b \in Nat, r <= n, n <= b + 1,
           Front(d, k, er, f, n, r, b), NEW S,
           \A i \in S : /\ i \in 0..MaxSaves /\ k[i] > er /\ i < n /\ ~Sound(d, i)
                        /\ i + data_cnt >= n + SlotsOfBlock
    PROVE  Cardinality(S) <= f
<1>0. SlotsOfBlock \in Nat /\ data_cnt \in Nat
  BY StoreSizes, SlotsAre
<1> DEFINE G == Gone(d, k, er, r, b)
           I == r..(n - 1)
           J == ((n + SlotsOfBlock) - data_cnt)..((b + SlotsOfBlock) - data_cnt)
<1>1. \A i \in S : i \in G \/ i \in I \/ i \in J
  <2> SUFFICES ASSUME NEW i \in S PROVE i \in G \/ i \in I \/ i \in J
    OBVIOUS
  <2>1. /\ i \in 0..MaxSaves /\ k[i] > er /\ i < n /\ ~Sound(d, i)
        /\ i + data_cnt >= n + SlotsOfBlock
    OBVIOUS
  <2>2. i \in Nat
    BY <2>1, StoreSizes
  <2>3. CASE i >= r
    BY <2>1, <2>2, <2>3
  <2>4. CASE i < r /\ i + data_cnt >= b + 1 + SlotsOfBlock
    BY <2>1, <2>4 DEF Gone
  <2>5. CASE ~(i + data_cnt >= b + 1 + SlotsOfBlock)
    BY <1>0, <2>1, <2>2, <2>5
  <2> QED BY <2>2, <2>3, <2>4, <2>5
<1>2. IsFiniteSet(G) /\ Cardinality(G) \in Nat
  BY GoneFinite
<1>3. IsFiniteSet(I) /\ Cardinality(I) = n - r
  <2>1. r \in Int /\ n - 1 \in Int
    OBVIOUS
  <2>2. IsFiniteSet(I) /\ Cardinality(I) = IF r > n - 1 THEN 0 ELSE (n - 1) - r + 1
    BY <2>1, FS_Interval
  <2> HIDE DEF I
  <2> QED BY <2>2
<1>4. IsFiniteSet(J) /\ Cardinality(J) = (b + 1) - n
  <2>1. PICK p \in Int, q \in Int : /\ p = (n + SlotsOfBlock) - data_cnt
                                    /\ q = (b + SlotsOfBlock) - data_cnt
    BY <1>0
  <2>2. J = p..q
    BY <2>1
  <2>3. IsFiniteSet(p..q) /\ Cardinality(p..q) = IF p > q THEN 0 ELSE q - p + 1
    BY FS_Interval
  <2>4. q - p = b - n
    BY <1>0, <2>1
  <2>5. PICK c : c = Cardinality(J)
    OBVIOUS
  <2>6. c = IF p > q THEN 0 ELSE q - p + 1
    BY <2>2, <2>3, <2>5
  <2>7. IsFiniteSet(J)
    BY <2>2, <2>3
  <2> HIDE DEF J
  <2>8. c = (b + 1) - n
    BY <2>4, <2>6
  <2> QED BY <2>5, <2>7, <2>8
<1>5. Cardinality(G) + ((b + 1) - r) <= f
  BY DEF Front
<1>6. S \subseteq (G \union I) \union J
  BY <1>1
<1> HIDE DEF G, I, J
<1>7. /\ IsFiniteSet(G \union I)
      /\ Cardinality(G \union I) <= Cardinality(G) + Cardinality(I)
      /\ Cardinality(G \union I) \in Nat
  BY <1>2, <1>3, UnionAtMost
<1>8. /\ IsFiniteSet((G \union I) \union J)
      /\ Cardinality((G \union I) \union J) <= Cardinality(G \union I) + Cardinality(J)
      /\ Cardinality((G \union I) \union J) \in Nat
  BY <1>4, <1>7, UnionAtMost
<1>9. IsFiniteSet(S) /\ Cardinality(S) <= Cardinality((G \union I) \union J)
  BY <1>6, <1>8, FS_Subset
<1>10. Cardinality(S) \in Nat
  BY <1>9, FS_CardinalityType
<1>11. PICK s \in Nat, t \in Nat, u \in Nat, g \in Nat :
         /\ s = Cardinality(S) /\ t = Cardinality((G \union I) \union J)
         /\ u = Cardinality(G \union I) /\ g = Cardinality(G)
  BY <1>2, <1>7, <1>8, <1>10
<1>12. s <= t /\ t <= u + ((b + 1) - n) /\ u <= g + (n - r) /\ g + ((b + 1) - r) <= f
  BY <1>3, <1>4, <1>5, <1>7, <1>8, <1>9, <1>11
<1>13. s <= f
  BY <1>12
<1> QED BY <1>11, <1>13

(* Each power failure costs at most one record, besides those of the       *)
(* sector that __bbox_flash_data_write erases ahead, on the conditions of  *)
(* NoImpostorIsRead.                                                       *)
THEOREM EachFailureCostsOne ==
    ASSUME WholeRecords, FewFailures,
           IndexBlocks = 2, ~WordTears, Roomy
    PROVE  bbSpec => []LossPerFailure
<1>1. StoreTypeInv /\ FrontInv => LossPerFailure
  <2>1. SUFFICES ASSUME StoreTypeInv, FrontInv, step = "idle"
                 PROVE  Cardinality(Lost) <= fails
    BY DEF LossPerFailure
  <2>2. /\ index \in Nat /\ fails \in Nat /\ fails < LookBack
        /\ kept \in [0..MaxSaves -> Nat] /\ erased \in Nat
    BY <2>1, FrontTypes
  <2>3. data_cnt \in Nat /\ SlotsOfBlock \in Nat /\ 0..MaxSaves \subseteq Nat
    BY StoreSizes, SlotsAre
  <2>4. IdleFront(words, dat, kept, erased, fails, index)
    BY <2>1 DEF FrontInv
  <2>5. CASE index = 0
    <3>1. Lost = {}
      BY <2>3, <2>5 DEF Lost
    <3>2. Cardinality(Lost) = 0
      BY <3>1, FS_EmptySet
    <3> QED BY <2>2, <3>2
  <2>6. CASE index # 0
    <3>1. index >= 1
      BY <2>2, <2>6
    <3>2. PICK r \in Nat, b \in Nat :
            /\ r <= index /\ index <= b + 1
            /\ Front(dat, kept, erased, fails, index, r, b)
      BY <2>4, <3>1 DEF IdleFront
    <3>3. ASSUME NEW i \in Lost
          PROVE  /\ i \in 0..MaxSaves /\ kept[i] > erased /\ i < index
                 /\ ~Sound(dat, i) /\ i + data_cnt >= index + SlotsOfBlock
      <4>1. /\ i \in 0..MaxSaves /\ kept[i] > erased /\ i < index
            /\ i + data_cnt >= index + SlotsOfBlock /\ ~Stored(i)
        BY DEF Lost
      <4>2. i + data_cnt >= index
        BY <2>2, <2>3, <4>1
      <4>3. ASSUME Sound(dat, i) PROVE FALSE
        <5>0. /\ i \in 0..MaxSaves /\ i < index /\ i + data_cnt >= index
              /\ Sound(dat, i)
          BY <4>1, <4>2, <4>3
        <5>1. ReadAt(dat, i) = [idx |-> i, id |-> kept[i]]
          <6>1. index \in Nat /\ fails \in Nat /\ fails < LookBack
            BY <2>2
          <6>2. r <= index /\ index <= b + 1
            BY <3>2
          <6>3. Front(dat, kept, erased, fails, index, r, b)
            BY <3>2
          <6> QED BY <5>0, <6>1, <6>2, <6>3, WindowMatches
        <5> QED BY <4>1, <4>3, <5>1 DEF Stored
      <4> QED BY <4>1, <4>3
    <3>4. PICK S : S = Lost
      OBVIOUS
    <3>5. \A i \in S : /\ i \in 0..MaxSaves /\ kept[i] > erased /\ i < index
                       /\ ~Sound(dat, i) /\ i + data_cnt >= index + SlotsOfBlock
      BY <3>3, <3>4
    <3>6. Cardinality(S) <= fails
      BY <2>2, <3>2, <3>5, MissingAtMost
    <3> QED BY <3>4, <3>6
  <2> QED BY <2>5, <2>6
<1> QED BY <1>1, FrontAlways, PTL
=============================================================================

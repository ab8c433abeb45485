----------------------------- MODULE LinkProofs -----------------------------
(* The byte ring between the receive interrupt and the main loop, for a    *)
(* ring and index range of any size.                                       *)
EXTENDS Link, Arithmetic, SequenceTheorems, TLAPS

LEMMA RingLinear ==
    /\ Cells \in Nat /\ Cells > 0
    /\ Cells \in Nat \ {0} /\ IndexRange \in Nat \ {0}
BY CellsAssumption

LEMMA RingSizes ==
    /\ Cells \in Nat \ {0} /\ IndexRange \in Nat \ {0}
    /\ Cells < IndexRange /\ IndexRange > 1
    /\ \A a \in Int : (a % IndexRange) % Cells = a % Cells
<1>1. PICK n \in 2..IndexRange : IndexRange = n * Cells
  BY CellsAssumption
<1>2. Cells \in Nat \ {0} /\ IndexRange \in Nat \ {0}
  BY CellsAssumption
<1>3. n * Cells >= 2 * Cells
  BY <1>1, <1>2
<1>4. n \in Nat \ {0}
  BY <1>1
<1>5. \A a \in Int : (a % IndexRange) % Cells = a % Cells
  BY <1>1, <1>2, <1>4, ModOfMultiple
<1> QED BY <1>1, <1>2, <1>3, <1>5

(* What the ring and the history may hold. *)
Any == (Nat \X Nat) \cup {Noise}
RingType ==
    /\ fifo \in [buf : [0..(Cells - 1) -> Any], w : Index, r : Index]
    /\ arrived \in Seq(Any) /\ recv \in Seq(Any)
    /\ next \in Nat \X Nat

(* The write index counts what has arrived, and the cells hold the last of *)
(* it.  The read index counts what has been pulled: some number p of units *)
(* that is never further behind than the ring is long.                     *)
Written ==
    /\ fifo.w = Len(arrived) % IndexRange
    /\ \A k \in 1..Len(arrived) :
          k > Len(arrived) - Cells
             => fifo.buf[(k - 1) % Cells] = arrived[k]
PulledIs(p) ==
    /\ p \in 0..Len(arrived) /\ Len(arrived) - p <= Cells
    /\ fifo.r = p % IndexRange
    /\ Len(recv) <= Len(arrived) - p
    /\ recv = SubSeq(arrived, p + 1, p + Len(recv))
RingInv == RingType /\ Written /\ \E p \in Nat : PulledIs(p)
-----------------------------------------------------------------------------
(* The two indices give the number of units in the ring although both have *)
(* wrapped round, at different times.                                      *)
LEMMA DataLen ==
    ASSUME RingType, Written, NEW p \in Nat, PulledIs(p)
    PROVE  kfifo_get_data_len(fifo) = Len(arrived) - p
<1>1. Len(arrived) \in Nat
  BY DEF RingType
<1>2. Len(arrived) - p \in 0..(IndexRange - 1)
  BY <1>1, RingSizes DEF PulledIs
<1>3. ((Len(arrived) % IndexRange) - (p % IndexRange)) % IndexRange
        = Len(arrived) - p
  <2>1. Len(arrived) \in Int /\ p \in Int /\ IndexRange \in Nat \ {0}
    BY <1>1, RingLinear
  <2> QED BY <1>2, <2>1, ModDifference
<1> QED BY <1>3 DEF kfifo_get_data_len, Written, PulledIs

(* A pull copies the oldest units that have not been pulled. *)
LEMMA PeekIs ==
    ASSUME RingType, Written, NEW p \in Nat, PulledIs(p),
           NEW n \in 0..(Len(arrived) - p)
    PROVE  Peek(fifo, n) = SubSeq(arrived, p + 1, p + n)
<1>0. Len(arrived) \in Nat
  BY DEF RingType
<1>1. Peek(fifo, n) \in [1..n -> Any] /\ DOMAIN Peek(fifo, n) = 1..n
  <2>1. \A k \in 1..n : (fifo.r + k - 1) % Cells \in 0..(Cells - 1)
    <3>1. \A k \in 1..n : fifo.r + k - 1 \in Int
      BY DEF RingType, Index
    <3> QED BY <3>1, RingLinear, DivMod
  <2> QED BY <2>1 DEF Peek, RingType
<1>2. /\ SubSeq(arrived, p + 1, p + n) \in Seq(Any)
      /\ Len(SubSeq(arrived, p + 1, p + n)) = n
      /\ \A k \in 1..n : SubSeq(arrived, p + 1, p + n)[k] = arrived[p + k]
  <2>1. \A j \in (p + 1)..(p + n) : arrived[j] \in Any
    BY <1>0 DEF RingType
  <2>2. p + 1 \in Int /\ p + n \in Int /\ (p + n) - (p + 1) + 1 = n
    OBVIOUS
  <2>3. /\ SubSeq(arrived, p + 1, p + n) \in Seq(Any)
        /\ Len(SubSeq(arrived, p + 1, p + n))
             = IF p + 1 <= p + n THEN (p + n) - (p + 1) + 1 ELSE 0
        /\ \A k \in 1..((p + n) - (p + 1) + 1) :
              SubSeq(arrived, p + 1, p + n)[k] = arrived[(p + 1) + k - 1]
    BY <2>1, <2>2, SubSeqProperties
  <2>4. \A k \in 1..n : (p + 1) + k - 1 = p + k
    OBVIOUS
  <2> QED BY <2>2, <2>3, <2>4
<1>3. ASSUME NEW k \in 1..n
      PROVE  Peek(fifo, n)[k] = SubSeq(arrived, p + 1, p + n)[k]
  <2>1. (fifo.r + k - 1) % Cells = (p + k - 1) % Cells
    <3>1. fifo.r \in Nat /\ fifo.r % Cells = p % Cells
      <4>1. fifo.r \in Nat
        BY DEF RingType, Index
      <4>2. fifo.r = p % IndexRange
        BY DEF PulledIs
      <4>3. (p % IndexRange) % Cells = p % Cells
        <5>1. p \in Int
          OBVIOUS
        <5> QED BY <5>1, RingSizes
      <4> QED BY <4>1, <4>2, <4>3
    <3>2. /\ ((fifo.r % Cells) + (k - 1)) % Cells = (fifo.r + (k - 1)) % Cells
          /\ ((p % Cells) + (k - 1)) % Cells = (p + (k - 1)) % Cells
      <4>1. k - 1 \in Int /\ fifo.r \in Int /\ p \in Int
        BY <3>1
      <4> QED BY <4>1, RingSizes, ModAdd
    <3>3. fifo.r + k - 1 = fifo.r + (k - 1) /\ p + k - 1 = p + (k - 1)
      BY <3>1
    <3> QED BY <3>1, <3>2, <3>3
  <2>2. fifo.buf[(p + k - 1) % Cells] = arrived[p + k]
    <3>1. p + k \in 1..Len(arrived) /\ p + k > Len(arrived) - Cells
      BY <1>0, RingLinear DEF PulledIs
    <3>2. p + k - 1 = (p + k) - 1
      OBVIOUS
    <3> QED BY <3>1, <3>2 DEF Written
  <2> QED BY <1>2, <2>1, <2>2 DEF Peek
<1>4. Peek(fifo, n) \in Seq(Any) /\ Len(Peek(fifo, n)) = n
  BY <1>1
<1> QED BY <1>2, <1>3, <1>4, SeqEqual
-----------------------------------------------------------------------------
LEMMA RingInit == linkInit => RingInv
<1> SUFFICES ASSUME linkInit PROVE RingInv
  OBVIOUS
<1>1. 0 \in Index /\ 0 % IndexRange = 0
  BY RingLinear, ModSmall DEF Index
<1>2. RingType
  BY <1>1 DEF linkInit, RingType, Any
<1>3. Written
  BY <1>1 DEF linkInit, Written
<1>4. PulledIs(0)
  BY <1>1, RingLinear DEF linkInit, PulledIs
<1> QED BY <1>2, <1>3, <1>4 DEF RingInv

(* What was in a sequence before something was appended is still there. *)
LEMMA SubSeqOfAppend ==
    ASSUME NEW S, NEW s \in Seq(S), NEW e,
           NEW a \in 1..(Len(s) + 1), NEW b \in 0..Len(s)
    PROVE  SubSeq(Append(s, e), a, b) = SubSeq(s, a, b)
<1>1. Len(s) \in Nat /\ Len(Append(s, e)) = Len(s) + 1
  OBVIOUS
<1>2. \A k \in 1..Len(s) : Append(s, e)[k] = s[k]
  OBVIOUS
<1>3. \A i \in 1..((b - a) + 1) : Append(s, e)[(a + i) - 1] = s[(a + i) - 1]
  BY <1>1, <1>2
<1> QED BY <1>1, <1>3

(* A unit the interrupt pushes goes into a cell that has been pulled. *)
LEMMA ReceiveKeeps ==
    ASSUME RingInv, NEW unit \in Any, Receive(unit), UNCHANGED recv,
           next' \in Nat \X Nat
    PROVE  RingInv'
<1>0. Len(arrived) \in Nat /\ RingType /\ Written
  BY DEF RingInv, RingType
<1>1. PICK p \in Nat : PulledIs(p)
  BY DEF RingInv
<1>2. kfifo_get_data_len(fifo) = Len(arrived) - p
  BY <1>0, <1>1, DataLen
<1>3. CASE ~(Len(arrived) - p < Cells)
  <2>1. UNCHANGED <<fifo, arrived>>
    BY <1>2, <1>3 DEF Receive, kfifo_push_in
  <2> QED BY <1>0, <1>1, <2>1 DEF RingInv, RingType, Written, PulledIs
<1>4. CASE Len(arrived) - p < Cells
  <2> DEFINE L == Len(arrived)
             at == fifo.w % Cells
             w2 == (fifo.w + 1) % IndexRange
  <2>1. fifo' = [fifo EXCEPT !.buf[at] = unit, !.w = w2]
    BY <1>2, <1>4 DEF Receive, kfifo_push_in
  <2>2. /\ fifo.w \in Int /\ fifo.w \in 0..(IndexRange - 1)
        /\ at \in 0..(Cells - 1) /\ w2 \in Index
    <3>1. fifo.w \in Int /\ fifo.w + 1 \in Int /\ fifo.w \in 0..(IndexRange - 1)
      BY <1>0, RingLinear DEF RingType, Index
    <3> QED BY <3>1, RingLinear, DivMod DEF Index
  <2>3. at = L % Cells /\ w2 = (L + 1) % IndexRange
    <3>1. L \in Int /\ 1 \in Int
      BY <1>0
    <3>2. (L % IndexRange) % Cells = L % Cells
      BY <3>1, RingSizes
    <3>3. ((L % IndexRange) + 1) % IndexRange = (L + 1) % IndexRange
      BY <3>1, RingLinear, ModAdd
    <3> QED BY <1>0, <3>2, <3>3 DEF Written
  <2>4. w2 # fifo.w
    <3>1. fifo.w % IndexRange # (fifo.w + 1) % IndexRange
      <4>1. fifo.w + 1 \in Int /\ fifo.w < fifo.w + 1
            /\ fifo.w + 1 < fifo.w + IndexRange
        <5>1. IndexRange > 1 /\ IndexRange \in Nat
          BY RingSizes
        <5> QED BY <2>2, <5>1
      <4> QED BY <2>2, <4>1, RingLinear, ModDistinct
    <3>2. fifo.w % IndexRange = fifo.w
      BY <2>2, RingLinear, ModSmall
    <3> QED BY <3>1, <3>2
  <2> HIDE DEF at, w2, L
  <2>5. /\ fifo'.w = w2 /\ fifo'.r = fifo.r
        /\ fifo'.buf = [fifo.buf EXCEPT ![at] = unit]
        /\ fifo' \in [buf : [0..(Cells - 1) -> Any], w : Index, r : Index]
    BY <1>0, <2>1, <2>2 DEF RingType
  <2>6. arrived' = Append(arrived, unit)
    BY <2>4, <2>5 DEF Receive
  <2>7. /\ arrived' \in Seq(Any) /\ Len(arrived') = L + 1
        /\ \A k \in 1..L : arrived'[k] = arrived[k]
        /\ arrived'[L + 1] = unit
    BY <1>0, <2>6 DEF RingType, L
  <2>8. RingType'
    BY <1>0, <2>5, <2>7 DEF RingType
  <2>9. Written'
    <3>1. ASSUME NEW k \in 1..(L + 1), k > (L + 1) - Cells
          PROVE  fifo'.buf[(k - 1) % Cells] = arrived'[k]
      <4>0. L \in Nat /\ Cells \in Nat
        BY <1>0, RingLinear DEF L
      <4>1. CASE k = L + 1
        <5>1. k - 1 = L
          BY <4>0, <4>1
        <5>2. at \in DOMAIN fifo.buf
          BY <1>0, <2>2 DEF RingType
        <5> QED BY <2>3, <2>5, <2>7, <4>1, <5>1, <5>2
      <4>2. CASE k # L + 1
        <5>1. k \in 1..L /\ k > L - Cells
              /\ k - 1 \in Int /\ L \in Int /\ k - 1 < L /\ L < (k - 1) + Cells
          BY <3>1, <4>0, <4>2
        <5>2. (k - 1) % Cells # at
          BY <2>3, <5>1, RingLinear, ModDistinct
        <5>3. fifo.buf[(k - 1) % Cells] = arrived[k]
          BY <1>0, <5>1 DEF Written, L
        <5>4. (k - 1) % Cells \in 0..(Cells - 1)
          BY <5>1, RingLinear, DivMod
        <5> DEFINE c == (k - 1) % Cells
        <5> HIDE DEF c
        <5>5. fifo'.buf[c] = fifo.buf[c]
          BY <1>0, <2>5, <5>2, <5>4 DEF RingType, c
        <5> QED BY <2>7, <5>1, <5>3, <5>5 DEF c
      <4> QED BY <4>1, <4>2
    <3> QED BY <2>3, <2>5, <2>7, <3>1 DEF Written
  <2>10. PulledIs(p)'
    <3>1. Len(recv) \in Nat /\ p + Len(recv) <= L /\ L \in Nat
      BY <1>0, <1>1 DEF RingType, PulledIs, L
    <3>2. SubSeq(arrived', p + 1, p + Len(recv))
            = SubSeq(arrived, p + 1, p + Len(recv))
      <4>1. p + 1 \in 1..(L + 1) /\ p + Len(recv) \in 0..L
        BY <1>1, <3>1
      <4>2. arrived \in Seq(Any)
        BY <1>0 DEF RingType
      <4> QED BY <2>6, <4>1, <4>2, SubSeqOfAppend DEF L
    <3>3. /\ p \in 0..(L + 1) /\ (L + 1) - p <= Cells
          /\ Len(recv) <= (L + 1) - p
      BY <1>4, <3>1, RingLinear DEF L
    <3> QED BY <1>1, <2>5, <2>7, <3>2, <3>3 DEF PulledIs
  <2> QED BY <2>8, <2>9, <2>10 DEF RingInv
<1> QED BY <1>3, <1>4 DEF RingType

(* The two halves of a pull. *)
LEMMA ReadKeeps == RingInv /\ Read => RingInv'
<1> SUFFICES ASSUME RingInv, Read PROVE RingInv'
  OBVIOUS
<1>0. Len(arrived) \in Nat /\ RingType /\ Written
  BY DEF RingInv, RingType
<1>1. PICK p \in Nat : PulledIs(p)
  BY DEF RingInv
<1>2. CanRead \in 0..(Len(arrived) - p)
  <2>1. kfifo_get_data_len(fifo) = Len(arrived) - p
    BY <1>0, <1>1, DataLen
  <2> QED BY <1>0, <1>1, <2>1, LineAssumption DEF CanRead, PulledIs, Read
<1> DEFINE n == CanRead
<1>3. recv' = SubSeq(arrived, p + 1, p + n)
  BY <1>0, <1>1, <1>2, PeekIs DEF Read
<1> HIDE DEF n
<1>4. recv' \in Seq(Any) /\ Len(recv') = n
  BY <1>0, <1>1, <1>2, <1>3 DEF RingType, PulledIs, n
<1>5. UNCHANGED <<fifo, arrived, next>>
  BY DEF Read
<1> QED
  BY <1>0, <1>1, <1>2, <1>3, <1>4, <1>5
  DEF RingInv, RingType, Written, PulledIs, n

LEMMA DecodeKeeps ==
    ASSUME RingInv, NEW late \in BOOLEAN, Decode(late)
    PROVE  RingInv'
<1>0. Len(arrived) \in Nat /\ RingType /\ Written
  BY DEF RingInv, RingType
<1>1. PICK p \in Nat : PulledIs(p)
  BY DEF RingInv
<1>2. /\ fifo' = [fifo EXCEPT !.r = (fifo.r + Len(recv)) % IndexRange]
      /\ recv' = <<>> /\ UNCHANGED <<arrived, next>>
  BY DEF Decode, kfifo_pulled
<1> DEFINE r2 == (fifo.r + Len(recv)) % IndexRange
<1>a. PICK m \in Nat : m = Len(recv)
  BY <1>0 DEF RingType
<1>3. m \in Nat /\ p + m \in 0..Len(arrived) /\ p + m \in Nat
  BY <1>0, <1>1, <1>a DEF RingType, PulledIs
<1>4. r2 = (p + m) % IndexRange /\ r2 \in Index
  <2>1. p \in Int /\ m \in Int /\ p + m \in Int
    BY <1>3
  <2>2. ((p % IndexRange) + m) % IndexRange = (p + m) % IndexRange
    BY <2>1, RingLinear, ModAdd
  <2>3. (p + m) % IndexRange \in 0..(IndexRange - 1)
    BY <2>1, RingLinear, DivMod
  <2> QED BY <1>1, <1>a, <2>2, <2>3 DEF PulledIs, Index
<1> HIDE DEF r2
<1>5. /\ fifo'.r = r2 /\ fifo'.w = fifo.w /\ fifo'.buf = fifo.buf
      /\ fifo' \in [buf : [0..(Cells - 1) -> Any], w : Index, r : Index]
  BY <1>0, <1>2, <1>4 DEF RingType, r2
<1>6. RingType' /\ Written'
  BY <1>0, <1>2, <1>5, SMTT(20) DEF RingType, Written
<1>7. PulledIs(p + m)'
  <2>1. Len(recv') = 0 /\ SubSeq(arrived', (p + m) + 1, (p + m) + 0) = <<>>
    BY <1>2, <1>3, SubSeqEmpty
  <2>2. /\ Len(arrived') = Len(arrived)
        /\ Len(arrived) - (p + m) <= Cells /\ 0 <= Len(arrived) - (p + m)
    BY <1>0, <1>1, <1>2, <1>3, RingLinear DEF PulledIs
  <2>3. fifo'.r = (p + m) % IndexRange
    BY <1>4, <1>5
  <2> QED BY <1>2, <1>3, <2>1, <2>2, <2>3 DEF PulledIs
<1> QED BY <1>3, <1>6, <1>7 DEF RingInv

LEMMA RingStep == RingInv /\ [linkNext]_linkVars => RingInv'
<1> SUFFICES ASSUME RingInv, [linkNext]_linkVars PROVE RingInv'
  OBVIOUS
<1>0. RingType
  BY DEF RingInv
<1>1. CASE UNCHANGED linkVars
  BY <1>1 DEF RingInv, RingType, Written, PulledIs, linkVars
<1>2. CASE Arrive
  <2>1. next \in Any /\ next' \in Nat \X Nat
    BY <1>0, <1>2 DEF RingType, Arrive, After, Any
  <2> QED BY <1>2, <2>1, ReceiveKeeps DEF Arrive
<1>3. CASE Spoil
  <2>1. Noise \in Any /\ next' \in Nat \X Nat
    BY <1>0, <1>3 DEF RingType, Spoil, After, Any
  <2>2. CASE Receive(Noise)
    BY <1>3, <2>1, <2>2, ReceiveKeeps DEF Spoil
  <2>3. CASE UNCHANGED <<fifo, arrived>>
    BY <1>3, <2>1, <2>3 DEF Spoil, RingInv, RingType, Written, PulledIs
  <2> QED BY <1>3, <2>2, <2>3 DEF Spoil
<1> QED BY <1>1, <1>2, <1>3, ReadKeeps, DecodeKeeps DEF linkNext, Loop

(* The main loop pulls what the interrupt pushed, in order and without a   *)
(* gap, for rings and index ranges of every size and however often the     *)
(* indices wrap round; no lock is needed between the two.                  *)
THEOREM RingGivesBack == linkSpec => []FifoIsArrived
<1>1. RingInv => FifoIsArrived
  <2> SUFFICES ASSUME RingInv PROVE FifoIsArrived
    OBVIOUS
  <2>0. Len(arrived) \in Nat /\ RingType /\ Written
    BY DEF RingInv, RingType
  <2>1. PICK p \in Nat : PulledIs(p)
    BY DEF RingInv
  <2> DEFINE n == Len(arrived) - p
  <2>2. kfifo_get_data_len(fifo) = n
    BY <2>0, <2>1, DataLen
  <2>3. /\ n \in 0..(Len(arrived) - p) /\ Len(arrived) - n = p
        /\ p + n = Len(arrived)
    BY <2>0, <2>1 DEF PulledIs
  <2>4. Peek(fifo, n) = SubSeq(arrived, p + 1, p + n)
    BY <2>0, <2>1, <2>3, PeekIs
  <2>5. recv = SubSeq(arrived, p + 1, p + Len(recv))
    BY <2>1 DEF PulledIs
  <2> HIDE DEF n
  <2> QED BY <2>2, <2>3, <2>4, <2>5 DEF FifoIsArrived
<1> QED BY <1>1, RingInit, RingStep, PTL DEF linkSpec
=============================================================================

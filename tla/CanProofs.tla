----------------------------- MODULE CanProofs -----------------------------
(* The boards of a CAN bus, two of its parts.  The transmit side of the    *)
(* driver, for a ring of any size and any frames, as long as no interrupt  *)
(* comes inside bkfifo_en and the bus is quicker than TX_IRQ_TIMEOUT_MS.   *)
(* The cache of long messages, for any number of cells, senders and frames.*)
EXTENDS BspCan, CanSrc, Arithmetic, FiniteSetTheorems, TLAPS

LEMMA CanSizes ==
    /\ MaxMsgNum \in Nat /\ MaxMsgNum > 1 /\ MaxMsgNum \in Nat \ {0}
    /\ MaxFrames \in Nat /\ MaxFrames > 0 /\ Frames \subseteq Nat \ {0}
    /\ NoMsg \notin Frames /\ MaxRetrain \in Nat
BY RingAssumption, FramesAssumption DEF Frames

(* A ring whose dequeue index is in it, and how much is queued. *)
Rings == {f \in Fifo(Frames) : f.de < MaxMsgNum}
Count(f) == (f.en - f.de) % MaxMsgNum

LEMMA RingFacts ==
    ASSUME NEW f \in Rings
    PROVE  /\ f.en \in 0..(MaxMsgNum - 1) /\ f.de \in 0..(MaxMsgNum - 1)
           /\ f.buf \in [0..(MaxMsgNum - 1) -> Frames \cup {NoMsg}]
           /\ Count(f) \in 0..(MaxMsgNum - 1)
           /\ (f.de + Count(f)) % MaxMsgNum = f.en
<1>1. /\ f.en \in 0..(MaxMsgNum - 1) /\ f.de \in 0..(MaxMsgNum - 1)
      /\ f.buf \in [0..(MaxMsgNum - 1) -> Frames \cup {NoMsg}]
  BY CanSizes DEF Rings, Fifo
<1>2. Count(f) \in 0..(MaxMsgNum - 1)
  <2>1. f.en - f.de \in Int
    BY <1>1
  <2> QED BY <2>1, CanSizes, DivMod DEF Count
<1>3. (f.de + Count(f)) % MaxMsgNum = f.en
  <2>1. f.en - f.de \in Int /\ f.de \in Int
    BY <1>1
  <2>2. (((f.en - f.de) % MaxMsgNum) + f.de) % MaxMsgNum = ((f.en - f.de) + f.de) % MaxMsgNum
    BY <2>1, CanSizes, ModAdd
  <2>3. (f.en - f.de) + f.de = f.en /\ f.en % MaxMsgNum = f.en
    BY <1>1, CanSizes, ModSmall, SMTT(20)
  <2>4. Count(f) + f.de = f.de + Count(f)
    BY <1>1, <1>2
  <2> QED BY <2>2, <2>3, <2>4 DEF Count
<1> QED BY <1>1, <1>2, <1>3

(* What is queued: the slots from the dequeue index on. *)
LEMMA QueuedIs ==
    ASSUME NEW f \in Rings
    PROVE  /\ Queued(f) \in Seq(Frames \cup {NoMsg}) /\ Len(Queued(f)) = Count(f)
           /\ \A i \in 1..Count(f) : Queued(f)[i] = f.buf[(f.de + i - 1) % MaxMsgNum]
<1> DEFINE At(i) == bkfifo_de_read([f EXCEPT !.de = IF i = 1 THEN @
                                                   ELSE (@ + i - 1) % MaxMsgNum])
<1>1. Queued(f) = [i \in 1..Count(f) |-> At(i)]
  BY DEF Queued, Count
<1>2. ASSUME NEW i \in 1..Count(f)
      PROVE  /\ At(i) = f.buf[(f.de + i - 1) % MaxMsgNum] /\ At(i) \in Frames \cup {NoMsg}
  <2> DEFINE d == IF i = 1 THEN f.de ELSE (f.de + i - 1) % MaxMsgNum
  <2>1. d = (f.de + i - 1) % MaxMsgNum /\ d \in 0..(MaxMsgNum - 1)
    <3>1. CASE i = 1
      <4>1. f.de \in 0..(MaxMsgNum - 1)
        BY RingFacts
      <4>2. f.de + i - 1 = f.de /\ f.de % MaxMsgNum = f.de
        BY <3>1, <4>1, CanSizes, ModSmall
      <4> QED BY <3>1, <4>1, <4>2
    <3>2. CASE i # 1
      <4>1. f.de + i - 1 \in Int
        BY RingFacts
      <4> QED BY <3>2, <4>1, CanSizes, DivMod
    <3> QED BY <3>1, <3>2
  <2>2. At(i) = bkfifo_de_read([f EXCEPT !.de = d])
    OBVIOUS
  <2> HIDE DEF d
  <2>3. [f EXCEPT !.de = d].de = d /\ [f EXCEPT !.de = d].buf = f.buf
    BY DEF Rings, Fifo
  <2>4. At(i) = f.buf[d]
    BY <2>1, <2>2, <2>3, CanSizes DEF bkfifo_de_read
  <2>5. f.buf[d] \in Frames \cup {NoMsg}
    <3>1. f.buf \in [0..(MaxMsgNum - 1) -> Frames \cup {NoMsg}]
      BY RingFacts
    <3> QED BY <2>1, <3>1, Zenon
  <2> HIDE DEF At
  <2> QED BY <2>1, <2>4, <2>5, Zenon
<1> HIDE DEF At
<1>3. Queued(f) \in Seq(Frames \cup {NoMsg}) /\ Len(Queued(f)) = Count(f)
  BY <1>1, <1>2, RingFacts
<1> QED BY <1>1, <1>2, <1>3

LEMMA EmptyIs ==
    ASSUME NEW f \in Rings
    PROVE  bkfifo_is_empty(f) <=> Count(f) = 0
<1>1. ASSUME f.en = f.de PROVE Count(f) = 0
  BY <1>1, RingFacts, CanSizes, ModSmall DEF Count
<1>2. ASSUME Count(f) = 0 PROVE f.en = f.de
  <2>1. f.de + Count(f) = f.de /\ f.de % MaxMsgNum = f.de
    BY <1>2, RingFacts, CanSizes, ModSmall
  <2> QED BY <2>1, RingFacts
<1> QED BY <1>1, <1>2 DEF bkfifo_is_empty

LEMMA FullIs ==
    ASSUME NEW f \in Rings
    PROVE  bkfifo_is_full(f) <=> Count(f) = MaxMsgNum - 1
<1> DEFINE n == IF f.en < f.de THEN f.en + MaxMsgNum - f.de ELSE f.en - f.de
           k == IF f.en < f.de THEN -1 ELSE 0
<1>1. /\ n \in 0..(MaxMsgNum - 1) /\ k \in Int
      /\ f.en - f.de = MaxMsgNum * k + n
  BY RingFacts, CanSizes, SMTT(20)
<1>2. (MaxMsgNum * k + n) % MaxMsgNum = n
  BY <1>1, CanSizes, ModUnique
<1>3. Count(f) = n
  BY <1>1, <1>2 DEF Count
<1> QED BY <1>3 DEF bkfifo_is_full

(* Enqueuing appends, when the ring is not full. *)
LEMMA Enqueued ==
    ASSUME NEW f \in Rings, NEW m \in Frames, ~bkfifo_is_full(f)
    PROVE  LET g == bkfifo_en_store(f, m)
           IN /\ g \in Rings /\ g.en # g.de /\ Count(g) = Count(f) + 1
              /\ \A i \in 1..Count(f) : Queued(g)[i] = Queued(f)[i]
              /\ Queued(g)[Count(f) + 1] = m
<1> DEFINE g == bkfifo_en_store(f, m)
           n == Count(f)
           b == f.buf
           e == (f.en + 1) % MaxMsgNum
<1>0. /\ f.en \in 0..(MaxMsgNum - 1) /\ f.de \in 0..(MaxMsgNum - 1)
      /\ n \in 0..(MaxMsgNum - 2) /\ (f.de + n) % MaxMsgNum = f.en
      /\ b \in [0..(MaxMsgNum - 1) -> Frames \cup {NoMsg}]
  BY RingFacts, FullIs, CanSizes
<1>1. e \in 0..(MaxMsgNum - 1)
  <2>1. f.en + 1 \in Int
    BY <1>0
  <2> QED BY <2>1, CanSizes, DivMod
<1>2. /\ g.en = e /\ g.de = f.de /\ g.buf = [b EXCEPT ![f.en] = m] /\ g \in Rings
  BY <1>0, <1>1 DEF bkfifo_en_store, Rings, Fifo
<1>3. Count(g) = n + 1
  <2>1. /\ f.en + 1 \in Int /\ f.de \in Int /\ -f.de \in Int /\ f.en - f.de \in Int
        /\ 1 - f.de \in Int
    BY <1>0
  <2>2. (e + (-f.de)) % MaxMsgNum = ((f.en + 1) + (-f.de)) % MaxMsgNum
    BY <2>1, CanSizes, ModAdd
  <2>3. (((f.en - f.de) % MaxMsgNum) + 1) % MaxMsgNum = ((f.en - f.de) + 1) % MaxMsgNum
    BY <2>1, CanSizes, ModAdd
  <2>4. (n + 1) % MaxMsgNum = n + 1
    BY <1>0, CanSizes, ModSmall
  <2>5. (f.en + 1) + (-f.de) = (f.en - f.de) + 1 /\ e + (-f.de) = e - f.de
    BY <1>0, <1>1, SMTT(20)
  <2>6. n = (f.en - f.de) % MaxMsgNum /\ Count(g) = (g.en - g.de) % MaxMsgNum
    BY DEF Count
  <2> HIDE DEF n, e, g
  <2> QED BY <1>2, <2>2, <2>3, <2>4, <2>5, <2>6
<1>4. ASSUME NEW i \in 1..n
      PROVE  Queued(g)[i] = Queued(f)[i]
  <2> DEFINE x == (f.de + i - 1) % MaxMsgNum
  <2>1. f.de + i - 1 \in Int /\ f.de + n \in Int
        /\ f.de + i - 1 < f.de + n /\ f.de + n < (f.de + i - 1) + MaxMsgNum
    <3> HIDE DEF n
    <3> QED BY <1>0, CanSizes, SMTT(20)
  <2>2. x # f.en /\ x \in 0..(MaxMsgNum - 1)
    BY <1>0, <2>1, CanSizes, ModDistinct, DivMod
  <2>3. Queued(f)[i] = b[x]
    BY QueuedIs
  <2>4. i \in 1..Count(g)
    BY <1>0, <1>3
  <2>5. Queued(g)[i] = g.buf[x]
    BY <1>2, <2>4, QueuedIs
  <2> HIDE DEF x, g
  <2> QED BY <1>0, <1>2, <2>2, <2>3, <2>5
<1>5. Queued(g)[n + 1] = m
  <2>1. n + 1 \in 1..Count(g)
    BY <1>0, <1>3
  <2>2. Queued(g)[n + 1] = g.buf[(g.de + (n + 1) - 1) % MaxMsgNum]
    BY <1>2, <2>1, QueuedIs
  <2>3. g.de + (n + 1) - 1 = f.de + n
    BY <1>0, <1>2
  <2>4. Queued(g)[n + 1] = g.buf[f.en]
    BY <1>0, <2>2, <2>3
  <2>5. f.en \in DOMAIN b /\ g.buf = [b EXCEPT ![f.en] = m]
    BY <1>0, <1>2
  <2> HIDE DEF g, n, b
  <2> QED BY <2>4, <2>5
<1>6. g.en # g.de
  <2>1. ~bkfifo_is_empty(g)
    BY <1>0, <1>2, <1>3, EmptyIs
  <2> QED BY <2>1 DEF bkfifo_is_empty
<1> QED BY <1>2, <1>3, <1>4, <1>5, <1>6

(* Dequeuing k messages leaves the others. *)
LEMMA Dequeued ==
    ASSUME NEW f \in Rings, NEW k \in 0..Count(f)
    PROVE  LET g == [f EXCEPT !.de = (f.de + k) % MaxMsgNum]
           IN /\ g \in Rings /\ Count(g) = Count(f) - k
              /\ \A i \in 1..(Count(f) - k) : Queued(g)[i] = Queued(f)[i + k]
<1> DEFINE d == (f.de + k) % MaxMsgNum
           g == [f EXCEPT !.de = d]
           n == Count(f)
<1>0. /\ f.en \in 0..(MaxMsgNum - 1) /\ f.de \in 0..(MaxMsgNum - 1)
      /\ n \in 0..(MaxMsgNum - 1) /\ (f.de + n) % MaxMsgNum = f.en
      /\ k \in 0..n
  BY RingFacts
<1>1. d \in 0..(MaxMsgNum - 1)
  <2>1. f.de + k \in Int
    BY <1>0
  <2> QED BY <2>1, CanSizes, DivMod
<1>2. g.en = f.en /\ g.de = d /\ g.buf = f.buf /\ g \in Rings
  <2> HIDE DEF d
  <2> QED BY <1>1, CanSizes DEF Rings, Fifo
<1>3. Count(g) = n - k
  <2>1. /\ f.de + n \in Int /\ f.de + k \in Int
        /\ (f.de + n) - (f.de + k) = n - k /\ n - k \in 0..(MaxMsgNum - 1)
    <3> HIDE DEF n
    <3> QED BY <1>0, CanSizes
  <2>2. (((f.de + n) % MaxMsgNum) - ((f.de + k) % MaxMsgNum)) % MaxMsgNum = n - k
    BY <2>1, CanSizes, ModDifference
  <2>3. Count(g) = (g.en - g.de) % MaxMsgNum
    BY DEF Count
  <2> HIDE DEF n, g
  <2> QED BY <1>0, <1>2, <2>2, <2>3
<1>4. ASSUME NEW i \in 1..(n - k)
      PROVE  Queued(g)[i] = Queued(f)[i + k]
  <2>1. i \in 1..Count(g) /\ i + k \in 1..n
    BY <1>0, <1>3
  <2>2. Queued(g)[i] = g.buf[(g.de + i - 1) % MaxMsgNum]
    BY <1>2, <2>1, QueuedIs
  <2>3. Queued(f)[i + k] = f.buf[(f.de + (i + k) - 1) % MaxMsgNum]
    BY <2>1, QueuedIs
  <2>4. f.de + k \in Int /\ i - 1 \in Int
        /\ (f.de + k) + (i - 1) = f.de + (i + k) - 1
    BY <1>0
  <2>5. (((f.de + k) % MaxMsgNum) + (i - 1)) % MaxMsgNum
          = ((f.de + k) + (i - 1)) % MaxMsgNum
    BY <2>4, CanSizes, ModAdd
  <2>6. d + i - 1 = d + (i - 1)
    BY <1>1
  <2> HIDE DEF g
  <2> QED BY <1>2, <2>2, <2>3, <2>4, <2>5, <2>6
<1> QED BY <1>2, <1>3, <1>4
-----------------------------------------------------------------------------
(* The ring holds a set of frames, in their order. *)
Holds(f, frames) ==
    /\ f \in Rings
    /\ \A i \in 1..Count(f) : Queued(f)[i] \in frames
    /\ \A i, j \in 1..Count(f) : i < j => Queued(f)[i] < Queued(f)[j]
    /\ \A m \in frames : \E i \in 1..Count(f) : Queued(f)[i] = m

LEMMA HoldsMore ==
    ASSUME NEW f, NEW frames \in SUBSET Frames, Holds(f, frames),
           NEW m \in Frames, \A o \in frames : o < m, ~bkfifo_is_full(f)
    PROVE  /\ Holds(bkfifo_en_store(f, m), frames \cup {m})
           /\ bkfifo_en_store(f, m).en # bkfifo_en_store(f, m).de
<1> DEFINE g == bkfifo_en_store(f, m)
           n == Count(f)
<1>0. f \in Rings /\ n \in Nat
  BY RingFacts DEF Holds
<1>1. /\ g \in Rings /\ g.en # g.de /\ Count(g) = n + 1
      /\ \A i \in 1..n : Queued(g)[i] = Queued(f)[i]
      /\ Queued(g)[n + 1] = m
  BY <1>0, Enqueued
<1> HIDE DEF g, n
<1>2. /\ \A i \in 1..n : Queued(f)[i] \in frames
      /\ \A i, j \in 1..n : i < j => Queued(f)[i] < Queued(f)[j]
      /\ \A o \in frames : \E i \in 1..n : Queued(f)[i] = o
  BY DEF Holds, n
<1>3. \A i \in 1..(n + 1) : i \in 1..n \/ i = n + 1
  BY <1>0
<1>4. \A i \in 1..Count(g) : Queued(g)[i] \in frames \cup {m}
  BY <1>1, <1>2, <1>3
<1>5. \A i, j \in 1..Count(g) : i < j => Queued(g)[i] < Queued(g)[j]
  <2> SUFFICES ASSUME NEW i \in 1..(n + 1), NEW j \in 1..(n + 1), i < j
               PROVE  Queued(g)[i] < Queued(g)[j]
    BY <1>1
  <2>1. i \in 1..n
    BY <1>0
  <2>2. CASE j \in 1..n
    BY <1>1, <1>2, <2>1, <2>2
  <2>3. CASE j = n + 1
    BY <1>1, <1>2, <2>1, <2>3
  <2> QED BY <1>3, <2>2, <2>3
<1>6. ASSUME NEW o \in frames \cup {m}
      PROVE  \E i \in 1..Count(g) : Queued(g)[i] = o
  <2>1. CASE o = m
    <3>1. n + 1 \in 1..(n + 1)
      BY <1>0
    <3> QED BY <1>1, <2>1, <3>1
  <2>2. CASE o \in frames
    <3>1. PICK i \in 1..n : Queued(f)[i] = o
      BY <1>2, <2>2
    <3>2. i \in 1..(n + 1)
      BY <1>0
    <3> QED BY <1>1, <3>1, <3>2
  <2> QED BY <2>1, <2>2
<1> QED BY <1>1, <1>4, <1>5, <1>6 DEF Holds, g

(* Taking the first k leaves those after the k-th. *)
LEMMA HoldsLess ==
    ASSUME NEW f, NEW frames \in SUBSET Frames, Holds(f, frames),
           NEW k \in 1..Count(f)
    PROVE  Holds([f EXCEPT !.de = (f.de + k) % MaxMsgNum],
                 {m \in frames : m > Queued(f)[k]})
<1> DEFINE g == [f EXCEPT !.de = (f.de + k) % MaxMsgNum]
           n == Count(f)
           q == Queued(f)
           rest == {m \in frames : m > q[k]}
<1>0. f \in Rings /\ n \in Nat /\ k \in 0..n /\ k \in 1..n
  BY RingFacts DEF Holds
<1>1. /\ g \in Rings /\ Count(g) = n - k
      /\ \A i \in 1..(n - k) : Queued(g)[i] = q[i + k]
  BY <1>0, Dequeued
<1>2. /\ \A i \in 1..n : q[i] \in frames
      /\ \A i, j \in 1..n : i < j => q[i] < q[j]
      /\ \A o \in frames : \E i \in 1..n : q[i] = o
  BY DEF Holds
<1>3. \A i \in 1..n : q[i] \in Nat
  BY <1>2, CanSizes
<1> HIDE DEF g, n, q
<1>4. \A i \in 1..(n - k) : i + k \in 1..n /\ k < i + k
  BY <1>0
<1>5. \A i \in 1..Count(g) : Queued(g)[i] \in rest
  <2> SUFFICES ASSUME NEW i \in 1..(n - k) PROVE q[i + k] \in rest
    BY <1>1
  <2>1. i + k \in 1..n /\ k < i + k
    BY <1>4
  <2>2. q[k] < q[i + k] /\ q[i + k] \in frames /\ q[k] \in Nat /\ q[i + k] \in Nat
    BY <1>0, <1>2, <1>3, <2>1
  <2> QED BY <2>2
<1>6. \A i, j \in 1..Count(g) : i < j => Queued(g)[i] < Queued(g)[j]
  <2> SUFFICES ASSUME NEW i \in 1..(n - k), NEW j \in 1..(n - k), i < j
               PROVE  q[i + k] < q[j + k]
    BY <1>1
  <2>1. i + k \in 1..n /\ j + k \in 1..n /\ i + k < j + k
    BY <1>0
  <2> QED BY <1>2, <2>1
<1>7. ASSUME NEW o \in rest
      PROVE  \E i \in 1..Count(g) : Queued(g)[i] = o
  <2>1. PICK j \in 1..n : q[j] = o
    BY <1>2
  <2>2. q[k] < q[j] /\ q[k] \in Nat /\ q[j] \in Nat
    BY <1>0, <1>3, <2>1
  <2>3. ~(j < k) /\ j # k
    BY <1>0, <1>2, <2>2
  <2>4. j - k \in 1..(n - k) /\ (j - k) + k = j
    BY <1>0, <2>3
  <2> QED BY <1>1, <2>1, <2>4
<1> QED BY <1>1, <1>5, <1>6, <1>7 DEF Holds, g, q

(* The first frame that can be sent, behind those that cannot. *)
LEMMA SkippedIs ==
    ASSUME NEW f \in Rings
    PROVE  /\ Skipped(f) \in 0..Count(f)
           /\ \A i \in 1..Skipped(f) : Queued(f)[i] \in Invalid
           /\ Skipped(f) < Count(f) => Queued(f)[Skipped(f) + 1] \notin Invalid
<1> DEFINE n == Count(f)
           q == Queued(f)
           Good == {i \in 1..n : q[i] \notin Invalid}
           Fits(s) == /\ \A i \in 1..s : q[i] \in Invalid
                      /\ s + 1 \in DOMAIN q => q[s + 1] \notin Invalid
<1>0. n \in Nat /\ Len(q) = n /\ DOMAIN q = 1..n
  BY RingFacts, QueuedIs
<1>1. \E s \in 0..n : Fits(s)
  <2>1. CASE Good = {}
    <3>1. n \in 0..n /\ n + 1 \notin DOMAIN q
      BY <1>0
    <3> QED BY <2>1, <3>1
  <2>2. CASE Good # {}
    <3>1. PICK o \in Good : \A p \in Good : o <= p
      <4>1. Good \in SUBSET Nat
        BY <1>0
      <4> QED BY <2>2, <4>1, LeastNat
    <3>2. o - 1 \in 0..n /\ (o - 1) + 1 = o
      BY <1>0, <3>1
    <3>3. \A i \in 1..(o - 1) : i \in 1..n /\ ~(o <= i)
      BY <1>0, <3>1
    <3>4. \A i \in 1..(o - 1) : q[i] \in Invalid
      BY <3>1, <3>3
    <3>5. Fits(o - 1)
      BY <3>1, <3>2, <3>4
    <3> QED BY <3>2, <3>5
  <2> QED BY <2>1, <2>2
<1>2. Skipped(f) = CHOOSE s \in 0..n : Fits(s)
  BY <1>0 DEF Skipped
<1>3. Skipped(f) \in 0..n /\ Fits(Skipped(f))
  BY <1>1, <1>2
<1>4. Skipped(f) < n => Skipped(f) + 1 \in DOMAIN q
  BY <1>0, <1>3
<1> QED BY <1>3, <1>4
-----------------------------------------------------------------------------
(* What the controller has is the frame last loaded, and whatever could be *)
(* sent up to that one was on the bus, was lost by it, or is in there.     *)
Settled(m) == m \in sent \cup dropped \cup {hw}
BusInv ==
    /\ hw \in {NoMsg, tx_msg}
    /\ tx_msg \in accepted \cup {NoMsg}
    /\ last # 0 => tx_msg # NoMsg /\ last <= tx_msg
    /\ \A m \in accepted \ Invalid : tx_msg # NoMsg /\ m <= tx_msg => Settled(m)

(* Whose turn it is to dequeue: while the controller has a frame, so that  *)
(* an interrupt may come, the main loop keeps away from the ring's end.    *)
Dequeues == {"look", "read", "step", "load"}
TurnInv ==
    /\ hw # NoMsg => /\ is_sending \/ pc = "flag"
                     /\ pc \notin Dequeues \cup {"resend"}
                     /\ direct => pc \notin {"push", "overrun", "full"}
    /\ pc = "resend" => is_sending
    /\ pc \in Dequeues /\ ~direct => is_sending

(* The ring holds what waits, but for the frame the main loop has just     *)
(* taken out, which is the first of them.                                  *)
InRing == IF pc = "load" THEN {m \in accepted : m > pack} ELSE Waiting
FifoInv ==
    /\ Holds(fifo, InRing)
    /\ pc \in {"test", "push"} => given \in Frames /\ given \notin accepted
    /\ pc = "overrun" => fifo.en # fifo.de
    /\ pc \in {"read", "step"} => Count(fifo) > 0
    /\ pc = "step" => pack = Queued(fifo)[1]
    /\ pc = "load" => /\ pack \in accepted
                      /\ tx_msg # NoMsg => tx_msg < pack
                      /\ \A m \in Waiting : pack <= m
DriverInv == TypeOK /\ BusInv /\ TurnInv /\ FifoInv

LEMMA FrameFacts ==
    ASSUME DriverInv
    PROVE  /\ given \in 0..MaxFrames /\ accepted \in SUBSET (1..given)
           /\ accepted \in SUBSET Frames /\ Waiting \in SUBSET Frames
           /\ InRing \in SUBSET Frames
           /\ tx_msg \in Frames \cup {NoMsg} /\ NoMsg \notin Frames
           /\ Frames \subseteq Nat \ {0} /\ fifo \in Rings
<1>1. given \in 0..MaxFrames /\ accepted \in SUBSET (1..given)
      /\ tx_msg \in Frames \cup {NoMsg}
  BY DEF DriverInv, TypeOK
<1>2. accepted \in SUBSET Frames
  BY <1>1, CanSizes DEF Frames
<1>3. Waiting \in SUBSET Frames /\ InRing \in SUBSET Frames
  BY <1>2 DEF Waiting, InRing
<1>4. fifo \in Rings
  BY DEF DriverInv, FifoInv, Holds
<1> QED BY <1>1, <1>2, <1>3, <1>4, CanSizes

LEMMA DriverInit == Init => DriverInv
<1> SUFFICES ASSUME Init PROVE DriverInv
  OBVIOUS
<1>1. EmptyFifo \in Rings /\ EmptyFifo.en = 0 /\ EmptyFifo.de = 0
  BY CanSizes DEF EmptyFifo, Rings, Fifo
<1>2. fifo \in Rings /\ Count(fifo) = 0
  BY <1>1, CanSizes, ModSmall DEF Init, Count
<1>3. InRing = {}
  BY DEF Init, InRing, Waiting
<1>4. Holds(fifo, InRing)
  BY <1>2, <1>3 DEF Holds
<1>5. TypeOK
  <2>1. fifo \in Fifo(Frames) /\ 0 \in 0..MaxRetrain /\ 0 \in 0..MaxFrames
    BY <1>2, CanSizes DEF Rings
  <2> QED BY <2>1 DEF Init, TypeOK, Points
<1>6. BusInv /\ TurnInv
  BY DEF Init, BusInv, TurnInv, Dequeues
<1>7. FifoInv
  BY <1>4 DEF Init, FifoInv
<1> QED BY <1>5, <1>6, <1>7 DEF DriverInv

(* Steps that leave the ring and what is taken out of it alone. *)
LEMMA HoldsStill ==
    ASSUME DriverInv, UNCHANGED <<fifo, tx_msg, accepted>>,
           pc # "load", pc' # "load"
    PROVE  Holds(fifo, InRing)' /\ Waiting' = Waiting
<1>1. Waiting' = Waiting
  BY DEF Waiting
<1>2. InRing' = InRing
  BY <1>1 DEF InRing
<1>3. Holds(fifo', InRing')
  BY <1>2 DEF DriverInv, FifoInv
<1> QED BY <1>1, <1>3 DEF Holds

LEMMA SendKeeps == DriverInv /\ Send => DriverInv'
<1> SUFFICES ASSUME DriverInv, Send PROVE DriverInv'
  OBVIOUS
<1>1. given' \in Frames /\ given' \notin accepted' /\ given' \in 0..MaxFrames
      /\ accepted' \in SUBSET (1..given')
  BY FrameFacts, CanSizes DEF Send, Frames
<1>2. TypeOK'
  BY <1>1 DEF DriverInv, TypeOK, Send, driver, Points
<1>3. BusInv'
  BY DEF DriverInv, BusInv, Settled, Send, driver
<1>4. TurnInv'
  BY DEF DriverInv, TurnInv, Dequeues, Send, driver
<1>5. Holds(fifo, InRing)'
  BY HoldsStill DEF Send, driver
<1>6. FifoInv'
  BY <1>1, <1>5 DEF FifoInv, Send
<1> QED BY <1>2, <1>3, <1>4, <1>6 DEF DriverInv

LEMMA TestSendingKeeps == DriverInv /\ TestSending => DriverInv'
<1> SUFFICES ASSUME DriverInv, TestSending PROVE DriverInv'
  OBVIOUS
<1>2. TypeOK'
  BY DEF DriverInv, TypeOK, TestSending, driver, bus, Points
<1>3. BusInv'
  BY DEF DriverInv, BusInv, Settled, TestSending, driver, bus
<1>4. TurnInv'
  BY DEF DriverInv, TurnInv, Dequeues, TestSending, driver, bus
<1>5. Holds(fifo, InRing)'
  BY HoldsStill DEF TestSending, driver, bus
<1>6. FifoInv'
  BY <1>5 DEF DriverInv, FifoInv, TestSending, driver, bus
<1> QED BY <1>2, <1>3, <1>4, <1>6 DEF DriverInv

LEMMA PushKeeps == DriverInv /\ Push => DriverInv'
<1> SUFFICES ASSUME DriverInv, Push PROVE DriverInv'
  OBVIOUS
<1>0. given \in Frames /\ given \notin accepted /\ Holds(fifo, Waiting)
  BY DEF DriverInv, FifoInv, InRing, Push
<1>1. CASE bkfifo_is_full(fifo)
  <2>2. TypeOK'
    BY <1>1 DEF DriverInv, TypeOK, Push, Points
  <2>3. BusInv'
    BY <1>1 DEF DriverInv, BusInv, Settled, Push
  <2>4. TurnInv'
    BY <1>1 DEF DriverInv, TurnInv, Dequeues, Push
  <2>5. Holds(fifo, InRing)'
    BY <1>1, HoldsStill DEF Push
  <2>6. FifoInv'
    BY <1>1, <2>5 DEF FifoInv, Push
  <2> QED BY <2>2, <2>3, <2>4, <2>6 DEF DriverInv
<1>2. CASE ~bkfifo_is_full(fifo)
  <2>1. \A o \in accepted : o < given
    BY <1>0, FrameFacts
  <2>2. Waiting' = Waiting \cup {given}
    <3>1. tx_msg # NoMsg => given > tx_msg
      BY <2>1, FrameFacts, CanSizes DEF DriverInv, BusInv
    <3>2. accepted' = accepted \cup {given} /\ tx_msg' = tx_msg
      BY <1>2 DEF Push
    <3> QED BY <3>1, <3>2 DEF Waiting
  <2>3. Holds(fifo', Waiting \cup {given}) /\ fifo'.en # fifo'.de
    <3>1. \A o \in Waiting : o < given
      BY <2>1 DEF Waiting
    <3>2. fifo' = bkfifo_en_store(fifo, given)
      BY <1>2 DEF Push
    <3> QED BY <1>0, <1>2, <3>1, <3>2, FrameFacts, HoldsMore
  <2>4. pc = "push" /\ pc' = "overrun"
    BY <1>2 DEF Push
  <2>5. TypeOK'
    <3>1. fifo' \in Fifo(Frames)
      BY <2>3 DEF Holds, Rings
    <3>2. accepted' \in SUBSET (1..given')
      BY <1>0, <1>2, FrameFacts, CanSizes DEF Push
    <3> QED BY <1>2, <3>1, <3>2 DEF DriverInv, TypeOK, Push, Points
  <2>6. BusInv'
    <3>1. tx_msg # NoMsg => ~(given <= tx_msg)
      BY <1>0, <2>1, FrameFacts, CanSizes DEF DriverInv, BusInv
    <3>2. \A m \in accepted' : m \in accepted \/ m = given
      BY <1>2 DEF Push
    <3> QED BY <1>2, <3>1, <3>2 DEF DriverInv, BusInv, Settled, Push
  <2>7. TurnInv'
    BY <1>2 DEF DriverInv, TurnInv, Dequeues, Push
  <2>8. FifoInv'
    <3>1. InRing' = Waiting \cup {given}
      BY <2>2, <2>4 DEF InRing
    <3>2. Holds(fifo', InRing')
      BY <2>3, <3>1
    <3>3. Holds(fifo, InRing)'
      BY <3>2 DEF Holds
    <3> QED BY <2>3, <2>4, <3>3 DEF FifoInv
  <2> QED BY <2>5, <2>6, <2>7, <2>8 DEF DriverInv
<1> QED BY <1>1, <1>2

LEMMA PushedKeeps == DriverInv /\ Pushed => DriverInv'
<1> SUFFICES ASSUME DriverInv, Pushed PROVE DriverInv'
  OBVIOUS
<1>1. fifo' = fifo
  BY DEF DriverInv, FifoInv, Pushed, bkfifo_en_overrun
<1>2. TypeOK'
  BY <1>1 DEF DriverInv, TypeOK, Pushed, bus, Points
<1>3. BusInv'
  BY DEF DriverInv, BusInv, Settled, Pushed, bus
<1>4. TurnInv'
  BY DEF DriverInv, TurnInv, Dequeues, Pushed, bus
<1>5. Holds(fifo, InRing)'
  BY <1>1, HoldsStill DEF Pushed, bus
<1>6. FifoInv'
  BY <1>5 DEF FifoInv, Pushed
<1> QED BY <1>2, <1>3, <1>4, <1>6 DEF DriverInv

LEMMA LookKeeps == DriverInv /\ Look => DriverInv'
<1> SUFFICES ASSUME DriverInv, Look PROVE DriverInv'
  OBVIOUS
<1>1. pc' = "read" => Count(fifo') > 0
  BY FrameFacts, EmptyIs, RingFacts DEF Look
<1>2. TypeOK'
  BY DEF DriverInv, TypeOK, Look, bus, Points
<1>3. BusInv'
  BY DEF DriverInv, BusInv, Settled, Look, bus
<1>4. TurnInv'
  BY DEF DriverInv, TurnInv, Dequeues, Look, bus
<1>5. Holds(fifo, InRing)'
  BY HoldsStill DEF Look, bus
<1>6. FifoInv'
  <2>1. (Count(fifo) > 0)' <=> Count(fifo') > 0
    BY DEF Count
  <2> QED BY <1>1, <1>5, <2>1 DEF FifoInv, Look
<1> QED BY <1>2, <1>3, <1>4, <1>6 DEF DriverInv

LEMMA ReadKeeps == DriverInv /\ Read => DriverInv'
<1> SUFFICES ASSUME DriverInv, Read PROVE DriverInv'
  OBVIOUS
<1>1. Count(fifo) > 0 /\ pc = "read" /\ fifo' = fifo /\ pc' = "step"
  BY DEF DriverInv, FifoInv, Read, driver
<1>2. pack' = Queued(fifo)[1] /\ pack' \in Frames
  <2>1. 1 \in 1..Count(fifo) /\ fifo.de + 1 - 1 = fifo.de /\ fifo.de < MaxMsgNum
        /\ fifo.de % MaxMsgNum = fifo.de
    <3>1. fifo.de \in 0..(MaxMsgNum - 1) /\ Count(fifo) \in Nat
      BY FrameFacts, RingFacts, CanSizes
    <3>2. fifo.de % MaxMsgNum = fifo.de
      BY <3>1, CanSizes, ModSmall
    <3> QED BY <1>1, <3>1, <3>2, CanSizes
  <2>2. Queued(fifo)[1] = fifo.buf[fifo.de]
    BY <2>1, FrameFacts, QueuedIs
  <2>3. Queued(fifo)[1] \in InRing
    BY <2>1 DEF DriverInv, FifoInv, Holds
  <2> QED BY <2>1, <2>2, <2>3, FrameFacts DEF Read, bkfifo_de_read
<1>3. TypeOK'
  BY <1>2 DEF DriverInv, TypeOK, Read, driver, bus, Points
<1>4. BusInv'
  BY DEF DriverInv, BusInv, Settled, Read, driver, bus
<1>5. TurnInv'
  BY DEF DriverInv, TurnInv, Dequeues, Read, driver, bus
<1>6. Holds(fifo, InRing)'
  BY HoldsStill DEF Read, driver, bus
<1>7. FifoInv'
  <2>1. (Count(fifo) > 0)' /\ (pack = Queued(fifo)[1])'
    BY <1>1, <1>2 DEF Count, Queued
  <2> QED BY <1>1, <1>6, <2>1 DEF FifoInv
<1> QED BY <1>3, <1>4, <1>5, <1>7 DEF DriverInv

LEMMA StepKeeps == DriverInv /\ Step => DriverInv'
<1> SUFFICES ASSUME DriverInv, Step PROVE DriverInv'
  OBVIOUS
<1>1. /\ pc = "step" /\ pc' = "load" /\ pack' = pack /\ tx_msg' = tx_msg
      /\ accepted' = accepted /\ Holds(fifo, Waiting) /\ pack = Queued(fifo)[1]
      /\ 1 \in 1..Count(fifo)
  BY FrameFacts, RingFacts DEF DriverInv, FifoInv, InRing, Step, bus
<1>2. pack \in Waiting /\ \A m \in Waiting : pack <= m
  <2>1. /\ \A i \in 1..Count(fifo) : Queued(fifo)[i] \in Waiting
        /\ \A i, j \in 1..Count(fifo) : i < j => Queued(fifo)[i] < Queued(fifo)[j]
        /\ \A m \in Waiting : \E i \in 1..Count(fifo) : Queued(fifo)[i] = m
    BY <1>1 DEF Holds
  <2>2. ASSUME NEW m \in Waiting PROVE pack <= m
    <3>1. PICK i \in 1..Count(fifo) : Queued(fifo)[i] = m
      BY <2>1
    <3>2. i = 1 \/ 1 < i
      BY <1>1
    <3>3. pack \in Nat /\ m \in Nat
      BY <1>1, <2>1, FrameFacts
    <3>4. i = 1 => pack = m
      BY <1>1, <3>1
    <3>5. 1 < i => pack < m
      BY <1>1, <2>1, <3>1
    <3> QED BY <3>2, <3>3, <3>4, <3>5
  <2> QED BY <1>1, <2>1, <2>2
<1>3. pack \in accepted /\ (tx_msg # NoMsg => tx_msg < pack)
  BY <1>2, FrameFacts DEF Waiting
<1>4. Waiting' = Waiting
  BY <1>1 DEF Waiting
<1>5. InRing' = {m \in Waiting : m > pack}
  <2>1. InRing' = {m \in accepted : m > pack}
    BY <1>1 DEF InRing
  <2>2. ASSUME NEW m \in accepted, m > pack PROVE m \in Waiting
    BY <1>3, <2>2, FrameFacts DEF Waiting
  <2> QED BY <2>1, <2>2 DEF Waiting
<1>6. Holds(fifo, InRing)'
  <2>1. fifo' = [fifo EXCEPT !.de = (fifo.de + 1) % MaxMsgNum]
    BY DEF Step, bkfifo_de_step
  <2>2. Holds(fifo', {m \in Waiting : m > pack})
    BY <1>1, <2>1, FrameFacts, HoldsLess
  <2>3. Holds(fifo', InRing')
    BY <1>5, <2>2
  <2> QED BY <2>3 DEF Holds
<1>7. TypeOK'
  <2>1. fifo' \in Fifo(Frames)
    BY <1>6 DEF Holds, Rings
  <2> QED BY <2>1 DEF DriverInv, TypeOK, Step, bus, Points
<1>8. BusInv'
  BY DEF DriverInv, BusInv, Settled, Step, bus
<1>9. TurnInv'
  BY DEF DriverInv, TurnInv, Dequeues, Step, bus
<1>10. FifoInv'
  BY <1>1, <1>2, <1>3, <1>4, <1>6 DEF FifoInv
<1> QED BY <1>7, <1>8, <1>9, <1>10 DEF DriverInv

LEMMA LoadKeeps == DriverInv /\ Load => DriverInv'
<1> SUFFICES ASSUME DriverInv, Load PROVE DriverInv'
  OBVIOUS
<1>1. /\ pc = "load" /\ tx_msg' = pack /\ pc' \in {"look", "flag", "idle"}
      /\ pack \in accepted /\ (tx_msg # NoMsg => tx_msg < pack)
      /\ \A m \in Waiting : pack <= m
      /\ accepted' = accepted /\ fifo' = fifo /\ hw = NoMsg
  BY DEF DriverInv, TurnInv, Dequeues, FifoInv, Load, bus
<1>2. pack \in Frames /\ pack # NoMsg
  BY <1>1, FrameFacts
<1>3. TypeOK'
  BY <1>2 DEF DriverInv, TypeOK, Load, bus, Points
<1>4. BusInv'
  <2>1. hw' \in {NoMsg, tx_msg'} /\ tx_msg' \in accepted' \cup {NoMsg}
    BY <1>1 DEF Load
  <2>2. last # 0 => last <= pack
    <3>1. last \in accepted \cup {0}
      BY DEF DriverInv, TypeOK
    <3>2. last # 0 => tx_msg # NoMsg /\ last <= tx_msg
      BY DEF DriverInv, BusInv
    <3> QED BY <1>1, <1>2, <3>1, <3>2, FrameFacts
  <2>3. ASSUME NEW m \in accepted \ Invalid, m <= pack
        PROVE  m \in sent \cup dropped \cup {hw'}
    <3>1. CASE m = pack
      BY <1>1, <3>1, <2>3 DEF Load
    <3>2. CASE m # pack
      <4>1. m \notin Waiting
        BY <1>1, <1>2, <2>3, <3>2, FrameFacts
      <4>2. tx_msg # NoMsg /\ m <= tx_msg /\ m # NoMsg
        BY <4>1, FrameFacts DEF Waiting
      <4>3. m \in sent \cup dropped \cup {hw}
        BY <4>2 DEF DriverInv, BusInv, Settled
      <4> QED BY <1>1, <4>2, <4>3
    <3> QED BY <3>1, <3>2
  <2>4. last' = last /\ sent' = sent /\ dropped' = dropped
    BY DEF Load, bus
  <2>5. \A m \in accepted' \ Invalid : m <= tx_msg' => m \in (sent \cup dropped \cup {hw})'
    BY <1>1, <2>3, <2>4
  <2> QED BY <1>1, <1>2, <2>1, <2>2, <2>4, <2>5 DEF BusInv, Settled
<1>5. TurnInv'
  BY <1>1 DEF DriverInv, TurnInv, Dequeues, Load, bus
<1>6. Holds(fifo, InRing)'
  <2>1. InRing' = InRing
    <3>1. InRing = {m \in accepted : m > pack}
      BY <1>1 DEF InRing
    <3>2. InRing' = {m \in accepted : m > pack}
      BY <1>1, <1>2 DEF InRing, Waiting
    <3> QED BY <3>1, <3>2
  <2>2. Holds(fifo', InRing')
    BY <1>1, <2>1 DEF DriverInv, FifoInv
  <2> QED BY <2>2 DEF Holds
<1>7. FifoInv'
  BY <1>1, <1>6 DEF FifoInv
<1> QED BY <1>3, <1>4, <1>5, <1>7 DEF DriverInv

LEMMA FlagKeeps == DriverInv /\ Flag => DriverInv'
<1> SUFFICES ASSUME DriverInv, Flag PROVE DriverInv'
  OBVIOUS
<1>2. TypeOK'
  BY DEF DriverInv, TypeOK, Flag, bus, Points
<1>3. BusInv'
  BY DEF DriverInv, BusInv, Settled, Flag, bus
<1>4. TurnInv'
  BY DEF DriverInv, TurnInv, Dequeues, Flag, bus
<1>5. Holds(fifo, InRing)'
  BY HoldsStill DEF Flag, bus
<1>6. FifoInv'
  BY <1>5 DEF FifoInv, Flag
<1> QED BY <1>2, <1>3, <1>4, <1>6 DEF DriverInv

LEMMA TimeoutKeeps ==
    ASSUME BusPrompt
    PROVE  DriverInv /\ Timeout => DriverInv'
<1> SUFFICES ASSUME DriverInv, Timeout PROVE DriverInv'
  OBVIOUS
<1>2. TypeOK'
  BY DEF DriverInv, TypeOK, Timeout, driver, bus, Points
<1>3. BusInv'
  BY DEF DriverInv, BusInv, Settled, Timeout, driver, bus
<1>4. TurnInv'
  BY DEF DriverInv, TurnInv, Dequeues, Timeout, driver, bus
<1>5. Holds(fifo, InRing)'
  BY HoldsStill DEF Timeout, driver, bus
<1>6. FifoInv'
  BY <1>5 DEF FifoInv, Timeout
<1> QED BY <1>2, <1>3, <1>4, <1>6 DEF DriverInv

LEMMA RetrainSendKeeps == DriverInv /\ RetrainSend => DriverInv'
<1> SUFFICES ASSUME DriverInv, RetrainSend PROVE DriverInv'
  OBVIOUS
<1>1. hw = NoMsg /\ is_sending /\ pc = "resend" /\ pc' \in {"idle", "look"}
      /\ retrain' \in 0..MaxRetrain /\ hw' \in {NoMsg, tx_msg}
  BY CanSizes DEF DriverInv, TypeOK, TurnInv, RetrainSend
<1>2. TypeOK'
  BY <1>1 DEF DriverInv, TypeOK, RetrainSend, bus, Points
<1>3. BusInv'
  BY <1>1, FrameFacts DEF DriverInv, BusInv, Settled, RetrainSend, bus
<1>4. TurnInv'
  BY <1>1 DEF DriverInv, TurnInv, Dequeues, RetrainSend, bus
<1>5. Holds(fifo, InRing)'
  BY <1>1, HoldsStill DEF RetrainSend, bus
<1>6. FifoInv'
  BY <1>1, <1>5 DEF FifoInv
<1> QED BY <1>2, <1>3, <1>4, <1>6 DEF DriverInv

LEMMA BusDropKeeps == DriverInv /\ BusDrop => DriverInv'
<1> SUFFICES ASSUME DriverInv, BusDrop PROVE DriverInv'
  OBVIOUS
<1>1. hw \in accepted
  BY DEF DriverInv, BusInv, BusDrop
<1>2. TypeOK'
  BY <1>1 DEF DriverInv, TypeOK, BusDrop, driver, main
<1>3. BusInv'
  BY DEF DriverInv, BusInv, Settled, BusDrop, driver, main
<1>4. TurnInv'
  BY DEF DriverInv, TurnInv, Dequeues, BusDrop, driver, main
<1>5. Waiting' = Waiting /\ InRing' = InRing /\ fifo' = fifo /\ pc' = pc
      /\ pack' = pack /\ given' = given /\ accepted' = accepted /\ tx_msg' = tx_msg
  BY DEF Waiting, InRing, BusDrop, driver, main
<1>6. Holds(fifo, InRing)'
  <2>1. Holds(fifo', InRing')
    BY <1>5 DEF DriverInv, FifoInv
  <2> QED BY <2>1 DEF Holds
<1>7. FifoInv'
  <2>1. Count(fifo)' = Count(fifo) /\ Queued(fifo)' = Queued(fifo)
    BY <1>5 DEF Count, Queued
  <2> QED BY <1>5, <1>6, <2>1 DEF DriverInv, FifoInv
<1> QED BY <1>2, <1>3, <1>4, <1>7 DEF DriverInv

(* The interrupt takes k frames out, the last of which it loads unless it  *)
(* cannot be sent; it has reported the frame loaded before.                *)
LEMMA IrqTakes ==
    ASSUME DriverInv, hw # NoMsg, pc \notin Dequeues,
           NEW k \in 1..Count(fifo),
           fifo' = [fifo EXCEPT !.de = (fifo.de + k) % MaxMsgNum],
           tx_msg' = Queued(fifo)[k],
           \A i \in 1..(k - 1) : Queued(fifo)[i] \in Invalid,
           \/ hw' = tx_msg'
           \/ hw' = NoMsg /\ Queued(fifo)[k] \in Invalid,
           sent' = sent \cup {hw}, last' = hw,
           UNCHANGED <<pc, pack, given, accepted, dropped>>
    PROVE  /\ fifo' \in Fifo(Frames) /\ tx_msg' \in Frames /\ BusInv'
           /\ Holds(fifo, InRing)'
<1> DEFINE q == Queued(fifo)
           c == Count(fifo)
<1>0. /\ Holds(fifo, Waiting) /\ pc # "load" /\ c \in Nat /\ k \in 1..c
      /\ hw = tx_msg /\ tx_msg \in accepted /\ tx_msg \in Nat
  BY FrameFacts, RingFacts DEF DriverInv, FifoInv, InRing, Dequeues, BusInv
<1>1. /\ \A i \in 1..c : q[i] \in Waiting
      /\ \A i, j \in 1..c : i < j => q[i] < q[j]
      /\ \A m \in Waiting : \E i \in 1..c : q[i] = m
  BY <1>0 DEF Holds
<1>2. q[k] \in Waiting /\ q[k] \in accepted /\ q[k] > tx_msg /\ q[k] \in Frames
  BY <1>0, <1>1, FrameFacts DEF Waiting
<1>3. InRing' = {m \in Waiting : m > q[k]}
  <2>1. InRing' = {m \in accepted : m > q[k]}
    BY <1>0, <1>2, FrameFacts DEF InRing, Waiting
  <2>2. ASSUME NEW m \in accepted, m > q[k] PROVE m \in Waiting
    BY <1>0, <1>2, <2>2, FrameFacts DEF Waiting
  <2> QED BY <2>1, <2>2 DEF Waiting
<1>4. Holds(fifo, InRing)'
  <2>1. Holds(fifo', {m \in Waiting : m > q[k]})
    BY <1>0, FrameFacts, HoldsLess
  <2>2. Holds(fifo', InRing')
    BY <1>3, <2>1
  <2> QED BY <2>2 DEF Holds
<1>5. ASSUME NEW m \in accepted \ Invalid, m <= q[k]
      PROVE  m \in sent' \cup dropped' \cup {hw'}
  <2>1. CASE m <= tx_msg
    <3>1. m \in sent \cup dropped \cup {hw}
      BY <1>0, <2>1, FrameFacts DEF DriverInv, BusInv, Settled
    <3> QED BY <3>1
  <2>2. CASE ~(m <= tx_msg)
    <3>1. m \in Waiting
      BY <1>0, <2>2, FrameFacts DEF Waiting
    <3>2. PICK i \in 1..c : q[i] = m
      BY <1>1, <3>1
    <3>3. ~(k < i)
      BY <1>0, <1>1, <1>2, <1>5, <3>2, FrameFacts
    <3>4. ~(i < k)
      <4>1. i < k => i \in 1..(k - 1)
        BY <1>0
      <4> QED BY <1>5, <3>2, <4>1
    <3>5. m = q[k]
      BY <1>0, <3>2, <3>3, <3>4
    <3> QED BY <1>5, <3>5
  <2> QED BY <2>1, <2>2
<1>6. BusInv'
  <2> HIDE DEF q
  <2>1. tx_msg' = q[k] /\ hw' \in {NoMsg, tx_msg'}
    BY DEF q
  <2>2. \A m \in accepted' \ Invalid : m <= tx_msg' => m \in (sent \cup dropped \cup {hw})'
    BY <1>5, <2>1
  <2>3. last' <= tx_msg' /\ tx_msg' # NoMsg /\ tx_msg' \in accepted'
    BY <1>0, <1>2, <2>1, FrameFacts
  <2> QED BY <2>1, <2>2, <2>3 DEF BusInv, Settled
<1>7. fifo' \in Fifo(Frames)
  BY <1>4 DEF Holds, Rings
<1> QED BY <1>2, <1>4, <1>6, <1>7

LEMMA IrqKeeps ==
    ASSUME ~IrqInEnqueue
    PROVE  DriverInv /\ Irq => DriverInv'
<1> SUFFICES ASSUME DriverInv, Irq PROVE DriverInv'
  OBVIOUS
<1> DEFINE n == Skipped(fifo)
           q == Queued(fifo)
           c == Count(fifo)
<1>0. /\ hw # NoMsg /\ hw = tx_msg /\ hw \in accepted /\ hw \in Frames
      /\ pc \notin Dequeues \cup {"resend", "overrun"}
      /\ sent' = sent \cup {hw} /\ last' = hw
      /\ UNCHANGED <<retrain, pc, direct, pack, given, accepted, dropped>>
      /\ IrqTransmit
  BY FrameFacts DEF DriverInv, BusInv, TurnInv, Irq, main
<1>1. /\ c \in Nat /\ Len(q) = c /\ n \in 0..c
      /\ \A i \in 1..n : q[i] \in Invalid
      /\ (fifo.de + c) % MaxMsgNum = fifo.en
  BY FrameFacts, RingFacts, QueuedIs, SkippedIs
<1> HIDE DEF n, q, c
<1>2. /\ n = c => /\ is_sending' = FALSE /\ hw' = NoMsg
                  /\ fifo' = [fifo EXCEPT !.de = fifo.en]
                  /\ tx_msg' = IF n = 0 THEN tx_msg ELSE q[n]
      /\ n # c => /\ hw' = q[n + 1] /\ tx_msg' = q[n + 1]
                  /\ fifo' = [fifo EXCEPT !.de = (fifo.de + n + 1) % MaxMsgNum]
                  /\ is_sending' = is_sending
  BY <1>0, <1>1 DEF IrqTransmit, n, q
<1>3. /\ fifo' \in Fifo(Frames) /\ tx_msg' \in Frames /\ BusInv'
      /\ Holds(fifo, InRing)'
  <2>1. CASE n = c /\ n = 0
    <3>1. fifo' \in Rings /\ Count(fifo') = 0
      <4>1. /\ fifo \in Rings /\ fifo.en \in 0..(MaxMsgNum - 1)
            /\ fifo' = [fifo EXCEPT !.de = fifo.en]
        BY <1>2, <2>1, FrameFacts, RingFacts
      <4>2. fifo'.en = fifo.en /\ fifo'.de = fifo.en /\ fifo' \in Rings
        BY <4>1, CanSizes DEF Rings, Fifo
      <4> QED BY <4>1, <4>2, CanSizes, ModSmall DEF Count
    <3>2. Waiting = {}
      <4>1. Holds(fifo, Waiting)
        BY <1>0 DEF DriverInv, FifoInv, InRing, Dequeues
      <4> QED BY <2>1, <4>1 DEF Holds, c
    <3>3. tx_msg' = tx_msg /\ hw' = NoMsg
      BY <1>2, <2>1
    <3>4. InRing' = {}
      BY <1>0, <3>2, <3>3 DEF InRing, Waiting, Dequeues
    <3>5. Holds(fifo', InRing')
      BY <3>1, <3>4 DEF Holds
    <3>6. Holds(fifo, InRing)'
      BY <3>5 DEF Holds
    <3>7. BusInv'
      BY <1>0, <3>3, FrameFacts DEF DriverInv, BusInv, Settled
    <3> QED BY <1>0, <3>1, <3>3, <3>6, <3>7 DEF Rings
  <2>2. CASE n = c /\ n # 0
    <3>1. /\ n \in 1..c /\ fifo' = [fifo EXCEPT !.de = (fifo.de + n) % MaxMsgNum]
          /\ tx_msg' = q[n] /\ hw' = NoMsg /\ q[n] \in Invalid
          /\ \A i \in 1..(n - 1) : q[i] \in Invalid
      BY <1>1, <1>2, <2>2
    <3> QED BY <1>0, <3>1, IrqTakes DEF q, c
  <2>3. CASE n # c
    <3>1. /\ n + 1 \in 1..c /\ (n + 1) - 1 = n
          /\ fifo.de + n + 1 = fifo.de + (n + 1)
      <4>1. fifo.de \in 0..(MaxMsgNum - 1)
        BY FrameFacts, RingFacts
      <4>2. fifo.de \in Int /\ n \in Int
        BY <1>1, <4>1, CanSizes
      <4>3. n + 1 \in 1..c /\ (n + 1) - 1 = n
        BY <1>1, <2>3
      <4>4. \A x, y \in Int : x + y + 1 = x + (y + 1)
        OBVIOUS
      <4> QED BY <4>2, <4>3, <4>4
    <3>2. /\ fifo' = [fifo EXCEPT !.de = (fifo.de + (n + 1)) % MaxMsgNum]
          /\ tx_msg' = q[n + 1] /\ hw' = tx_msg'
          /\ \A i \in 1..((n + 1) - 1) : q[i] \in Invalid
      BY <1>1, <1>2, <2>3, <3>1
    <3> QED BY <1>0, <3>1, <3>2, IrqTakes DEF q, c
  <2> QED BY <2>1, <2>2, <2>3
<1>4. hw' \in {NoMsg, tx_msg'} /\ is_sending' \in BOOLEAN
      /\ (hw' # NoMsg => is_sending' = is_sending)
  BY <1>2 DEF DriverInv, TypeOK
<1>5. TypeOK'
  BY <1>0, <1>3, <1>4 DEF DriverInv, TypeOK
<1>6. TurnInv'
  BY <1>0, <1>4 DEF DriverInv, TurnInv, Dequeues
<1>7. FifoInv'
  BY <1>0, <1>3 DEF DriverInv, FifoInv, Dequeues
<1> QED BY <1>3, <1>5, <1>6, <1>7 DEF DriverInv

LEMMA DriverStep ==
    ASSUME ~IrqInEnqueue, BusPrompt
    PROVE  DriverInv /\ [Next]_vars => DriverInv'
<1> SUFFICES ASSUME DriverInv, [Next]_vars PROVE DriverInv'
  OBVIOUS
<1>1. CASE UNCHANGED vars
  <2>1. UNCHANGED <<fifo, is_sending, tx_msg, retrain, pc, direct, pack, hw,
                    given, accepted, sent, last, dropped>>
    BY <1>1 DEF vars, driver, main, bus
  <2>2. TypeOK' /\ BusInv' /\ TurnInv'
    BY <2>1 DEF DriverInv, TypeOK, BusInv, Settled, TurnInv
  <2>3. FifoInv'
    <3>1. InRing' = InRing /\ Waiting' = Waiting
      BY <2>1 DEF InRing, Waiting
    <3>2. Holds(fifo', InRing')
      BY <2>1, <3>1 DEF DriverInv, FifoInv
    <3>3. Holds(fifo, InRing)'
      BY <3>2 DEF Holds
    <3>4. Count(fifo)' = Count(fifo) /\ Queued(fifo)' = Queued(fifo)
      BY <2>1 DEF Count, Queued
    <3> QED BY <2>1, <3>1, <3>3, <3>4 DEF DriverInv, FifoInv
  <2> QED BY <2>2, <2>3 DEF DriverInv
<1> QED BY <1>1, SendKeeps, TestSendingKeeps, PushKeeps, PushedKeeps, LookKeeps,
           ReadKeeps, StepKeeps, LoadKeeps, FlagKeeps, TimeoutKeeps,
           RetrainSendKeeps, IrqKeeps, BusDropKeeps DEF Next, Driver

LEMMA DriverAlways ==
    ASSUME ~IrqInEnqueue, BusPrompt
    PROVE  Spec => []DriverInv
BY DriverInit, DriverStep, PTL DEF Spec

(* The driver's state keeps its types: bkfifo's correction never leaves an *)
(* index outside the ring.                                                 *)
THEOREM CanTypeCorrect ==
    ASSUME ~IrqInEnqueue, BusPrompt
    PROVE  Spec => [](TypeOK /\ fifo.de < MaxMsgNum)
<1>1. DriverInv => TypeOK /\ fifo.de < MaxMsgNum
  BY FrameFacts DEF DriverInv, Rings
<1> QED BY <1>1, DriverAlways, PTL

(* A ring that holds a set of frames in order holds each of them once.     *)
LEMMA HoldsAll ==
    ASSUME NEW f, NEW frames \in SUBSET Frames, Holds(f, frames)
    PROVE  Count(f) \in Nat /\ Cardinality(frames) = Count(f)
<1> DEFINE c == Count(f)
           at == [i \in 1..c |-> Queued(f)[i]]
<1>0. c \in Nat
  BY RingFacts DEF Holds
<1>1. /\ \A i \in 1..c : at[i] \in frames
      /\ \A i, j \in 1..c : i < j => at[i] < at[j]
      /\ \A m \in frames : \E i \in 1..c : at[i] = m
  BY DEF Holds
<1>2. at \in [1..c -> frames]
  BY <1>1
<1> HIDE DEF at, c
<1>3. ASSUME NEW i \in 1..c, NEW j \in 1..c, at[i] = at[j] PROVE i = j
  <2>1. at[i] \in Nat /\ at[j] \in Nat
    BY <1>1, CanSizes
  <2>2. ~(i < j) /\ ~(j < i)
    BY <1>1, <1>3, <2>1
  <2> QED BY <1>0, <2>2
<1>4. at \in Bijection(1..c, frames)
  BY <1>1, <1>2, <1>3, Zenon DEF Bijection, Injection, Surjection, IsInjective
<1>5. ExistsBijection(1..c, frames)
  BY <1>4 DEF ExistsBijection
<1>6. Cardinality(frames) = c
  BY <1>0, <1>5, FS_CountingElements
<1> QED BY <1>0, <1>6 DEF c

(* Between operations of the main loop the ring holds the accepted frames  *)
(* nobody has taken yet, each once and in order, for rings of any size:    *)
(* main loop and interrupt share it without a lock and do not lose one.    *)
THEOREM RingAlwaysIsWaiting ==
    ASSUME ~IrqInEnqueue, BusPrompt
    PROVE  Spec => []RingIsWaiting
<1>1. DriverInv => RingIsWaiting
  <2> SUFFICES ASSUME DriverInv, pc = "idle" PROVE RingHolds(Waiting)
    BY DEF RingIsWaiting
  <2>1. Holds(fifo, Waiting) /\ fifo \in Rings /\ Waiting \in SUBSET Frames
    BY FrameFacts DEF DriverInv, FifoInv, InRing
  <2>2. /\ Len(Queued(fifo)) = Count(fifo) /\ DOMAIN Queued(fifo) = 1..Count(fifo)
        /\ Count(fifo) = Cardinality(Waiting)
    BY <2>1, HoldsAll, QueuedIs, RingFacts
  <2> QED BY <2>1, <2>2 DEF RingHolds, Holds
<1> QED BY <1>1, DriverAlways, PTL

(* Whenever a frame was on the bus, every valid frame queued before it was *)
(* too, or was lost by the bus: neither the interrupt nor a repetition     *)
(* passes one over.                                                        *)
THEOREM NoneIsSkipped ==
    ASSUME ~IrqInEnqueue, BusPrompt
    PROVE  Spec => []NoneSkipped
<1>1. DriverInv => NoneSkipped
  <2> SUFFICES ASSUME DriverInv, NEW m \in accepted \ Invalid, m < last
               PROVE  m \in sent \cup dropped
    BY DEF NoneSkipped
  <2>1. last \in accepted \cup {0} /\ m \in Nat \ {0} /\ m # NoMsg
        /\ last \in Nat
    BY FrameFacts DEF DriverInv, TypeOK
  <2>2. last # 0
    BY <2>1
  <2>3. tx_msg # NoMsg /\ last <= tx_msg /\ tx_msg \in Nat
    BY <2>2, FrameFacts DEF DriverInv, BusInv
  <2>4. m <= tx_msg /\ m # tx_msg
    BY <2>1, <2>3
  <2>5. m \in sent \cup dropped \cup {hw}
    BY <2>3, <2>4 DEF DriverInv, BusInv, Settled
  <2> QED BY <2>1, <2>4, <2>5 DEF DriverInv, BusInv
<1> QED BY <1>1, DriverAlways, PTL

(* Frames go out in the order they were queued: after a frame was on the   *)
(* bus no earlier one follows, although bsp_can_retrain_send repeats what  *)
(* was loaded last.                                                        *)
THEOREM FramesGoInOrder ==
    ASSUME ~IrqInEnqueue, BusPrompt
    PROVE  Spec => InOrder
<1>1. DriverInv /\ [Next]_vars => [last' >= last]_vars
  <2> SUFFICES ASSUME DriverInv, Next PROVE last' >= last
    OBVIOUS
  <2>1. last \in Nat
    BY FrameFacts DEF DriverInv, TypeOK
  <2>2. CASE Irq
    <3>1. last' = tx_msg /\ tx_msg \in Nat
      BY <2>2, FrameFacts DEF Irq, DriverInv, BusInv
    <3> QED BY <2>1, <3>1, <2>2 DEF DriverInv, BusInv
  <2>3. CASE ~Irq
    <3>1. last' = last
      BY <2>3 DEF Next, Driver, Send, TestSending, Push, Pushed, Look, Read,
                  Step, Load, Flag, RetrainSend, Timeout, BusDrop, bus
    <3> QED BY <2>1, <3>1
  <2> QED BY <2>2, <2>3
<1> QED BY <1>1, DriverAlways, PTL DEF Spec, InOrder

-----------------------------------------------------------------------------
(* The cache of long messages. *)
-----------------------------------------------------------------------------
(* A list is the sequence of what its links string together, from the cell *)
(* that heads it: no cell twice, and the last one links to NULL.           *)
Heads == Cells \cup {EMPT, NORM}
Linked(links, T) ==
    /\ \A i \in 1..(Len(T) - 1) : links[T[i]] = T[i + 1]
    /\ links[T[Len(T)]] = NULL
In(c, T) == \E i \in 1..Len(T) : T[i] = c
Distinct(T) == \A i, j \in 1..Len(T) : T[i] = T[j] => i = j
IsList(links, start, T) ==
    /\ T \in Seq(Heads) /\ Len(T) > 0 /\ T[1] = start
    /\ \A i \in 2..Len(T) : T[i] \in Cells
    /\ Distinct(T) /\ Linked(links, T)

LEMMA Sizes ==
    /\ CellCount \in Nat /\ CellCount > 1
    /\ NULL \notin Cells /\ EMPT \notin Cells /\ NORM \notin Cells
    /\ EMPT # NORM /\ NULL # EMPT /\ NULL # NORM
    /\ MessageLen \in Nat \ {0} /\ MaxSent \in Nat
BY CellsAreCounted

(* A list has at most as many cells as there are. *)
LEMMA ListFits ==
    ASSUME NEW links, NEW start, NEW T, IsList(links, start, T)
    PROVE  Len(T) - 1 <= CellCount
<1> DEFINE k == Len(T) - 1
           g == [i \in 1..k |-> T[i + 1]]
<1>1. k \in Nat /\ T \in Seq(Heads) /\ Len(T) \in Nat
  BY DEF IsList
<1>2. g \in [1..k -> Cells]
  BY <1>1 DEF IsList
<1>3. \A i, j \in 1..k : g[i] = g[j] => i = j
  BY <1>1 DEF IsList, Distinct
<1>4. g \in Injection(1..k, Cells)
  BY <1>2, <1>3 DEF Injection, IsInjective
<1>5. IsFiniteSet(Cells) /\ Cardinality(Cells) = CellCount
  BY Sizes, FS_Interval DEF Cells
<1>6. Cardinality(1..k) <= Cardinality(Cells)
  BY <1>4, <1>5, FS_Injection
<1>7. Cardinality(1..k) = k
  BY <1>1, FS_Interval
<1> QED BY <1>5, <1>6, <1>7

(* Walking the links finds a list. *)
LEMMA FollowIs ==
    ASSUME NEW links, NEW start, NEW T, IsList(links, start, T), start \in Heads
    PROVE  /\ Follow(links, start) = [i \in 1..(Len(T) - 1) |-> T[i + 1]]
           /\ Len(Follow(links, start)) = Len(T) - 1
<1> DEFINE N == CellCount
<1>0. PICK k \in Nat : k = Len(T) - 1
  BY DEF IsList
<1> DEFINE short(n) == IF n < k THEN n ELSE k
           first(l) == [i \in 1..l |-> T[i + 1]]
           w == [n \in 0..N |-> first(short(n))]
           step(n, before) ==
             LET end == IF before = << >> THEN start ELSE Last(before)
             IN IF end = NULL \/ links[end] = NULL THEN before
                ELSE Append(before, links[end])
           body(g) == [n \in 0..N |-> IF n = 0 THEN << >> ELSE step(n, g[n - 1])]
           f == CHOOSE g : g = body(g)
<1>1. k <= N /\ N \in Nat /\ Len(T) = k + 1 /\ T \in Seq(Heads)
  BY <1>0, ListFits, Sizes DEF IsList
<1>2. Follow(links, start) = f[N]
  BY DEF Follow
<1>t. /\ T[1] = start /\ \A i \in 1..(k + 1) : T[i] \in Heads
      /\ \A i \in 2..(k + 1) : T[i] \in Cells
      /\ \A i \in 1..k : links[T[i]] = T[i + 1]
      /\ links[T[k + 1]] = NULL
  <2>1. Len(T) - 1 = k
    BY <1>1
  <2> QED BY <1>1, <2>1 DEF IsList, Linked
<1>s. ASSUME NEW l \in 0..k
      PROVE  /\ first(l) \in Seq(Heads) /\ Len(first(l)) = l
             /\ first(l) = << >> <=> l = 0
             /\ \A i \in 1..l : first(l)[i] = T[i + 1]
             /\ l < k => first(l + 1) = Append(first(l), T[l + 2])
  <2>1. first(l) \in Seq(Heads) /\ Len(first(l)) = l
    BY <1>t
  <2>2. l < k => first(l + 1) = Append(first(l), T[l + 2])
    <3> SUFFICES ASSUME l < k PROVE first(l + 1) = Append(first(l), T[l + 2])
      OBVIOUS
    <3>1. Append(first(l), T[l + 2]) =
            [i \in 1..(l + 1) |-> IF i = l + 1 THEN T[l + 2] ELSE first(l)[i]]
      BY <2>1
    <3>2. \A i \in 1..(l + 1) :
            T[i + 1] = IF i = l + 1 THEN T[l + 2] ELSE first(l)[i]
      OBVIOUS
    <3> QED BY <3>1, <3>2
  <2>3. first(l) = << >> <=> l = 0
    BY <2>1
  <2> QED BY <2>1, <2>2, <2>3
<1> HIDE DEF first
<1>3. ASSUME NEW l \in 0..k, NEW n
      PROVE  step(n, first(l)) = IF l < k THEN first(l + 1) ELSE first(l)
  <2> DEFINE end == IF first(l) = << >> THEN start ELSE Last(first(l))
  <2>1. end = T[l + 1]
    <3>1. CASE l = 0
      BY <1>s, <1>t, <3>1
    <3>2. CASE l # 0
      <4>1. Last(first(l)) = first(l)[l] /\ first(l) # << >>
        BY <1>s, <3>2 DEF Last
      <4>2. l \in 1..l
        BY <3>2
      <4> QED BY <1>s, <4>1, <4>2
    <3> QED BY <3>1, <3>2
  <2>2. T[l + 1] # NULL
    <3>1. T[l + 1] \in Heads
      BY <1>t
    <3> QED BY <3>1, Sizes DEF Heads
  <2>3. CASE l < k
    <3>1. links[T[l + 1]] = T[l + 2] /\ T[l + 2] \in Cells
      <4>1. l + 1 \in 1..k /\ l + 2 \in 2..(k + 1) /\ (l + 1) + 1 = l + 2
        BY <2>3
      <4> QED BY <1>t, <4>1
    <3>2. links[T[l + 1]] # NULL
      BY <3>1, Sizes
    <3>3. first(l + 1) = Append(first(l), T[l + 2])
      BY <1>s, <2>3
    <3> QED BY <2>1, <2>2, <2>3, <3>1, <3>2, <3>3
  <2>4. CASE ~(l < k)
    <3>1. l = k
      BY <2>4
    <3>2. links[T[l + 1]] = NULL
      BY <1>t, <3>1
    <3> QED BY <2>1, <2>4, <3>2
  <2> QED BY <2>3, <2>4
<1> HIDE DEF step
<1>4. \A n \in 0..N : w[n] = first(short(n)) /\ short(n) \in 0..k
  BY <1>1
<1>w. w = body(w)
  <2>1. ASSUME NEW n \in 0..N
        PROVE  w[n] = IF n = 0 THEN << >> ELSE step(n, w[n - 1])
    <3>1. CASE n = 0
      <4>1. short(n) = 0
        BY <3>1
      <4>2. first(0) = << >>
        BY <1>s
      <4> QED BY <1>4, <3>1, <4>1, <4>2
    <3>2. CASE n # 0
      <4>1. n - 1 \in 0..N /\ short(n - 1) \in 0..k
        BY <1>1, <3>2
      <4>2. w[n - 1] = first(short(n - 1))
        BY <1>4, <4>1
      <4>3. short(n) = IF short(n - 1) < k THEN short(n - 1) + 1 ELSE short(n - 1)
        BY <1>1, <3>2
      <4>4. step(n, w[n - 1]) = first(short(n))
        <5> HIDE DEF short
        <5> QED BY <1>3, <4>1, <4>2, <4>3
      <4> QED BY <1>4, <3>2, <4>4
    <3> QED BY <3>1, <3>2
  <2> HIDE DEF short
  <2> QED BY <2>1
<1> HIDE DEF w
<1>5. f = body(f)
  BY <1>w
<1> HIDE DEF f
<1>6. \A n \in 0..N : f[n] = w[n]
  <2> DEFINE Bad == {n \in 0..N : f[n] # w[n]}
  <2> SUFFICES ASSUME Bad # {} PROVE FALSE
    OBVIOUS
  <2>1. PICK o \in Bad : \A p \in Bad : o <= p
    <3>1. Bad \in SUBSET Nat
      BY <1>1
    <3> HIDE DEF Bad
    <3> QED BY <3>1, LeastNat
  <2>2. o \in 0..N /\ f[o] # w[o]
    BY <2>1
  <2>3. o # 0 => f[o - 1] = w[o - 1]
    <3> SUFFICES ASSUME o # 0, f[o - 1] # w[o - 1] PROVE FALSE
      OBVIOUS
    <3>1. o - 1 \in 0..N /\ ~(o <= o - 1)
      BY <1>1, <2>2
    <3>2. o - 1 \in Bad
      BY <3>1
    <3> HIDE DEF Bad
    <3> QED BY <2>1, <3>1, <3>2
  <2>4. f[o] = body(f)[o] /\ w[o] = body(w)[o]
    BY <1>w, <1>5
  <2>5. body(f)[o] = body(w)[o]
    BY <2>2, <2>3
  <2> HIDE DEF body
  <2> QED BY <2>2, <2>4, <2>5
<1>7. w[N] = first(k)
  <2>1. N \in 0..N /\ short(N) = k
    BY <1>1
  <2> QED BY <1>4, <2>1
<1>8. Follow(links, start) = first(k)
  <2>1. N \in 0..N
    BY <1>1
  <2> QED BY <1>2, <1>6, <1>7, <2>1
<1>9. k \in 0..k /\ Len(T) - 1 = k
  BY <1>1
<1>10. Len(first(k)) = k
  BY <1>s, <1>9
<1> QED BY <1>8, <1>9, <1>10 DEF first
-----------------------------------------------------------------------------
(* What the operations make of a list. *)
Appended(T, c) == [i \in 1..(Len(T) + 1) |-> IF i <= Len(T) THEN T[i] ELSE c]
Without(T, k)  == [i \in 1..(Len(T) - 1) |-> IF i < k THEN T[i] ELSE T[i + 1]]
CutAt(T, k)    == [i \in 1..(k - 1) |-> T[i]]
From(T, k)     == [i \in 1..(Len(T) + 1 - k) |-> T[i + k - 1]]
Joined(A, T)   == [i \in 1..(Len(A) + Len(T)) |->
                     IF i <= Len(A) THEN A[i] ELSE T[i - Len(A)]]

LEMMA AppendedFacts ==
    ASSUME NEW S, NEW T \in Seq(S), NEW c \in S
    PROVE  /\ Appended(T, c) \in Seq(S) /\ Len(Appended(T, c)) = Len(T) + 1
           /\ \A i \in 1..Len(T) : Appended(T, c)[i] = T[i]
           /\ Appended(T, c)[Len(T) + 1] = c
           /\ \A d : In(d, Appended(T, c)) <=> In(d, T) \/ d = c
<1> DEFINE A == Appended(T, c)
           n == Len(T)
<1>1. n \in Nat /\ \A i \in 1..n : T[i] \in S
  OBVIOUS
<1>2. A = [i \in 1..(n + 1) |-> IF i <= n THEN T[i] ELSE c]
  BY DEF Appended
<1> HIDE DEF n, A
<1>3. A \in Seq(S) /\ Len(A) = n + 1
  BY <1>1, <1>2
<1>4. (\A i \in 1..n : A[i] = T[i]) /\ A[n + 1] = c
  BY <1>1, <1>2
<1>5. ASSUME NEW d PROVE In(d, A) <=> In(d, T) \/ d = c
  <2>1. In(d, A) => In(d, T) \/ d = c
    BY <1>1, <1>2, <1>3 DEF In, n
  <2>2. In(d, T) => In(d, A)
    BY <1>1, <1>3, <1>4 DEF In, n
  <2>3. d = c => In(d, A)
    BY <1>1, <1>3, <1>4 DEF In
  <2> QED BY <2>1, <2>2, <2>3
<1> QED BY <1>3, <1>4, <1>5 DEF n, A

LEMMA WithoutFacts ==
    ASSUME NEW S, NEW T \in Seq(S), NEW k \in 1..Len(T), Distinct(T)
    PROVE  /\ Without(T, k) \in Seq(S) /\ Len(Without(T, k)) = Len(T) - 1
           /\ \A i \in 1..(Len(T) - 1) :
                Without(T, k)[i] = IF i < k THEN T[i] ELSE T[i + 1]
           /\ \A d : In(d, Without(T, k)) <=> In(d, T) /\ d # T[k]
<1> DEFINE A == Without(T, k)
           n == Len(T)
<1>1. n \in Nat /\ (\A i \in 1..n : T[i] \in S) /\ k \in 1..n
  OBVIOUS
<1>2. A = [i \in 1..(n - 1) |-> IF i < k THEN T[i] ELSE T[i + 1]]
  BY DEF Without
<1>d. \A i, j \in 1..n : T[i] = T[j] => i = j
  BY DEF Distinct
<1> HIDE DEF n, A
<1>3. A \in Seq(S) /\ Len(A) = n - 1
  <2>1. n - 1 \in Nat /\ \A i \in 1..(n - 1) : A[i] \in S
    BY <1>1, <1>2
  <2> QED BY <1>2, <2>1
<1>4. \A i \in 1..(n - 1) : A[i] = IF i < k THEN T[i] ELSE T[i + 1]
  BY <1>1, <1>2
<1>5. ASSUME NEW d PROVE In(d, A) <=> In(d, T) /\ d # T[k]
  <2>1. ASSUME In(d, A) PROVE In(d, T) /\ d # T[k]
    <3>1. PICK i \in 1..(n - 1) : A[i] = d
      BY <1>3, <2>1 DEF In
    <3>2. CASE i < k
      <4>1. d = T[i] /\ i \in 1..n /\ i # k
        BY <1>1, <1>4, <3>1, <3>2
      <4> QED BY <1>1, <1>d, <4>1 DEF In, n
    <3>3. CASE ~(i < k)
      <4>1. d = T[i + 1] /\ i + 1 \in 1..n /\ i + 1 # k
        BY <1>1, <1>4, <3>1, <3>3
      <4> QED BY <1>1, <1>d, <4>1 DEF In, n
    <3> QED BY <3>2, <3>3
  <2>2. ASSUME In(d, T), d # T[k] PROVE In(d, A)
    <3>1. PICK i \in 1..n : T[i] = d
      BY <2>2 DEF In, n
    <3>2. CASE i < k
      <4>1. i \in 1..(n - 1) /\ A[i] = d
        BY <1>1, <1>4, <3>1, <3>2
      <4> QED BY <1>3, <4>1 DEF In
    <3>3. CASE ~(i < k)
      <4>0. i # k
        BY <2>2, <3>1
      <4>1. i - 1 \in 1..(n - 1) /\ ~(i - 1 < k) /\ (i - 1) + 1 = i
        BY <1>1, <3>1, <3>3, <4>0
      <4>2. A[i - 1] = d
        BY <1>4, <3>1, <4>1
      <4> QED BY <1>3, <4>1, <4>2 DEF In
    <3> QED BY <3>2, <3>3
  <2> QED BY <2>1, <2>2
<1> QED BY <1>3, <1>4, <1>5 DEF n, A

LEMMA CutFacts ==
    ASSUME NEW S, NEW T \in Seq(S), NEW k \in 2..Len(T)
    PROVE  /\ CutAt(T, k) \in Seq(S) /\ Len(CutAt(T, k)) = k - 1
           /\ \A i \in 1..(k - 1) : CutAt(T, k)[i] = T[i]
           /\ \A d : In(d, CutAt(T, k)) <=> \E i \in 1..(k - 1) : T[i] = d
<1> DEFINE A == CutAt(T, k)
<1>1. Len(T) \in Nat /\ (\A i \in 1..Len(T) : T[i] \in S) /\ k - 1 \in Nat
  OBVIOUS
<1>2. A = [i \in 1..(k - 1) |-> T[i]]
  BY DEF CutAt
<1> HIDE DEF A
<1>3. A \in Seq(S) /\ Len(A) = k - 1
  BY <1>1, <1>2
<1> QED BY <1>2, <1>3 DEF In, A

LEMMA FromFacts ==
    ASSUME NEW S, NEW T \in Seq(S), NEW k \in 1..Len(T)
    PROVE  /\ From(T, k) \in Seq(S) /\ Len(From(T, k)) = Len(T) + 1 - k
           /\ \A i \in 1..(Len(T) + 1 - k) : From(T, k)[i] = T[i + k - 1]
           /\ \A d : In(d, From(T, k)) <=> \E i \in k..Len(T) : T[i] = d
<1> DEFINE A == From(T, k)
           n == Len(T)
           l == n + 1 - k
<1>1. n \in Nat /\ (\A i \in 1..n : T[i] \in S) /\ k \in 1..n /\ l \in Nat
  OBVIOUS
<1>2. A = [i \in 1..l |-> T[i + k - 1]]
  BY DEF From
<1> HIDE DEF n, A
<1>3. A \in Seq(S) /\ Len(A) = l
  <2>1. \A i \in 1..l : A[i] \in S
    BY <1>1, <1>2
  <2> QED BY <1>1, <1>2, <2>1
<1>4. \A i \in 1..l : A[i] = T[i + k - 1]
  BY <1>1, <1>2
<1>5. ASSUME NEW d PROVE In(d, A) <=> \E i \in k..n : T[i] = d
  <2>1. ASSUME NEW i \in 1..l, A[i] = d PROVE \E j \in k..n : T[j] = d
    <3>1. i + k - 1 \in k..n
      BY <1>1
    <3> QED BY <1>4, <2>1, <3>1
  <2>2. ASSUME NEW i \in k..n, T[i] = d PROVE \E j \in 1..l : A[j] = d
    <3>1. i + 1 - k \in 1..l /\ (i + 1 - k) + k - 1 = i
      BY <1>1
    <3>2. A[i + 1 - k] = d
      BY <1>4, <2>2, <3>1
    <3> QED BY <3>1, <3>2
  <2> QED BY <1>3, <2>1, <2>2 DEF In
<1> QED BY <1>3, <1>4, <1>5 DEF n, A

LEMMA JoinedFacts ==
    ASSUME NEW S, NEW A \in Seq(S), NEW T \in Seq(S)
    PROVE  /\ Joined(A, T) \in Seq(S) /\ Len(Joined(A, T)) = Len(A) + Len(T)
           /\ \A i \in 1..Len(A) : Joined(A, T)[i] = A[i]
           /\ \A i \in 1..Len(T) : Joined(A, T)[i + Len(A)] = T[i]
           /\ \A i \in 1..(Len(A) + Len(T)) :
                Joined(A, T)[i] = IF i <= Len(A) THEN A[i] ELSE T[i - Len(A)]
           /\ \A d : In(d, Joined(A, T)) <=> In(d, A) \/ In(d, T)
<1> DEFINE J == Joined(A, T)
           a == Len(A)
           n == Len(T)
<1>1. /\ a \in Nat /\ n \in Nat
      /\ (\A i \in 1..a : A[i] \in S) /\ \A i \in 1..n : T[i] \in S
  OBVIOUS
<1>2. J = [i \in 1..(a + n) |-> IF i <= a THEN A[i] ELSE T[i - a]]
  BY DEF Joined
<1> HIDE DEF a, n, J
<1>3. J \in Seq(S) /\ Len(J) = a + n
  <2>1. a + n \in Nat /\ \A i \in 1..(a + n) : J[i] \in S
    BY <1>1, <1>2
  <2> QED BY <1>2, <2>1
<1>4. \A i \in 1..(a + n) : J[i] = IF i <= a THEN A[i] ELSE T[i - a]
  BY <1>1, <1>2
<1>5. \A i \in 1..a : i \in 1..(a + n) /\ J[i] = A[i]
  BY <1>1, <1>4
<1>6. \A i \in 1..n : i + a \in 1..(a + n) /\ J[i + a] = T[i]
  BY <1>1, <1>4
<1>7. ASSUME NEW d PROVE In(d, J) <=> In(d, A) \/ In(d, T)
  <2>1. ASSUME NEW i \in 1..(a + n), J[i] = d PROVE In(d, A) \/ In(d, T)
    <3>1. CASE i <= a
      <4>1. i \in 1..a /\ A[i] = d
        BY <1>1, <1>4, <2>1, <3>1
      <4> QED BY <4>1 DEF In, a
    <3>2. CASE ~(i <= a)
      <4>1. i - a \in 1..n /\ T[i - a] = d
        BY <1>1, <1>4, <2>1, <3>2
      <4> QED BY <4>1 DEF In, n
    <3> QED BY <3>1, <3>2
  <2>2. In(d, A) => In(d, J)
    BY <1>3, <1>5 DEF In, a
  <2>3. In(d, T) => In(d, J)
    BY <1>3, <1>6 DEF In, n
  <2> QED BY <1>3, <2>1, <2>2, <2>3 DEF In
<1> QED BY <1>3, <1>4, <1>5, <1>6, <1>7 DEF a, n, J

(* What is known of a list, for citing: the same with numbers in place of   *)
(* lengths.                                                                *)
LEMMA ListFacts ==
    ASSUME NEW links, NEW start, NEW T, IsList(links, start, T)
    PROVE  /\ T \in Seq(Heads) /\ Len(T) \in Nat /\ Len(T) > 0 /\ T[1] = start
           /\ \A i \in 1..Len(T) : T[i] \in Heads /\ In(T[i], T)
           /\ \A i \in 2..Len(T) : T[i] \in Cells
           /\ \A i, j \in 1..Len(T) : T[i] = T[j] => i = j
           /\ \A i \in 1..(Len(T) - 1) : links[T[i]] = T[i + 1]
           /\ links[T[Len(T)]] = NULL
           /\ In(start, T)
<1>1. T \in Seq(Heads) /\ Len(T) \in Nat /\ Len(T) > 0 /\ T[1] = start
  BY DEF IsList
<1>2. In(start, T)
  BY <1>1 DEF In
<1>3. \A i \in 1..Len(T) : T[i] \in Heads /\ In(T[i], T)
  BY <1>1 DEF In
<1> QED BY <1>1, <1>2, <1>3 DEF IsList, Distinct, Linked

LEMMA ListKept ==
    ASSUME NEW links, NEW start, NEW T, IsList(links, start, T), NEW new,
           \A c \in Heads : In(c, T) => new[c] = links[c]
    PROVE  IsList(new, start, T)
<1>1. \A i \in 1..Len(T) : T[i] \in Heads /\ In(T[i], T)
  BY ListFacts
<1>2. \A i \in 1..Len(T) : new[T[i]] = links[T[i]]
  BY <1>1
<1>3. Linked(new, T)
  BY <1>2, ListFacts DEF Linked
<1> QED BY <1>3 DEF IsList

LEMMA LinkedKept ==
    ASSUME NEW T \in Seq(Cells), Len(T) > 0, NEW links, NEW new,
           \A i \in 1..Len(T) : new[T[i]] = links[T[i]], Linked(links, T)
    PROVE  Linked(new, T)
<1>1. Len(T) \in Nat
  OBVIOUS
<1>2. (\A i \in 1..(Len(T) - 1) : i \in 1..Len(T)) /\ Len(T) \in 1..Len(T)
  BY <1>1
<1> QED BY <1>2 DEF Linked

LEMMA ListAppended ==
    ASSUME NEW links, NEW start, NEW T, IsList(links, start, T),
           NEW c \in Cells, ~In(c, T), NEW new,
           new[T[Len(T)]] = c, new[c] = NULL,
           \A d \in Heads : In(d, T) /\ d # T[Len(T)] => new[d] = links[d]
    PROVE  IsList(new, start, Appended(T, c))
<1> DEFINE n == Len(T)
           A == Appended(T, c)
<1>1. /\ T \in Seq(Heads) /\ n \in Nat /\ n > 0 /\ T[1] = start
      /\ \A i \in 1..n : T[i] \in Heads /\ In(T[i], T)
      /\ \A i \in 2..n : T[i] \in Cells
      /\ \A i, j \in 1..n : T[i] = T[j] => i = j
      /\ \A i \in 1..(n - 1) : links[T[i]] = T[i + 1]
      /\ links[T[n]] = NULL
      /\ In(start, T)
  BY ListFacts
<1>2. c \in Heads
  BY DEF Heads
<1>3. /\ A \in Seq(Heads) /\ Len(A) = n + 1
      /\ \A i \in 1..n : A[i] = T[i]
      /\ A[n + 1] = c
  BY <1>1, <1>2, AppendedFacts
<1>4. new[T[n]] = c
  OBVIOUS
<1> HIDE DEF n, A
<1>5. \A i \in 1..n : T[i] # c
  BY <1>1
<1>6. \A i \in 2..(n + 1) : A[i] \in Cells
  BY <1>1, <1>3
<1>7. \A i, j \in 1..(n + 1) : A[i] = A[j] => i = j
  BY <1>1, <1>3, <1>5
<1>8. ASSUME NEW i \in 1..n PROVE new[A[i]] = A[i + 1]
  <2>1. CASE i = n
    BY <1>1, <1>3, <1>4, <2>1
  <2>2. CASE i # n
    <3>1. i \in 1..(n - 1) /\ i + 1 \in 1..n /\ n \in 1..n
      BY <1>1, <2>2
    <3>2. T[i] # T[n]
      BY <1>1, <2>2, <3>1
    <3>3. new[T[i]] = links[T[i]]
      BY <1>1, <3>2 DEF n
    <3> QED BY <1>1, <1>3, <3>1, <3>3
  <2> QED BY <2>1, <2>2
<1>9. new[A[n + 1]] = NULL /\ A[1] = start /\ (n + 1) - 1 = n
  BY <1>1, <1>3
<1> QED BY <1>1, <1>3, <1>6, <1>7, <1>8, <1>9 DEF IsList, Distinct, Linked, A

(* A cell is taken out by writing its link into the cell before. *)
LEMMA ListWithout ==
    ASSUME NEW links, NEW start, NEW T, IsList(links, start, T),
           NEW k \in 2..Len(T), NEW new, new[T[k - 1]] = links[T[k]],
           \A d \in Heads : In(d, T) /\ d # T[k - 1] /\ d # T[k] => new[d] = links[d]
    PROVE  IsList(new, start, Without(T, k))
<1> DEFINE n == Len(T)
           A == Without(T, k)
<1>1. /\ T \in Seq(Heads) /\ n \in Nat /\ n > 0 /\ T[1] = start
      /\ \A i \in 1..n : T[i] \in Heads /\ In(T[i], T)
      /\ \A i \in 2..n : T[i] \in Cells
      /\ \A i, j \in 1..n : T[i] = T[j] => i = j
      /\ \A i \in 1..(n - 1) : links[T[i]] = T[i + 1]
      /\ links[T[n]] = NULL
      /\ In(start, T)
  BY ListFacts
<1>2. k \in 2..n /\ k \in 1..Len(T) /\ Distinct(T)
  BY <1>1 DEF IsList
<1>n. n \in Int /\ k \in Int /\ 2 <= k /\ k <= n
  BY <1>1
<1>3. /\ A \in Seq(Heads) /\ Len(A) = n - 1
      /\ \A i \in 1..(n - 1) : A[i] = IF i < k THEN T[i] ELSE T[i + 1]
  BY <1>1, <1>2, WithoutFacts
<1> HIDE DEF n, A
<1>6. ASSUME NEW i \in 2..(n - 1) PROVE A[i] \in Cells
  <2>1. i \in 2..n /\ i + 1 \in 2..n /\ i \in 1..(n - 1)
    BY <1>n
  <2> QED BY <1>1, <1>3, <2>1
<1>7. ASSUME NEW i \in 1..(n - 1), NEW j \in 1..(n - 1), A[i] = A[j] PROVE i = j
  <2>1. /\ A[i] = IF i < k THEN T[i] ELSE T[i + 1]
        /\ A[j] = IF j < k THEN T[j] ELSE T[j + 1]
    BY <1>3
  <2>2. i \in 1..n /\ j \in 1..n /\ i + 1 \in 1..n /\ j + 1 \in 1..n
    BY <1>n
  <2>3. CASE i < k /\ j < k
    <3>1. T[i] = T[j]
      BY <1>7, <2>1, <2>3
    <3> QED BY <1>1, <2>2, <3>1
  <2>4. CASE i < k /\ ~(j < k)
    <3>1. T[i] = T[j + 1] /\ i # j + 1
      <4>1. T[i] = T[j + 1]
        BY <1>7, <2>1, <2>4
      <4> QED BY <1>n, <2>4, <4>1
    <3> QED BY <1>1, <2>2, <3>1
  <2>5. CASE ~(i < k) /\ j < k
    <3>1. T[i + 1] = T[j] /\ i + 1 # j
      <4>1. T[i + 1] = T[j]
        BY <1>7, <2>1, <2>5
      <4> QED BY <1>n, <2>5, <4>1
    <3> QED BY <1>1, <2>2, <3>1
  <2>6. CASE ~(i < k) /\ ~(j < k)
    <3>1. T[i + 1] = T[j + 1]
      BY <1>7, <2>1, <2>6
    <3>2. i + 1 = j + 1
      BY <1>1, <2>2, <3>1
    <3> QED BY <3>2
  <2> QED BY <2>3, <2>4, <2>5, <2>6
<1>8. \A i \in 1..n : i # k - 1 /\ i # k => new[T[i]] = links[T[i]]
  <2>1. k - 1 \in 1..n
    BY <1>n
  <2> QED BY <1>1, <1>2, <2>1
<1>9. ASSUME NEW i \in 1..(n - 2) PROVE new[A[i]] = A[i + 1]
  <2>1. i \in 1..(n - 1) /\ i + 1 \in 1..(n - 1) /\ i \in 1..n /\ i + 1 \in 1..n
    BY <1>n
  <2>2. CASE i < k - 1
    <3>1. A[i] = T[i] /\ A[i + 1] = T[i + 1]
      BY <1>n, <1>2, <1>3, <2>1, <2>2
    <3>2. new[T[i]] = links[T[i]]
      BY <1>2, <1>8, <2>1, <2>2
    <3> QED BY <1>1, <2>1, <3>1, <3>2
  <2>3. CASE i = k - 1
    <3>1. A[i] = T[k - 1] /\ A[i + 1] = T[k + 1]
      BY <1>n, <1>2, <1>3, <2>1, <2>3
    <3>2. k \in 1..(n - 1)
      BY <1>2, <2>1, <2>3
    <3> QED BY <1>1, <3>1, <3>2
  <2>4. CASE i > k - 1
    <3>0. i \in Int /\ ~(i < k) /\ ~(i + 1 < k) /\ i + 1 # k /\ i + 1 # k - 1
      BY <1>n, <2>4
    <3>1. A[i] = T[i + 1] /\ A[i + 1] = T[(i + 1) + 1] /\ i + 1 # k /\ i + 1 # k - 1
      BY <1>3, <2>1, <3>0
    <3>2. new[T[i + 1]] = links[T[i + 1]]
      BY <1>8, <2>1, <3>1
    <3> QED BY <1>1, <2>1, <3>1, <3>2
  <2> QED BY <1>2, <2>2, <2>3, <2>4
<1>10. new[A[n - 1]] = NULL
  <2>0. n - 1 \in 1..(n - 1)
    BY <1>1, <1>2
  <2>1. CASE k = n
    <3>1. A[n - 1] = T[k - 1]
      BY <1>n, <1>2, <1>3, <2>0, <2>1
    <3> QED BY <1>1, <2>1, <3>1
  <2>2. CASE k # n
    <3>1. A[n - 1] = T[n]
      BY <1>1, <1>2, <1>3, <2>0, <2>2
    <3>2. n \in 1..n /\ n # k /\ n # k - 1
      BY <1>1, <1>2, <2>2
    <3> QED BY <1>1, <1>8, <3>1, <3>2
  <2> QED BY <2>1, <2>2
<1>11. A[1] = start /\ n - 1 > 0 /\ (n - 1) - 1 = n - 2
  BY <1>1, <1>2, <1>3
<1> QED BY <1>3, <1>6, <1>7, <1>9, <1>10, <1>11 DEF IsList, Distinct, Linked, A

LEMMA ListCut ==
    ASSUME NEW links, NEW start, NEW T, IsList(links, start, T),
           NEW k \in 2..Len(T), NEW new, new[T[k - 1]] = NULL,
           \A d \in Heads : In(d, T) /\ d # T[k - 1] => new[d] = links[d]
    PROVE  IsList(new, start, CutAt(T, k))
<1> DEFINE n == Len(T)
           A == CutAt(T, k)
<1>1. /\ T \in Seq(Heads) /\ n \in Nat /\ n > 0 /\ T[1] = start
      /\ \A i \in 1..n : T[i] \in Heads /\ In(T[i], T)
      /\ \A i \in 2..n : T[i] \in Cells
      /\ \A i, j \in 1..n : T[i] = T[j] => i = j
      /\ \A i \in 1..(n - 1) : links[T[i]] = T[i + 1]
      /\ links[T[n]] = NULL
      /\ In(start, T)
  BY ListFacts
<1>n. n \in Int /\ k \in Int /\ 2 <= k /\ k <= n
  BY <1>1
<1>2. k \in 2..n /\ k - 1 \in 1..n
  BY <1>1
<1>3. /\ A \in Seq(Heads) /\ Len(A) = k - 1
      /\ \A i \in 1..(k - 1) : A[i] = T[i]
  BY <1>1, CutFacts
<1> HIDE DEF n, A
<1>4. ASSUME NEW i \in 1..(k - 2) PROVE new[A[i]] = A[i + 1]
  <2>1. i \in 1..(n - 1) /\ i \in 1..n /\ i # k - 1 /\ i \in 1..(k - 1) /\ i + 1 \in 1..(k - 1)
    BY <1>n
  <2>2. T[i] # T[k - 1]
    BY <1>1, <1>2, <2>1
  <2>3. new[T[i]] = links[T[i]]
    BY <1>1, <2>1, <2>2
  <2> QED BY <1>1, <1>3, <2>1, <2>3
<1>5. new[A[k - 1]] = NULL /\ A[1] = start /\ k - 1 > 0 /\ (k - 1) - 1 = k - 2
  BY <1>1, <1>2, <1>3
<1>6. ASSUME NEW i \in 2..(k - 1) PROVE A[i] \in Cells
  <2>1. i \in 2..n /\ i \in 1..(k - 1)
    BY <1>n
  <2> QED BY <1>1, <1>3, <2>1
<1>7. ASSUME NEW i \in 1..(k - 1), NEW j \in 1..(k - 1), A[i] = A[j] PROVE i = j
  <2>1. i \in 1..n /\ j \in 1..n
    BY <1>n
  <2> QED BY <1>1, <1>3, <1>7, <2>1
<1> QED BY <1>3, <1>4, <1>5, <1>6, <1>7 DEF IsList, Distinct, Linked, A

LEMMA ListFrom ==
    ASSUME NEW links, NEW start, NEW T, IsList(links, start, T),
           NEW k \in 1..Len(T)
    PROVE  IsList(links, T[k], From(T, k))
<1> DEFINE n == Len(T)
           A == From(T, k)
           l == n + 1 - k
<1>1. /\ T \in Seq(Heads) /\ n \in Nat /\ n > 0 /\ T[1] = start
      /\ \A i \in 1..n : T[i] \in Heads /\ In(T[i], T)
      /\ \A i \in 2..n : T[i] \in Cells
      /\ \A i, j \in 1..n : T[i] = T[j] => i = j
      /\ \A i \in 1..(n - 1) : links[T[i]] = T[i + 1]
      /\ links[T[n]] = NULL
      /\ In(start, T)
  BY ListFacts
<1>n. n \in Int /\ k \in Int /\ 1 <= k /\ k <= n
  BY <1>1
<1>2. k \in 1..n /\ l \in Nat /\ l > 0 /\ l + k - 1 = n
  BY <1>n
<1>3. /\ A \in Seq(Heads) /\ Len(A) = l
      /\ \A i \in 1..l : A[i] = T[i + k - 1]
  <2>1. T \in Seq(Heads) /\ k \in 1..Len(T)
    BY <1>1
  <2>2. A \in Seq(Heads)
    BY <2>1, FromFacts
  <2>3. Len(A) = l
    BY <2>1, FromFacts
  <2>4. \A i \in 1..l : A[i] = T[i + k - 1]
    BY <2>1, FromFacts
  <2> QED BY <2>2, <2>3, <2>4
<1>l. \A i \in 1..l : i + k - 1 \in 1..n
  BY <1>1, <1>2
<1> HIDE DEF n, A
<1>4. ASSUME NEW i \in 1..(l - 1) PROVE links[A[i]] = A[i + 1]
  <2>1. /\ i \in 1..l /\ i + 1 \in 1..l /\ i + k - 1 \in 1..(n - 1)
        /\ (i + 1) + k - 1 = (i + k - 1) + 1
    BY <1>1, <1>2
  <2> QED BY <1>1, <1>3, <2>1
<1>5. links[A[l]] = NULL /\ A[1] = T[k]
  <2>1. l \in 1..l /\ 1 \in 1..l /\ 1 + k - 1 = k
    BY <1>2
  <2> QED BY <1>1, <1>2, <1>3, <2>1
<1>6. ASSUME NEW i \in 2..l PROVE A[i] \in Cells
  <2>1. i \in 1..l /\ i + k - 1 \in 2..n
    BY <1>n
  <2> QED BY <1>1, <1>3, <2>1
<1>7. ASSUME NEW i \in 1..l, NEW j \in 1..l, A[i] = A[j] PROVE i = j
  <2>1. T[i + k - 1] = T[j + k - 1]
    BY <1>3, <1>7
  <2>2. i + k - 1 = j + k - 1
    BY <1>1, <1>l, <2>1
  <2> QED BY <1>2, <2>2
<1> QED BY <1>2, <1>3, <1>4, <1>5, <1>6, <1>7 DEF IsList, Distinct, Linked, A

(* Cells strung together in front of a list. *)
LEMMA ListJoined ==
    ASSUME NEW links, NEW start \in Cells, NEW T, IsList(links, start, T),
           NEW A \in Seq(Heads), Len(A) > 0, Distinct(A),
           \A i \in 2..Len(A) : A[i] \in Cells,
           \A i \in 1..(Len(A) - 1) : links[A[i]] = A[i + 1],
           links[A[Len(A)]] = start,
           \A d \in Heads : ~(In(d, A) /\ In(d, T))
    PROVE  IsList(links, A[1], Joined(A, T))
<1> DEFINE n == Len(T)
           a == Len(A)
           J == Joined(A, T)
<1>1. /\ T \in Seq(Heads) /\ n \in Nat /\ n > 0 /\ T[1] = start
      /\ \A i \in 1..n : T[i] \in Heads /\ In(T[i], T)
      /\ \A i \in 2..n : T[i] \in Cells
      /\ \A i, j \in 1..n : T[i] = T[j] => i = j
      /\ \A i \in 1..(n - 1) : links[T[i]] = T[i + 1]
      /\ links[T[n]] = NULL
      /\ In(start, T)
  BY ListFacts
<1>2. /\ a \in Nat /\ a > 0
      /\ \A i \in 2..a : A[i] \in Cells
      /\ \A i, j \in 1..a : A[i] = A[j] => i = j
      /\ \A i \in 1..(a - 1) : links[A[i]] = A[i + 1]
      /\ links[A[a]] = T[1]
      /\ \A i \in 1..a : A[i] \in Heads /\ In(A[i], A)
  BY <1>1 DEF In, Distinct
<1>n. n \in Int /\ n > 0 /\ a \in Int /\ a > 0
  BY <1>1, <1>2
<1>3. /\ J \in Seq(Heads) /\ Len(J) = a + n
      /\ \A i \in 1..(a + n) : J[i] = IF i <= a THEN A[i] ELSE T[i - a]
  BY <1>1, JoinedFacts
<1>4. \A i \in 1..a, j \in 1..n : A[i] # T[j]
  BY <1>1, <1>2
<1> HIDE DEF n, a, J
<1>5. ASSUME NEW i \in 1..(a + n - 1) PROVE links[J[i]] = J[i + 1]
  <2>0. i \in 1..(a + n) /\ i + 1 \in 1..(a + n)
    BY <1>1, <1>2
  <2>1. CASE i < a
    <3>1. J[i] = A[i] /\ J[i + 1] = A[i + 1] /\ i \in 1..(a - 1)
      BY <1>2, <1>3, <2>0, <2>1
    <3> QED BY <1>2, <3>1
  <2>2. CASE i = a
    <3>1. J[i] = A[a] /\ J[i + 1] = T[1]
      <4>1. i <= a /\ ~(i + 1 <= a) /\ i + 1 - a = 1
        BY <1>n, <2>2
      <4> QED BY <1>3, <2>0, <2>2, <4>1
    <3> QED BY <1>2, <3>1
  <2>3. CASE i > a
    <3>1. /\ J[i] = T[i - a] /\ J[i + 1] = T[(i - a) + 1] /\ i - a \in 1..(n - 1)
      BY <1>1, <1>2, <1>3, <2>0, <2>3
    <3> QED BY <1>1, <3>1
  <2> QED BY <1>2, <2>1, <2>2, <2>3
<1>6. links[J[a + n]] = NULL /\ J[1] = A[1] /\ a + n > 0
  <2>1. a + n \in 1..(a + n) /\ 1 \in 1..(a + n) /\ ~(a + n <= a) /\ a + n - a = n
    BY <1>n
  <2>2. J[a + n] = T[n] /\ J[1] = A[1]
    <3>1. 1 <= a
      BY <1>n
    <3> DEFINE m == a + n
    <3>2. J[m] = T[m - a]
      <4>1. m \in 1..(a + n) /\ ~(m <= a)
        BY <2>1
      <4> HIDE DEF m
      <4> QED BY <1>3, <4>1
    <3>3. J[1] = A[1]
      BY <1>3, <2>1, <3>1
    <3>4. m - a = n
      BY <1>n
    <3>5. J[a + n] = T[n]
      BY <3>2, <3>4
    <3> QED BY <3>3, <3>5
  <2> QED BY <1>1, <1>n, <2>2
<1>7. ASSUME NEW i \in 2..(a + n) PROVE J[i] \in Cells
  <2>1. CASE i <= a
    BY <1>2, <1>3, <2>1
  <2>2. CASE i = a + 1
    <3>1. J[i] = T[1]
      BY <1>1, <1>2, <1>3, <2>2
    <3> QED BY <1>1, <3>1
  <2>3. CASE i > a + 1
    <3>1. J[i] = T[i - a] /\ i - a \in 2..n
      <4>1. i \in 1..(a + n) /\ ~(i <= a) /\ i - a \in 2..n
        BY <1>n, <2>3
      <4> QED BY <1>3, <4>1
    <3> QED BY <1>1, <3>1
  <2> QED BY <1>n, <2>1, <2>2, <2>3
<1>8. ASSUME NEW i \in 1..(a + n), NEW j \in 1..(a + n), J[i] = J[j] PROVE i = j
  <2>1. /\ J[i] = IF i <= a THEN A[i] ELSE T[i - a]
        /\ J[j] = IF j <= a THEN A[j] ELSE T[j - a]
    BY <1>3
  <2>2. /\ i <= a => i \in 1..a
        /\ j <= a => j \in 1..a
        /\ ~(i <= a) => i - a \in 1..n
        /\ ~(j <= a) => j - a \in 1..n
    BY <1>1, <1>2
  <2>3. (i <= a <=> j <= a)
    BY <1>4, <1>8, <2>1, <2>2
  <2>4. CASE i <= a
    BY <1>2, <1>8, <2>1, <2>2, <2>3, <2>4
  <2>5. CASE ~(i <= a)
    <3>1. T[i - a] = T[j - a] /\ i - a \in 1..n /\ j - a \in 1..n
      BY <1>8, <2>1, <2>2, <2>3, <2>5
    <3>2. i - a = j - a
      BY <1>1, <3>1
    <3> QED BY <1>2, <3>2
  <2> QED BY <2>4, <2>5
<1>9. Linked(links, J) /\ Distinct(J)
  <2>1. Linked(links, J)
    <3>0. Len(J) = a + n
      BY <1>3
    <3>1. Len(J) = a + n /\ Len(J) - 1 = a + n - 1
      BY <1>n, <3>0
    <3>2. \A i \in 1..(Len(J) - 1) : links[J[i]] = J[i + 1]
      BY <1>5, <3>1
    <3> QED BY <1>6, <3>1, <3>2 DEF Linked
  <2>2. Distinct(J)
    BY <1>3, <1>8 DEF Distinct
  <2> QED BY <2>1, <2>2
<1> QED BY <1>3, <1>6, <1>7, <1>9 DEF IsList, J

-----------------------------------------------------------------------------
(* Whose a cell is: of the empty list (EMPT), of the message that a cell   *)
(* heads, or nobody's any more (NULL).                                     *)
OwnInv(o) ==
    /\ o \in [Cells -> Cells \cup {EMPT, NULL}]
    /\ \A c \in Cells : o[c] \in Cells => o[o[c]] = o[c]
    /\ leaked = {c \in Cells : o[c] = NULL}

(* The message the main loop has taken out of its list. *)
Held == IF task.at \in {"copy", "free", "freed"} THEN task.cur ELSE NULL

(* The empty list always has two cells that the interrupt does not take. *)
EmptyInv(o, E) ==
    /\ IsList(p_head_list, EMPT, E) /\ Len(E) > 2
    /\ \A c \in Cells : o[c] = EMPT <=> In(c, E)

NormInv(o, M) ==
    /\ IsList(p_head_list, NORM, M)
    /\ \A c \in Cells : (o[c] = c /\ c # Held) <=> In(c, M)

(* The cells of each message; those of one that is being put back into the *)
(* empty list are not linked as a message any more.                        *)
ChainInv(o, ch) ==
    /\ ch \in [Cells -> Seq(Cells)]
    /\ \A h \in Cells : o[h] = h =>
         /\ Len(ch[h]) > 0 /\ ch[h][1] = h /\ Distinct(ch[h])
         /\ \A c \in Cells : o[c] = h <=> In(c, ch[h])
         /\ (task.at = "freed" /\ h = task.cur) \/ Linked(p_son_list, ch[h])

(* What the main loop has read before an interrupt is still so, but for    *)
(* what was put behind the last message.                                   *)
UnlinkInv(M) ==
    task.at \in {"unlink_read", "unlink_timeout"} =>
        /\ task.next \in {NULL, p_head_list[task.cur]}
        /\ \E k \in 2..Len(M) : task.cur = M[k] /\ task.last = M[k - 1]

HeldInv(o) ==
    task.at \in {"copy", "free", "freed"} => task.cur \in Cells /\ o[task.cur] = task.cur

(* A message that is being put back leads into the empty list already. *)
FreedInv(E, ch) ==
    task.at = "freed" =>
        LET t == ch[task.cur]
        IN /\ \A i \in 1..(Len(t) - 1) : p_head_list[t[i]] = t[i + 1]
           /\ p_head_list[t[Len(t)]] = E[2]

LinkTypes ==
    /\ p_head_list \in [Heads -> Cells \cup {NULL}]
    /\ p_son_list \in [Cells -> Cells \cup {NULL}]
    /\ task \in Tasks

ListInv(o, E, M, ch) ==
    /\ LinkTypes /\ OwnInv(o) /\ EmptyInv(o, E) /\ NormInv(o, M) /\ ChainInv(o, ch)
    /\ UnlinkInv(M) /\ HeldInv(o) /\ FreedInv(E, ch)
CellInv == \E o, E, M, ch : ListInv(o, E, M, ch)

(* Who sent the frame in a cell, and which of that sender's frames it is.   *)
Sender(c) == frame[c].src
Number(c) == frame[c].no

NumberInv ==
    /\ frame \in [Cells -> Pieces \cup {NULL}] /\ whole \subseteq Cells
    /\ on_bus \in [Srcs -> 1..(MaxSent + 1)] /\ handed \in [Srcs -> SUBSET (1..MaxSent)]
    /\ \A s \in Srcs : \A n \in handed[s] : n < on_bus[s]

(* A message that is still to be read. *)
Unread(h) == h # Held \/ task.at = "copy"

FrameInv(o) ==
    \A c \in Cells : o[c] \in Cells /\ Unread(o[c]) =>
        /\ frame[c] \in Pieces /\ Sender(c) = Sender(o[c])
        /\ Number(c) < on_bus[Sender(c)]

(* A message can be read before an earlier one of its sender, if the scan   *)
(* passed that one unfinished; it is whole since, and stays the only one   *)
(* overtaken until it is read itself.                                      *)
HandedInv(o) ==
    \A h \in Cells : o[h] = h /\ Unread(h) =>
        \A n \in handed[Sender(h)] :
            /\ n # Number(h)
            /\ n > Number(h) =>
                 /\ h \in whole
                 /\ \A c \in Cells : o[c] = h => n > Number(c)
                 /\ \A m \in handed[Sender(h)] : m > Number(h) => m = n

ChainOrder(o, ch) ==
    \A h \in Cells : o[h] = h /\ Unread(h) =>
        \A i \in 1..Len(ch[h]) :
            /\ IsLastFrame(Number(ch[h][i])) <=> i = Len(ch[h]) /\ h \in whole
            /\ \A j \in 1..Len(ch[h]) : i < j => Number(ch[h][i]) < Number(ch[h][j])

ListOrder(o, M) ==
    \A i, j \in 2..Len(M) : i < j /\ Sender(M[i]) = Sender(M[j]) =>
        /\ M[i] \in whole
        /\ \A c, d \in Cells : o[c] = M[i] /\ o[d] = M[j] => Number(c) < Number(d)

(* None of the first k messages has been overtaken: those the scan passes   *)
(* are unfinished when it does, and nothing is read while it runs.         *)
Passed(M, k) == \A i \in 2..k : \A n \in handed[Sender(M[i])] : n < Number(M[i])

FoundOrder(M) ==
    /\ task.at = "scan" => \E k \in 2..Len(M) : task.last = M[k] /\ Passed(M, k)
    /\ task.at = "unlink_read" =>
         /\ task.cur \in whole
         /\ \E k \in 2..Len(M) : task.cur = M[k] /\ Passed(M, k - 1)

(* The other messages of the sender are all behind the one that is read,   *)
(* or all before it, and none of these is overtaken a second time.         *)
HeldOrder(o) ==
    task.at = "copy" =>
        /\ task.cur \in whole
        /\ \A h \in Cells : o[h] = h /\ h # task.cur /\ Sender(h) = Sender(task.cur) =>
             \/ \A c, d \in Cells : o[c] = task.cur /\ o[d] = h => Number(c) < Number(d)
             \/ /\ h \in whole /\ \A n \in handed[Sender(h)] : n < Number(h)
                /\ \A c, d \in Cells : o[c] = task.cur /\ o[d] = h => Number(d) < Number(c)

BlankInv(o) ==
    \A c \in Cells : o[c] = EMPT \/ (task.at = "freed" /\ o[c] = task.cur) => c \notin whole

(* What keeps the messages in order. *)
Ordered(o, M, ch) ==
    /\ NumberInv /\ FrameInv(o) /\ HandedInv(o) /\ ChainOrder(o, ch) /\ ListOrder(o, M)
    /\ FoundOrder(M) /\ HeldOrder(o) /\ BlankInv(o)
CacheInv == \E o, E, M, ch : ListInv(o, E, M, ch) /\ Ordered(o, M, ch)

-----------------------------------------------------------------------------
(* What the definitions that walk the links find in a state of the         *)
(* invariant.                                                              *)
LEMMA StartAndRest ==
    ASSUME NEW S, NEW T \in Seq(S), Len(T) > 0
    PROVE  <<T[1]>> \o [i \in 1..(Len(T) - 1) |-> T[i + 1]] = T
<1> DEFINE n == Len(T)
           R == [i \in 1..(n - 1) |-> T[i + 1]]
           J == <<T[1]>> \o R
<1>1. n \in Nat /\ n > 0 /\ (\A i \in 1..n : T[i] \in S) /\ T = [i \in 1..n |-> T[i]]
  OBVIOUS
<1>2. R \in Seq(S) /\ Len(R) = n - 1 /\ \A i \in 1..(n - 1) : R[i] = T[i + 1]
  <2> HIDE DEF n
  <2>1. n - 1 \in Nat /\ \A i \in 1..(n - 1) : T[i + 1] \in S
    BY <1>1
  <2> QED BY <2>1
<1> HIDE DEF n, R
<1>3. <<T[1]>> \in Seq(S) /\ Len(<<T[1]>>) = 1
  BY <1>1
<1>4. Len(J) = n /\ DOMAIN J = 1..n /\ J \in Seq(S)
  BY <1>1, <1>2, <1>3
<1>5. ASSUME NEW i \in 1..n PROVE J[i] = T[i]
  <2>1. CASE i = 1
    BY <1>2, <1>3, <2>1
  <2>2. CASE i # 1
    <3>1. i - 1 \in 1..(n - 1) /\ (i - 1) + 1 = i
      BY <1>1, <2>2
    <3>2. J[i] = R[i - 1]
      BY <1>1, <1>2, <1>3, <2>2
    <3> QED BY <1>2, <3>1, <3>2
  <2> QED BY <2>1, <2>2
<1> HIDE DEF J
<1>6. J = [i \in 1..n |-> J[i]]
  BY <1>4
<1>7. J = T
  BY <1>1, <1>5, <1>6
<1> QED BY <1>7 DEF J, R, n

LEMMA RangeIsIn ==
    ASSUME NEW S, NEW T \in Seq(S), NEW c
    PROVE  c \in Range(T) <=> In(c, T)
BY DEF Range, In

(* The cells behind the start of a list. *)
LEMMA RestOfList ==
    ASSUME NEW links, NEW start, NEW T, IsList(links, start, T), start \in Heads, NEW c
    PROVE  c \in Range(Follow(links, start)) <=> In(c, T) /\ c # start
<1> DEFINE n == Len(T)
           F == Follow(links, start)
<1>1. /\ n \in Nat /\ n > 0 /\ T[1] = start
      /\ \A i, j \in 1..n : T[i] = T[j] => i = j
  BY ListFacts
<1>2. F = [i \in 1..(n - 1) |-> T[i + 1]]
  BY FollowIs
<1> HIDE DEF n, F
<1>3. c \in Range(F) <=> \E i \in 1..(n - 1) : T[i + 1] = c
  BY <1>2 DEF Range
<1>4. (\E i \in 1..(n - 1) : T[i + 1] = c) => In(c, T) /\ c # start
  <2> SUFFICES ASSUME NEW i \in 1..(n - 1), T[i + 1] = c PROVE In(c, T) /\ c # start
    OBVIOUS
  <2>1. i + 1 \in 1..n /\ 1 \in 1..n /\ i + 1 # 1
    BY <1>1
  <2> QED BY <1>1, <2>1 DEF In, n
<1>5. In(c, T) /\ c # start => \E i \in 1..(n - 1) : T[i + 1] = c
  <2> SUFFICES ASSUME In(c, T), c # start PROVE \E i \in 1..(n - 1) : T[i + 1] = c
    OBVIOUS
  <2>1. PICK i \in 1..n : T[i] = c
    BY DEF In, n
  <2>2. i # 1
    BY <1>1, <2>1
  <2>3. i - 1 \in 1..(n - 1) /\ (i - 1) + 1 = i
    BY <1>1, <2>2
  <2> QED BY <2>1, <2>3
<1> QED BY <1>3, <1>4, <1>5 DEF F

LEMMA WholeList ==
    ASSUME NEW links, NEW start, NEW T, IsList(links, start, T), start \in Heads
    PROVE  <<start>> \o Follow(links, start) = T
<1>1. T \in Seq(Heads) /\ Len(T) > 0 /\ T[1] = start
  BY ListFacts
<1>2. Follow(links, start) = [i \in 1..(Len(T) - 1) |-> T[i + 1]]
  BY FollowIs
<1>3. <<T[1]>> \o [i \in 1..(Len(T) - 1) |-> T[i + 1]] = T
  BY <1>1, StartAndRest
<1> QED BY <1>1, <1>2, <1>3

(* The chain of a message. *)
LEMMA ChainIs ==
    ASSUME NEW o, NEW ch, ChainInv(o, ch), NEW h \in Cells, o[h] = h,
           ~(task.at = "freed" /\ h = task.cur)
    PROVE  Chain(h) = ch[h] /\ IsList(p_son_list, h, ch[h])
<1>1. /\ ch[h] \in Seq(Cells) /\ Len(ch[h]) > 0 /\ ch[h][1] = h
      /\ Distinct(ch[h]) /\ Linked(p_son_list, ch[h])
  BY DEF ChainInv
<1>2. IsList(p_son_list, h, ch[h])
  <2> DEFINE T == ch[h]
  <2>1. T \in Seq(Cells)
    BY <1>1
  <2> HIDE DEF T
  <2>2. T \in Seq(Heads) /\ \A i \in 2..Len(T) : T[i] \in Cells
    BY <2>1 DEF Heads
  <2> QED BY <1>1, <2>2 DEF IsList, T
<1>3. h \in Heads
  BY DEF Heads
<1>4. <<h>> \o Follow(p_son_list, h) = ch[h]
  BY <1>2, <1>3, WholeList
<1> QED BY <1>2, <1>4 DEF Chain

LEMMA MessagesAre ==
    ASSUME NEW o, NEW M, NormInv(o, M)
    PROVE  /\ Messages = [i \in 1..(Len(M) - 1) |-> M[i + 1]]
           /\ Len(Messages) = Len(M) - 1
           /\ DOMAIN Messages = 1..(Len(M) - 1)
           /\ \A i \in 1..(Len(M) - 1) : Messages[i] = M[i + 1]
           /\ \A c \in Cells : c \in Range(Messages) <=> o[c] = c /\ c # Held
<1>1. IsList(p_head_list, NORM, M) /\ NORM \in Heads
  BY DEF NormInv, Heads
<1>2. /\ Messages = [i \in 1..(Len(M) - 1) |-> M[i + 1]]
      /\ Len(Messages) = Len(M) - 1
  BY <1>1, FollowIs DEF Messages
<1>3. ASSUME NEW c \in Cells
      PROVE  c \in Range(Messages) <=> o[c] = c /\ c # Held
  <2>1. c \in Range(Messages) <=> In(c, M) /\ c # NORM
    BY <1>1, RestOfList DEF Messages
  <2>2. c # NORM
    BY Sizes
  <2> QED BY <2>1, <2>2 DEF NormInv
<1> HIDE DEF NormInv
<1>4. DOMAIN Messages = 1..(Len(M) - 1)
  BY <1>2
<1> QED BY <1>2, <1>3, <1>4

(* The message that is being put back leads into the empty list. *)
LEMMA FreedList ==
    ASSUME NEW o, NEW E, NEW M, NEW ch, ListInv(o, E, M, ch), task.at = "freed"
    PROVE  /\ IsList(p_head_list, task.cur, Joined(ch[task.cur], From(E, 2)))
           /\ \A c : In(c, Joined(ch[task.cur], From(E, 2)))
                       <=> c \in Cells /\ o[c] \in {task.cur, EMPT}
           /\ E[2] \in Cells
<1> DEFINE h == task.cur
           A == ch[h]
           T == From(E, 2)
<1>1. h \in Cells /\ o[h] = h
  BY DEF ListInv, HeldInv
<1>2. /\ A \in Seq(Cells) /\ Len(A) > 0 /\ A[1] = h /\ Distinct(A)
      /\ \A c \in Cells : o[c] = h <=> In(c, A)
  BY <1>1 DEF ListInv, ChainInv
<1>3. /\ \A i \in 1..(Len(A) - 1) : p_head_list[A[i]] = A[i + 1]
      /\ p_head_list[A[Len(A)]] = E[2]
  BY DEF ListInv, FreedInv
<1>4. /\ IsList(p_head_list, EMPT, E) /\ Len(E) > 2
      /\ \A c \in Cells : o[c] = EMPT <=> In(c, E)
  BY DEF ListInv, EmptyInv
<1>5. E \in Seq(Heads) /\ Len(E) \in Nat /\ E[1] = EMPT /\ In(EMPT, E)
      /\ \A i \in 2..Len(E) : E[i] \in Cells
  BY <1>4, ListFacts
<1>6. 2 \in 1..Len(E) /\ 2 \in 2..Len(E)
  BY <1>4, <1>5
<1>7. IsList(p_head_list, E[2], T) /\ E[2] \in Cells
  BY <1>4, <1>5, <1>6, ListFrom
<1>8. \A d : In(d, T) <=> d \in Cells /\ o[d] = EMPT
  <2>1. \A d : In(d, T) <=> \E i \in 2..Len(E) : E[i] = d
    BY <1>5, <1>6, FromFacts
  <2>2. \A d \in Cells : In(d, E) => \E i \in 2..Len(E) : E[i] = d
    <3> SUFFICES ASSUME NEW d \in Cells, NEW i \in 1..Len(E), E[i] = d
                 PROVE  i \in 2..Len(E)
      BY DEF In
    <3>1. i # 1
      BY <1>5, Sizes
    <3> QED BY <1>5, <3>1
  <2>3. \A i \in 2..Len(E) : In(E[i], E)
    BY <1>5 DEF In
  <2> HIDE DEF T
  <2> QED BY <1>4, <1>5, <2>1, <2>2, <2>3
<1>9. \A d : In(d, A) <=> d \in Cells /\ o[d] = h
  <2>1. \A d : In(d, A) => d \in Cells
    BY <1>2 DEF In
  <2> QED BY <1>2, <2>1
<1>10. h # EMPT /\ A \in Seq(Heads)
  BY <1>1, <1>2, Sizes DEF Heads
<1> HIDE DEF A, T, h
<1>11. \A d \in Heads : ~(In(d, A) /\ In(d, T))
  BY <1>8, <1>9, <1>10
<1>12. \A i \in 2..Len(A) : A[i] \in Cells
  BY <1>2
<1>13. IsList(p_head_list, A[1], Joined(A, T))
  BY <1>2, <1>3, <1>7, <1>10, <1>11, <1>12, ListJoined
<1>14. \A d : In(d, Joined(A, T)) <=> In(d, A) \/ In(d, T)
  <2>1. T \in Seq(Heads)
    BY <1>7, ListFacts
  <2> QED BY <1>10, <2>1, JoinedFacts
<1>15. \A d : In(d, Joined(A, T)) <=> d \in Cells /\ o[d] \in {h, EMPT}
  BY <1>8, <1>9, <1>14
<1> QED BY <1>2, <1>7, <1>13, <1>15 DEF A, T, h

LEMMA ChainCells ==
    ASSUME NEW o, NEW ch, ChainInv(o, ch), NEW h \in Cells, o[h] = h,
           ~(task.at = "freed" /\ h = task.cur), NEW c
    PROVE  c \in Range(Chain(h)) <=> c \in Cells /\ o[c] = h
<1>1. Chain(h) = ch[h] /\ ch[h] \in Seq(Cells)
  <2>1. Chain(h) = ch[h]
    BY ChainIs
  <2> QED BY <2>1 DEF ChainInv
<1>2. c \in Range(ch[h]) <=> In(c, ch[h])
  BY <1>1, RangeIsIn
<1>3. In(c, ch[h]) => c \in Cells
  BY <1>1 DEF In
<1>4. \A d \in Cells : o[d] = h <=> In(d, ch[h])
  BY DEF ChainInv
<1> QED BY <1>1, <1>2, <1>3, <1>4

LEMMA CellsAreOwned ==
    ASSUME NEW o, NEW E, NEW M, NEW ch, ListInv(o, E, M, ch)
    PROVE  /\ EmptyCells = {c \in Cells : o[c] = EMPT}
           /\ HeldCells = {c \in Cells : o[c] \in Cells /\ o[c] # Held}
           /\ TasksCells = {c \in Cells : o[c] \in Cells /\ o[c] = Held}
           /\ leaked = {c \in Cells : o[c] = NULL}
<1>1. /\ OwnInv(o) /\ EmptyInv(o, E) /\ NormInv(o, M) /\ ChainInv(o, ch) /\ HeldInv(o)
  BY DEF ListInv
<1>2. o \in [Cells -> Cells \cup {EMPT, NULL}]
      /\ \A c \in Cells : o[c] \in Cells => o[o[c]] = o[c]
  BY <1>1 DEF OwnInv
<1>3. EmptyCells = {c \in Cells : o[c] = EMPT}
  <2>1. IsList(p_head_list, EMPT, E) /\ EMPT \in Heads
    BY <1>1 DEF EmptyInv, Heads
  <2>2. \A c : c \in EmptyCells <=> In(c, E) /\ c # EMPT
    BY <2>1, RestOfList DEF EmptyCells
  <2>3. \A c : In(c, E) /\ c # EMPT => c \in Cells
    <3>1. \A i \in 1..Len(E) : E[i] \in Heads
      BY <2>1, ListFacts
    <3>2. \A i \in 2..Len(E) : E[i] \in Cells
      BY <2>1, ListFacts
    <3>3. E[1] = EMPT /\ Len(E) \in Nat
      BY <2>1, ListFacts
    <3>4. \A i \in 1..Len(E) : i = 1 \/ i \in 2..Len(E)
      BY <3>3
    <3> QED BY <3>2, <3>3, <3>4 DEF In
  <2>4. \A c \in Cells : c # EMPT /\ (o[c] = EMPT <=> In(c, E))
    BY <1>1, Sizes DEF EmptyInv
  <2> QED BY <2>2, <2>3, <2>4
<1>4. HeldCells = {c \in Cells : o[c] \in Cells /\ o[c] # Held}
  <2>1. \A h : h \in Range(Messages) => h \in Cells
    <3>1. IsList(p_head_list, NORM, M) /\ NORM \in Heads
      BY <1>1 DEF NormInv, Heads
    <3>2. \A i \in 2..Len(M) : M[i] \in Cells
      BY <3>1, ListFacts
    <3>3. Len(M) \in Nat
      BY <3>1, ListFacts
    <3>4. \A i \in 1..(Len(M) - 1) : Messages[i] = M[i + 1] /\ i + 1 \in 2..Len(M)
      BY <1>1, <3>3, MessagesAre
    <3>5. DOMAIN Messages = 1..(Len(M) - 1)
      BY <1>1, MessagesAre
    <3> QED BY <3>2, <3>4, <3>5 DEF Range
  <2>2. \A h \in Cells : h \in Range(Messages) <=> o[h] = h /\ h # Held
    BY <1>1, MessagesAre
  <2>3. \A h \in Cells : h # Held => ~(task.at = "freed" /\ h = task.cur)
    BY DEF Held
  <2>4. ASSUME NEW h \in Range(Messages), NEW c
        PROVE  c \in Range(Chain(h)) <=> c \in Cells /\ o[c] = h
    BY <1>1, <2>1, <2>2, <2>3, ChainCells
  <2>5. ASSUME NEW c
        PROVE  c \in HeldCells <=> c \in Cells /\ o[c] \in Cells /\ o[c] # Held
    <3>1. c \in HeldCells <=> \E h \in Range(Messages) : c \in Range(Chain(h))
      BY DEF HeldCells
    <3>2. c \in HeldCells <=> \E h \in Range(Messages) : c \in Cells /\ o[c] = h
      BY <2>4, <3>1
    <3>3. c \in HeldCells <=> c \in Cells /\ o[c] \in Range(Messages)
      BY <3>2
    <3>4. c \in Cells /\ o[c] \in Cells => o[o[c]] = o[c]
      BY <1>2
    <3> QED BY <2>1, <2>2, <3>3, <3>4
  <2> QED BY <2>5
<1>5. TasksCells = {c \in Cells : o[c] \in Cells /\ o[c] = Held}
  <2>1. CASE task.at \in {"copy", "free"}
    <3>1. /\ task.cur \in Cells /\ o[task.cur] = task.cur /\ Held = task.cur
          /\ task.at # "freed"
      BY <1>1, <2>1 DEF HeldInv, Held
    <3>2. \A c : c \in Range(Chain(task.cur)) <=> c \in Cells /\ o[c] = task.cur
      BY <1>1, <3>1, ChainCells
    <3>3. TasksCells = Range(Chain(task.cur))
      BY <2>1 DEF TasksCells
    <3> QED BY <3>1, <3>2, <3>3
  <2>2. CASE task.at = "freed"
    <3> DEFINE h == task.cur
               J == Joined(ch[h], From(E, 2))
    <3>1. h \in Cells /\ o[h] = h /\ Held = h /\ h \in Heads
      BY <1>1, <2>2 DEF HeldInv, Held, Heads
    <3>2. /\ IsList(p_head_list, h, J)
          /\ \A c : In(c, J) <=> c \in Cells /\ o[c] \in {h, EMPT}
      BY <2>2, FreedList
    <3>3. J \in Seq(Heads) /\ <<h>> \o Follow(p_head_list, h) = J
      BY <3>1, <3>2, WholeList, ListFacts
    <3>4. TasksCells = Range(J) \ EmptyCells
      BY <2>2, <3>3 DEF TasksCells
    <3> HIDE DEF J, h
    <3>5. \A c : c \in Range(J) <=> In(c, J)
      BY <3>3, RangeIsIn
    <3>6. h # EMPT
      BY <3>1, Sizes
    <3>7. \A c : c \in TasksCells <=> c \in Cells /\ o[c] = h
      BY <1>3, <3>2, <3>4, <3>5, <3>6
    <3> QED BY <3>1, <3>7
  <2>3. CASE task.at \notin {"copy", "free", "freed"}
    <3>1. TasksCells = {}
      BY <2>3 DEF TasksCells
    <3>2. Held = NULL
      BY <2>3 DEF Held
    <3> QED BY <3>1, <3>2, Sizes
  <2> QED BY <2>1, <2>2, <2>3
<1>6. leaked = {c \in Cells : o[c] = NULL}
  BY <1>1 DEF OwnInv
<1> QED BY <1>3, <1>4, <1>5, <1>6

LEMMA CellsAreKept == CellInv => CellsKept
<1> SUFFICES ASSUME NEW o, NEW E, NEW M, NEW ch, ListInv(o, E, M, ch)
             PROVE  CellsKept
  BY DEF CellInv
<1> DEFINE A == {c \in Cells : o[c] = EMPT}
           B == {c \in Cells : o[c] \in Cells /\ o[c] # Held}
           C == {c \in Cells : o[c] \in Cells /\ o[c] = Held}
           D == {c \in Cells : o[c] = NULL}
<1>1. EmptyCells = A /\ HeldCells = B /\ TasksCells = C /\ leaked = D
  BY CellsAreOwned
<1>2. o \in [Cells -> Cells \cup {EMPT, NULL}]
  BY DEF ListInv, OwnInv
<1>3. EMPT \notin Cells /\ NULL \notin Cells /\ EMPT # NULL
  BY Sizes
<1>4. (A \cup B) \cup (C \cup D) = Cells
  BY <1>2
<1>5. A \cap B = {} /\ C \cap D = {} /\ (A \cup B) \cap (C \cup D) = {}
  BY <1>3
<1>6. IsFiniteSet(Cells)
  BY Sizes, FS_Interval DEF Cells
<1>7. A \in SUBSET Cells /\ B \in SUBSET Cells /\ C \in SUBSET Cells /\ D \in SUBSET Cells
  OBVIOUS
<1> HIDE DEF A, B, C, D
<1>8. IsFiniteSet(A) /\ IsFiniteSet(B) /\ IsFiniteSet(C) /\ IsFiniteSet(D)
  BY <1>6, <1>7, FS_Subset
<1>9. /\ Cardinality(A) \in Nat /\ Cardinality(B) \in Nat
      /\ Cardinality(C) \in Nat /\ Cardinality(D) \in Nat
  BY <1>8, FS_CardinalityType
<1>10. /\ IsFiniteSet(A \cup B) /\ IsFiniteSet(C \cup D)
       /\ Cardinality(A \cup B) = Cardinality(A) + Cardinality(B) - Cardinality({})
       /\ Cardinality(C \cup D) = Cardinality(C) + Cardinality(D) - Cardinality({})
  BY <1>5, <1>8, FS_Union
<1>11. Cardinality(Cells) = Cardinality(A \cup B) + Cardinality(C \cup D) - Cardinality({})
  BY <1>4, <1>5, <1>10, FS_Union
<1>12. Cardinality({}) = 0
  BY FS_EmptySet
<1>13. Cardinality(A) + Cardinality(B) + Cardinality(C) + Cardinality(D) = Cardinality(Cells)
  BY <1>9, <1>10, <1>11, <1>12
<1>14. A \cup B \cup C \cup D = Cells
  BY <1>4
<1> QED BY <1>1, <1>13, <1>14 DEF CellsKept

-----------------------------------------------------------------------------
LEMMA InitLists == srcInit => CacheInv
<1> SUFFICES ASSUME srcInit PROVE CacheInv
  OBVIOUS
<1> DEFINE N == CellCount
           E == [i \in 1..(N + 1) |-> IF i = 1 THEN EMPT ELSE i - 1]
           M == [i \in 1..1 |-> NORM]
           o == [c \in Cells |-> EMPT]
           ch == [c \in Cells |-> << >>]
<1>1. /\ N \in Nat /\ N > 1 /\ Cells = 1..N
      /\ EMPT \notin Cells /\ NORM \notin Cells /\ NULL \notin Cells
      /\ EMPT # NORM /\ EMPT # NULL /\ NORM # NULL
  BY Sizes DEF Cells
<1>2. /\ p_head_list[EMPT] = 1 /\ p_head_list[NORM] = NULL
      /\ \A c \in Cells : p_head_list[c] = IF c < N THEN c + 1 ELSE NULL
      /\ p_son_list = [c \in Cells |-> NULL] /\ task = Idle /\ leaked = {}
  BY <1>1 DEF srcInit
<1>3. LinkTypes
  <2>1. p_son_list \in [Cells -> Cells \cup {NULL}]
    BY <1>2
  <2>2. p_head_list = [c \in Heads |-> p_head_list[c]]
    BY DEF srcInit, Heads
  <2>3. \A c \in Cells : p_head_list[c] \in Cells \cup {NULL}
    BY <1>1, <1>2
  <2>4. \A c \in Heads : p_head_list[c] \in Cells \cup {NULL}
    BY <1>1, <1>2, <2>3 DEF Heads
  <2>5. task \in Tasks
    BY <1>2 DEF Idle, Tasks
  <2> QED BY <2>1, <2>2, <2>4, <2>5 DEF LinkTypes
<1>4. IsList(p_head_list, EMPT, E) /\ Len(E) > 2
  <2>1. E \in Seq(Heads) /\ Len(E) = N + 1
    <3>1. \A i \in 1..(N + 1) : E[i] \in Heads
      BY <1>1 DEF Heads
    <3> QED BY <1>1, <3>1
  <2>2. E[1] = EMPT /\ \A i \in 2..(N + 1) : E[i] = i - 1 /\ E[i] \in Cells
    BY <1>1
  <2> HIDE DEF E
  <2>3. Distinct(E)
    <3>1. ASSUME NEW i \in 1..(N + 1), NEW j \in 1..(N + 1), E[i] = E[j] PROVE i = j
      <4>1. CASE i = 1 /\ j = 1
        BY <4>1
      <4>2. CASE i = 1 /\ j # 1
        <5>1. E[j] \in Cells
          BY <1>1, <2>2, <4>2
        <5> QED BY <1>1, <2>2, <3>1, <4>2, <5>1
      <4>3. CASE i # 1 /\ j = 1
        <5>1. E[i] \in Cells
          BY <1>1, <2>2, <4>3
        <5> QED BY <1>1, <2>2, <3>1, <4>3, <5>1
      <4>4. CASE i # 1 /\ j # 1
        <5>1. i - 1 = j - 1
          BY <1>1, <2>2, <3>1, <4>4
        <5> QED BY <5>1
      <4> QED BY <4>1, <4>2, <4>3, <4>4
    <3> QED BY <2>1, <3>1 DEF Distinct
  <2>4. Linked(p_head_list, E)
    <3>1. ASSUME NEW i \in 1..N PROVE p_head_list[E[i]] = E[i + 1]
      <4>1. E[i + 1] = i /\ i + 1 \in 2..(N + 1)
        BY <1>1, <2>2
      <4>2. CASE i = 1
        BY <1>2, <2>2, <4>1, <4>2
      <4>3. CASE i # 1
        <5>1. E[i] = i - 1 /\ i - 1 \in Cells /\ i - 1 < N /\ (i - 1) + 1 = i
          BY <1>1, <2>2, <4>3
        <5> QED BY <1>2, <4>1, <5>1
      <4> QED BY <4>2, <4>3
    <3>2. p_head_list[E[N + 1]] = NULL
      <4>1. E[N + 1] = N /\ N \in Cells /\ ~(N < N)
        BY <1>1, <2>2
      <4> QED BY <1>2, <4>1
    <3>3. Len(E) = N + 1 /\ Len(E) - 1 = N
      BY <1>1, <2>1
    <3> QED BY <3>1, <3>2, <3>3 DEF Linked
  <2> QED BY <1>1, <2>1, <2>2, <2>3, <2>4 DEF IsList
<1>5. EmptyInv(o, E)
  <2>1. ASSUME NEW c \in Cells PROVE In(c, E)
    <3>1. c + 1 \in 1..(N + 1) /\ E[c + 1] = c /\ Len(E) = N + 1
      BY <1>1
    <3> HIDE DEF E
    <3> QED BY <3>1 DEF In
  <2> HIDE DEF E
  <2> QED BY <1>4, <2>1 DEF EmptyInv
<1>6. NormInv(o, M)
  <2>1. M \in Seq(Heads) /\ Len(M) = 1 /\ M[1] = NORM
    BY DEF Heads
  <2> HIDE DEF M
  <2>2. IsList(p_head_list, NORM, M)
    BY <1>2, <2>1 DEF IsList, Distinct, Linked
  <2>3. \A c \in Cells : ~In(c, M) /\ o[c] # c
    BY <1>1, <2>1 DEF In
  <2> QED BY <2>2, <2>3 DEF NormInv
<1>7. OwnInv(o) /\ ChainInv(o, ch)
  <2>1. \A c \in Cells : o[c] = EMPT /\ EMPT \notin Cells
    BY <1>1
  <2>2. ch \in [Cells -> Seq(Cells)]
    OBVIOUS
  <2>3. \A c \in Cells : o[c] # c
    BY <1>1
  <2> QED BY <1>1, <1>2, <2>1, <2>2, <2>3 DEF OwnInv, ChainInv
<1>8. UnlinkInv(M) /\ HeldInv(o) /\ FreedInv(E, ch)
  <2>1. task.at = "idle"
    BY <1>2 DEF Idle
  <2> QED BY <2>1 DEF UnlinkInv, HeldInv, FreedInv
<1>9. ListInv(o, E, M, ch)
  BY <1>3, <1>4, <1>5, <1>6, <1>7, <1>8 DEF ListInv
<1>10. (\A c \in Cells : o[c] = EMPT) /\ Len(M) = 1
  OBVIOUS
<1> HIDE DEF E, M, o, ch
<1>11. Ordered(o, M, ch)
  <2>1. task.at = "idle"
    BY <1>2 DEF Idle
  <2>2. NumberInv
    <3>1. frame = [c \in Cells |-> NULL] /\ whole = {} /\ on_bus = [s \in Srcs |-> 1]
          /\ handed = [s \in Srcs |-> {}]
      BY DEF srcInit
    <3>2. MaxSent \in Nat
      BY Sizes
    <3> QED BY <3>1, <3>2 DEF NumberInv
  <2>3. FrameInv(o) /\ HandedInv(o) /\ ChainOrder(o, ch)
    BY <1>1, <1>10 DEF FrameInv, HandedInv, ChainOrder
  <2>4. ListOrder(o, M)
    BY <1>10 DEF ListOrder
  <2>5. FoundOrder(M) /\ HeldOrder(o)
    BY <2>1 DEF FoundOrder, HeldOrder
  <2>6. BlankInv(o)
    BY DEF srcInit, BlankInv
  <2> QED BY <2>2, <2>3, <2>4, <2>5, <2>6 DEF Ordered
<1> QED BY <1>9, <1>11 DEF CacheInv

-----------------------------------------------------------------------------
(* Who is in which list. *)
LEMMA MembersAre ==
    ASSUME NEW o, NEW E, NEW M, NEW ch, ListInv(o, E, M, ch), NEW c
    PROVE  /\ In(c, E) <=> c = EMPT \/ (c \in Cells /\ o[c] = EMPT)
           /\ In(c, M) <=> c = NORM \/ (c \in Cells /\ o[c] = c /\ c # Held)
           /\ \A h \in Cells : o[h] = h => (In(c, ch[h]) <=> c \in Cells /\ o[c] = h)
<1>1. EmptyInv(o, E) /\ NormInv(o, M) /\ ChainInv(o, ch)
  BY DEF ListInv
<1>2. IsList(p_head_list, EMPT, E) /\ IsList(p_head_list, NORM, M)
  BY <1>1 DEF EmptyInv, NormInv
<1>3. In(EMPT, E) /\ (In(c, E) => c = EMPT \/ c \in Cells)
  <2>1. In(EMPT, E) /\ Len(E) \in Nat /\ E[1] = EMPT /\ \A i \in 2..Len(E) : E[i] \in Cells
    BY <1>2, ListFacts
  <2>2. \A i \in 1..Len(E) : i = 1 \/ i \in 2..Len(E)
    BY <2>1
  <2> QED BY <2>1, <2>2 DEF In
<1>4. In(NORM, M) /\ (In(c, M) => c = NORM \/ c \in Cells)
  <2>1. In(NORM, M) /\ Len(M) \in Nat /\ M[1] = NORM /\ \A i \in 2..Len(M) : M[i] \in Cells
    BY <1>2, ListFacts
  <2>2. \A i \in 1..Len(M) : i = 1 \/ i \in 2..Len(M)
    BY <2>1
  <2> QED BY <2>1, <2>2 DEF In
<1>5. ASSUME NEW h \in Cells, o[h] = h
      PROVE  In(c, ch[h]) <=> c \in Cells /\ o[c] = h
  <2>1. ch[h] \in Seq(Cells) /\ \A d \in Cells : o[d] = h <=> In(d, ch[h])
    BY <1>1, <1>5 DEF ChainInv
  <2>2. In(c, ch[h]) => c \in Cells
    BY <2>1 DEF In
  <2> QED BY <2>1, <2>2
<1>6. c \in Cells => (o[c] = EMPT <=> In(c, E))
  BY <1>1 DEF EmptyInv
<1>7. c \in Cells => (o[c] = c /\ c # Held <=> In(c, M))
  BY <1>1 DEF NormInv
<1> QED BY <1>3, <1>4, <1>5, <1>6, <1>7

LEMMA MinIn ==
    ASSUME NEW S \in SUBSET Nat, S # {}
    PROVE  Min(S) \in S /\ \A i \in S : Min(S) <= i
<1>1. \E x \in S : \A y \in S : x <= y
  BY LeastNat
<1> QED BY <1>1 DEF Min

LEMMA SameLists ==
    ASSUME NEW o, NEW E, NEW M, NEW ch, ListInv(o, E, M, ch),
           UNCHANGED <<p_head_list, p_son_list, task, leaked>>
    PROVE  ListInv(o, E, M, ch)'
BY DEF ListInv, LinkTypes, OwnInv, EmptyInv, NormInv, ChainInv, UnlinkInv,
   HeldInv, FreedInv, Held

LEMMA FoundCell ==
    ASSUME NEW o, NEW E, NEW M, NEW ch, ListInv(o, E, M, ch),
           task.at \in {"idle", "scan"}, UNCHANGED <<p_head_list, p_son_list, leaked>>,
           NEW a \in {"unlink_read", "unlink_timeout"}, NEW k \in 2..Len(M),
           task' = [at |-> a, last |-> M[k - 1], cur |-> M[k], next |-> p_head_list[M[k]]]
    PROVE  ListInv(o, E, M, ch)'
<1>1. /\ task'.at = a /\ task'.last = M[k - 1] /\ task'.cur = M[k]
      /\ task'.next = p_head_list[M[k]]
  OBVIOUS
<1>2. Held' = NULL /\ Held = NULL
  BY <1>1 DEF Held
<1>3. OwnInv(o)' /\ EmptyInv(o, E)'
  BY DEF ListInv, OwnInv, EmptyInv
<1>8. LinkTypes'
  <2>1. IsList(p_head_list, NORM, M)
    BY DEF ListInv, NormInv
  <2>2. M[k] \in Cells /\ M[k - 1] \in Heads
    <3>1. Len(M) \in Nat /\ k \in 2..Len(M) /\ k - 1 \in 1..Len(M)
      BY <2>1, ListFacts
    <3> QED BY <2>1, <3>1, ListFacts
  <2>3. LinkTypes
    BY DEF ListInv
  <2>4. p_head_list[M[k]] \in Cells \cup {NULL}
    BY <2>2, <2>3 DEF LinkTypes, Heads
  <2>5. task' \in Tasks
    BY <2>2, <2>4 DEF Tasks, Heads
  <2> QED BY <2>3, <2>5 DEF LinkTypes
<1>4. NormInv(o, M)'
  BY <1>2 DEF ListInv, NormInv
<1>5. ChainInv(o, ch)'
  BY <1>1 DEF ListInv, ChainInv
<1>6. UnlinkInv(M)'
  BY <1>1 DEF UnlinkInv
<1>7. HeldInv(o)' /\ FreedInv(E, ch)'
  BY <1>1 DEF HeldInv, FreedInv
<1> QED BY <1>3, <1>4, <1>5, <1>6, <1>7, <1>8 DEF ListInv

LEMMA MessagePlace ==
    ASSUME NEW o, NEW M, NormInv(o, M), NEW i \in DOMAIN Messages
    PROVE  i + 1 \in 2..Len(M) /\ Messages[i] = M[i + 1] /\ i \in Nat
<1>1. Len(M) \in Nat /\ M[1] = NORM
  <2>1. IsList(p_head_list, NORM, M)
    BY DEF NormInv
  <2> QED BY <2>1, ListFacts
<1>2. /\ DOMAIN Messages = 1..(Len(M) - 1)
      /\ \A j \in 1..(Len(M) - 1) : Messages[j] = M[j + 1]
  BY MessagesAre
<1>3. i \in 1..(Len(M) - 1) /\ i + 1 \in 2..Len(M) /\ i \in Nat
  BY <1>1, <1>2
<1> QED BY <1>2, <1>3

(* Where the scan is: at the head of the list or at a message. *)
LEMMA ScanPlace ==
    ASSUME NEW o, NEW E, NEW M, NEW ch, ListInv(o, E, M, ch), FoundOrder(M), Scan
    PROVE  \E k \in 1..Len(M) :
             /\ M[k] = IF task.at = "idle" THEN NORM ELSE task.last
             /\ Passed(M, k)
             /\ \/ k = Len(M) /\ p_head_list[M[k]] = NULL
                \/ /\ k + 1 \in 2..Len(M) /\ p_head_list[M[k]] = M[k + 1]
                   /\ M[k + 1] \in Cells
<1>1. /\ Len(M) \in Nat /\ Len(M) > 0 /\ M[1] = NORM
      /\ \A i \in 2..Len(M) : M[i] \in Cells
      /\ \A i \in 1..(Len(M) - 1) : p_head_list[M[i]] = M[i + 1]
      /\ p_head_list[M[Len(M)]] = NULL
  <2>1. IsList(p_head_list, NORM, M)
    BY DEF ListInv, NormInv
  <2> QED BY <2>1, ListFacts
<1>2. \E k \in 1..Len(M) :
        /\ M[k] = IF task.at = "idle" THEN NORM ELSE task.last
        /\ Passed(M, k)
  <2>1. CASE task.at = "idle"
    <3>1. 1 \in 1..Len(M) /\ Passed(M, 1)
      BY <1>1 DEF Passed
    <3> QED BY <1>1, <2>1, <3>1
  <2>2. CASE task.at = "scan"
    <3>1. PICK k \in 2..Len(M) : task.last = M[k] /\ Passed(M, k)
      BY <2>2 DEF FoundOrder
    <3>2. k \in 1..Len(M)
      BY <1>1
    <3> QED BY <2>2, <3>1, <3>2
  <2> QED BY <2>1, <2>2 DEF Scan
<1>3. PICK k \in 1..Len(M) :
        /\ M[k] = IF task.at = "idle" THEN NORM ELSE task.last
        /\ Passed(M, k)
  BY <1>2
<1>4. k = Len(M) \/ (k + 1 \in 2..Len(M) /\ k \in 1..(Len(M) - 1))
  BY <1>1
<1> QED BY <1>1, <1>3, <1>4

(* The scan goes on, or starts from the front the next time. *)
LEMMA ScanGoesOn ==
    ASSUME NEW o, NEW E, NEW M, NEW ch, ListInv(o, E, M, ch),
           task.at \in {"idle", "scan"}, UNCHANGED <<p_head_list, p_son_list, leaked>>,
           task' \in Tasks, task'.at \in {"idle", "scan"}
    PROVE  ListInv(o, E, M, ch)'
<1>1. Held' = NULL /\ Held = NULL
  BY DEF Held
<1>2. LinkTypes' /\ OwnInv(o)' /\ EmptyInv(o, E)'
  BY DEF ListInv, LinkTypes, OwnInv, EmptyInv
<1>3. NormInv(o, M)'
  BY <1>1 DEF ListInv, NormInv
<1>4. ChainInv(o, ch)'
  BY DEF ListInv, ChainInv
<1>5. UnlinkInv(M)' /\ HeldInv(o)' /\ FreedInv(E, ch)'
  BY DEF UnlinkInv, HeldInv, FreedInv
<1> QED BY <1>2, <1>3, <1>4, <1>5 DEF ListInv

LEMMA ScanKeeps ==
    ASSUME NEW o, NEW E, NEW M, NEW ch, ListInv(o, E, M, ch), FoundOrder(M), Scan
    PROVE  ListInv(o, E, M, ch)'
<1>1. PICK k \in 1..Len(M) :
        /\ M[k] = IF task.at = "idle" THEN NORM ELSE task.last
        /\ \/ k = Len(M) /\ p_head_list[M[k]] = NULL
           \/ /\ k + 1 \in 2..Len(M) /\ p_head_list[M[k]] = M[k + 1]
              /\ M[k + 1] \in Cells
  BY ScanPlace
<1>2. PICK cur : cur = p_head_list[M[k]]
  OBVIOUS
<1>3. /\ task.at \in {"idle", "scan"} /\ UNCHANGED <<p_head_list, p_son_list, leaked>>
      /\ \/ task' = Idle
         \/ /\ cur # NULL
            /\ task' = [at |-> "scan", last |-> cur, cur |-> NULL, next |-> NULL]
         \/ /\ cur # NULL
            /\ task' = [at |-> "unlink_read", last |-> M[k], cur |-> cur,
                        next |-> p_head_list[cur]]
  BY <1>1, <1>2 DEF Scan, lists
<1>4. CASE task' = Idle
  <2>1. task' \in Tasks /\ task'.at = "idle"
    BY <1>4 DEF Idle, Tasks
  <2> QED BY <1>3, <2>1, ScanGoesOn
<1>5. CASE /\ cur # NULL
           /\ task' = [at |-> "scan", last |-> cur, cur |-> NULL, next |-> NULL]
  <2>1. cur \in Cells
    BY <1>1, <1>2, <1>5
  <2>2. task' \in Tasks /\ task'.at = "scan"
    BY <1>5, <2>1 DEF Tasks
  <2> QED BY <1>3, <2>2, ScanGoesOn
<1>6. CASE /\ cur # NULL
           /\ task' = [at |-> "unlink_read", last |-> M[k], cur |-> cur,
                       next |-> p_head_list[cur]]
  <2>1. PICK l \in 2..Len(M) : l = k + 1
    BY <1>1, <1>2, <1>6
  <2>2. M[l] = cur /\ M[l - 1] = M[k]
    <3>1. l - 1 = k
      BY <2>1
    <3>2. cur = M[k + 1]
      BY <1>1, <1>2, <1>6
    <3> QED BY <2>1, <3>1, <3>2
  <2> QED BY <1>3, <1>6, <2>2, FoundCell
<1> QED BY <1>3, <1>4, <1>5, <1>6

LEMMA FindTimeoutKeeps ==
    ASSUME NEW o, NEW E, NEW M, NEW ch, ListInv(o, E, M, ch), FindTimeout
    PROVE  ListInv(o, E, M, ch)'
<1>1. NormInv(o, M) /\ IsList(p_head_list, NORM, M)
  BY DEF ListInv, NormInv
<1>2. Len(M) \in Nat /\ Len(M) > 0 /\ M[1] = NORM
  BY <1>1, ListFacts
<1>3. 2 \in 2..Len(M) /\ Messages[1] = M[2]
  <2>1. Messages # << >> /\ Messages = [i \in 1..(Len(M) - 1) |-> M[i + 1]]
    BY <1>1, MessagesAre DEF FindTimeout
  <2>2. Len(M) # 1
    BY <2>1
  <2>3. 1 \in 1..(Len(M) - 1) /\ 1 + 1 = 2
    BY <1>2, <2>2
  <2> QED BY <1>2, <2>1, <2>3
<1>4. /\ task.at = "idle"
      /\ task' = [at |-> "unlink_timeout", last |-> M[2 - 1],
                  cur |-> M[2], next |-> p_head_list[M[2]]]
      /\ UNCHANGED <<p_head_list, p_son_list, leaked>>
  BY <1>2, <1>3 DEF FindTimeout, lists
<1> QED BY <1>3, <1>4, FoundCell

LEMMA CopyKeeps ==
    ASSUME NEW o, NEW E, NEW M, NEW ch, ListInv(o, E, M, ch), Copy
    PROVE  ListInv(o, E, M, ch)'
<1>1. /\ task.at = "copy" /\ UNCHANGED <<p_head_list, p_son_list, leaked>>
      /\ task' = [task EXCEPT !.at = "free"] /\ task \in Tasks
  BY DEF Copy, lists, ListInv, LinkTypes
<1>2. task'.at = "free" /\ task'.cur = task.cur /\ task' \in Tasks
  BY <1>1 DEF Tasks
<1>3. Held' = task.cur /\ Held = task.cur
  BY <1>1, <1>2 DEF Held
<1>4. LinkTypes' /\ OwnInv(o)' /\ EmptyInv(o, E)'
  BY <1>1, <1>2 DEF ListInv, LinkTypes, OwnInv, EmptyInv
<1>5. NormInv(o, M)'
  BY <1>1, <1>3 DEF ListInv, NormInv
<1>6. ChainInv(o, ch)'
  BY <1>1, <1>2 DEF ListInv, ChainInv
<1>7. UnlinkInv(M)' /\ FreedInv(E, ch)'
  BY <1>2 DEF UnlinkInv, FreedInv
<1>8. HeldInv(o)'
  BY <1>1, <1>2 DEF ListInv, HeldInv
<1> QED BY <1>4, <1>5, <1>6, <1>7, <1>8 DEF ListInv

(* How unlinking changes owners and list: the messages that stay keep their *)
(* order.                                                                  *)
Unlinked(o, M, w, N) ==
    /\ \A c \in Cells : w[c] \in {o[c], NULL}
    /\ \E k \in 2..Len(M) :
         /\ task.cur = M[k]
         /\ \A i \in 2..Len(N) :
              IF i < k THEN N[i] = M[i] ELSE i + 1 \in 2..Len(M) /\ N[i] = M[i + 1]

(* Unlinking takes one message out of the list, or also loses those that   *)
(* were put behind it meanwhile.                                           *)
LEMMA UnlinkKeeps ==
    ASSUME NEW o, NEW E, NEW M, NEW ch, ListInv(o, E, M, ch), Unlink
    PROVE  \E w, N : ListInv(w, E, N, ch)' /\ Unlinked(o, M, w, N)
<1>1. /\ task.at \in {"unlink_read", "unlink_timeout"}
      /\ p_head_list' = [p_head_list EXCEPT ![task.last] = task.next]
      /\ task' = [task EXCEPT !.at = IF @ = "unlink_read" THEN "copy" ELSE "free"]
      /\ p_son_list' = p_son_list
  BY DEF Unlink
<1>2. /\ LinkTypes /\ OwnInv(o) /\ EmptyInv(o, E) /\ NormInv(o, M) /\ ChainInv(o, ch)
      /\ UnlinkInv(M)
  BY DEF ListInv
<1>3. PICK k \in 2..Len(M) : task.cur = M[k] /\ task.last = M[k - 1]
  BY <1>1, <1>2 DEF UnlinkInv
<1>4. /\ IsList(p_head_list, EMPT, E) /\ IsList(p_head_list, NORM, M)
      /\ Len(E) > 2 /\ Len(M) \in Nat /\ M \in Seq(Heads)
      /\ \A i \in 2..Len(M) : M[i] \in Cells
      /\ \A i \in 1..Len(M) : M[i] \in Heads /\ In(M[i], M)
      /\ \A i, j \in 1..Len(M) : M[i] = M[j] => i = j
      /\ M[1] = NORM
  <2>1. IsList(p_head_list, EMPT, E) /\ IsList(p_head_list, NORM, M) /\ Len(E) > 2
    BY <1>2 DEF EmptyInv, NormInv
  <2> QED BY <2>1, ListFacts
<1>5. /\ task'.at \in {"copy", "free"} /\ task'.cur = M[k] /\ task' \in Tasks
  BY <1>1, <1>2, <1>3 DEF Tasks, LinkTypes
<1>6. Held = NULL /\ Held' = M[k]
  BY <1>1, <1>5 DEF Held
<1>7. /\ k \in 1..Len(M) /\ k - 1 \in 1..Len(M) /\ k # k - 1
      /\ M[k] \in Cells /\ M[k - 1] \in Heads /\ M[k] # M[k - 1]
  <2>1. k \in 1..Len(M) /\ k - 1 \in 1..Len(M) /\ k # k - 1
    BY <1>4
  <2> QED BY <1>4, <2>1
<1>8. /\ p_head_list \in [Heads -> Cells \cup {NULL}] /\ p_son_list \in [Cells -> Cells \cup {NULL}]
      /\ o \in [Cells -> Cells \cup {EMPT, NULL}]
      /\ \A c \in Cells : o[c] \in Cells => o[o[c]] = o[c]
      /\ leaked = {c \in Cells : o[c] = NULL}
  BY <1>2 DEF LinkTypes, OwnInv
<1>9. task.next \in {NULL, p_head_list[M[k]]} /\ task.next \in Cells \cup {NULL}
  BY <1>1, <1>2, <1>3, <1>7, <1>8 DEF UnlinkInv, Heads
<1>10. /\ p_head_list'[M[k - 1]] = task.next
       /\ \A d \in Heads : d # M[k - 1] => p_head_list'[d] = p_head_list[d]
       /\ p_head_list' \in [Heads -> Cells \cup {NULL}]
  BY <1>1, <1>3, <1>7, <1>8, <1>9
<1>11. LinkTypes'
  BY <1>1, <1>5, <1>8, <1>10 DEF LinkTypes
<1>12. ~In(M[k - 1], E)
  <2>1. M[k - 1] = NORM \/ (M[k - 1] \in Cells /\ o[M[k - 1]] = M[k - 1])
    BY <1>4, <1>7, MembersAre
  <2>2. NORM # EMPT /\ NORM \notin Cells /\ EMPT \notin Cells
    BY Sizes
  <2> QED BY <2>1, <2>2, MembersAre
<1>13. IsList(p_head_list', EMPT, E)
  BY <1>4, <1>10, <1>12, ListKept
<1>14. o[M[k]] = M[k]
  BY <1>4, <1>7, Sizes, MembersAre
<1>15. task.at # "freed" /\ task'.at # "freed"
  BY <1>1, <1>5
<1>16. CASE task.next = p_head_list[M[k]]
  <2> DEFINE N == Without(M, k)
  <2>1. leaked' = leaked
    BY <1>3, <1>16 DEF Unlink
  <2>2. IsList(p_head_list', NORM, N)
    <3>1. p_head_list'[M[k - 1]] = p_head_list[M[k]]
      BY <1>10, <1>16
    <3>2. \A d \in Heads : In(d, M) /\ d # M[k - 1] /\ d # M[k] => p_head_list'[d] = p_head_list[d]
      BY <1>10
    <3> QED BY <1>4, <3>1, <3>2, ListWithout
  <2>3. \A d : In(d, N) <=> In(d, M) /\ d # M[k]
    <3>1. Distinct(M)
      BY <1>4 DEF IsList
    <3> QED BY <1>4, <1>7, <3>1, WithoutFacts
  <2> HIDE DEF N
  <2>4. NormInv(o, N)'
    <3>1. ASSUME NEW c \in Cells
          PROVE  (o[c] = c /\ c # Held') <=> In(c, N)
      <4>1. In(c, M) <=> o[c] = c /\ c # Held
        BY <1>2 DEF NormInv
      <4>2. c # NULL
        BY Sizes
      <4> QED BY <1>6, <2>3, <4>1, <4>2
    <3> QED BY <2>2, <3>1 DEF NormInv
  <2>5. OwnInv(o)' /\ EmptyInv(o, E)'
    BY <1>2, <1>4, <1>13, <2>1 DEF OwnInv, EmptyInv
  <2>6. ChainInv(o, ch)'
    BY <1>1, <1>2, <1>15 DEF ChainInv
  <2>7. UnlinkInv(N)' /\ HeldInv(o)' /\ FreedInv(E, ch)'
    BY <1>5, <1>7, <1>14, <1>15 DEF UnlinkInv, HeldInv, FreedInv
  <2>8. ListInv(o, E, N, ch)'
    BY <1>11, <2>4, <2>5, <2>6, <2>7 DEF ListInv
  <2>9. \A i \in 2..Len(N) :
          IF i < k THEN N[i] = M[i] ELSE i + 1 \in 2..Len(M) /\ N[i] = M[i + 1]
    <3>1. Distinct(M)
      BY <1>4 DEF IsList
    <3>2. Len(N) = Len(M) - 1
      BY <1>4, <1>7, <3>1, WithoutFacts DEF N
    <3>3. \A i \in 1..(Len(M) - 1) : N[i] = IF i < k THEN M[i] ELSE M[i + 1]
      BY <1>4, <1>7, <3>1, WithoutFacts DEF N
    <3>4. \A i \in 2..(Len(M) - 1) : i \in 1..(Len(M) - 1) /\ i + 1 \in 2..Len(M)
      BY <1>4
    <3> QED BY <3>2, <3>3, <3>4
  <2>10. Unlinked(o, M, o, N)
    BY <1>3, <2>9 DEF Unlinked
  <2> QED BY <2>8, <2>10
<1>17. CASE task.next # p_head_list[M[k]]
  <2> DEFINE N == CutAt(M, k)
             Lost == {M[j] : j \in (k + 1)..Len(M)}
             w == [c \in Cells |-> IF o[c] \in Lost THEN NULL ELSE o[c]]
  <2>1. task.next = NULL
    BY <1>9, <1>17
  <2>2. IsList(p_head_list', NORM, N)
    <3>1. p_head_list'[M[k - 1]] = NULL
      BY <1>10, <2>1
    <3>2. \A d \in Heads : In(d, M) /\ d # M[k - 1] => p_head_list'[d] = p_head_list[d]
      BY <1>10
    <3> QED BY <1>4, <3>1, <3>2, ListCut
  <2>3. \A d : In(d, N) <=> In(d, M) /\ d # M[k] /\ d \notin Lost
    <3>1. \A d : In(d, N) <=> \E i \in 1..(k - 1) : M[i] = d
      BY <1>4, CutFacts
    <3>2. ASSUME NEW d, NEW i \in 1..(k - 1), M[i] = d
          PROVE  In(d, M) /\ d # M[k] /\ d \notin Lost
      <4>1. i \in 1..Len(M) /\ i # k /\ \A j \in (k + 1)..Len(M) : j \in 1..Len(M) /\ i # j
        BY <1>4, <1>7
      <4> QED BY <1>4, <1>7, <3>2, <4>1 DEF In
    <3>3. ASSUME NEW d, In(d, M), d # M[k], d \notin Lost
          PROVE  \E i \in 1..(k - 1) : M[i] = d
      <4>1. PICK i \in 1..Len(M) : M[i] = d
        BY <3>3 DEF In
      <4>2. i # k /\ i \notin (k + 1)..Len(M)
        BY <3>3, <4>1
      <4>3. i \in 1..(k - 1)
        BY <1>4, <1>7, <4>2
      <4> QED BY <4>1, <4>3
    <3> HIDE DEF N, Lost
    <3> QED BY <3>1, <3>2, <3>3
  <2>4. \A h \in Lost : h \in Cells /\ o[h] = h /\ h # M[k]
    <3>1. ASSUME NEW j \in (k + 1)..Len(M)
          PROVE  M[j] \in Cells /\ o[M[j]] = M[j] /\ M[j] # M[k]
      <4>1. j \in 2..Len(M) /\ j \in 1..Len(M) /\ j # k
        BY <1>4
      <4>2. M[j] \in Cells /\ In(M[j], M) /\ M[j] # M[k]
        BY <1>4, <1>7, <4>1
      <4> QED BY <4>2, Sizes, MembersAre
    <3> QED BY <3>1
  <2>5. \A h : h \in Range(Follow(p_head_list, task.cur)) <=> h \in Lost
    <3>1. IsList(p_head_list, M[k], From(M, k)) /\ M[k] \in Heads
      BY <1>4, <1>7, ListFrom
    <3>2. \A h : h \in Range(Follow(p_head_list, M[k])) <=> In(h, From(M, k)) /\ h # M[k]
      BY <3>1, RestOfList
    <3>3. \A h : In(h, From(M, k)) <=> \E i \in k..Len(M) : M[i] = h
      BY <1>4, <1>7, FromFacts
    <3>4. ASSUME NEW h
          PROVE  (\E i \in k..Len(M) : M[i] = h) /\ h # M[k] <=> h \in Lost
      <4>1. ASSUME NEW i \in k..Len(M), M[i] = h, h # M[k] PROVE h \in Lost
        <5>1. i # k
          BY <4>1
        <5>2. i \in (k + 1)..Len(M)
          BY <1>4, <5>1
        <5> QED BY <4>1, <5>2
      <4>2. ASSUME NEW i \in (k + 1)..Len(M), M[i] = h
            PROVE  i \in k..Len(M) /\ h # M[k]
        <5>1. i \in k..Len(M) /\ i \in 1..Len(M) /\ i # k
          BY <1>4
        <5> QED BY <1>4, <1>7, <4>2, <5>1
      <4> QED BY <4>1, <4>2
    <3> HIDE DEF Lost
    <3> QED BY <1>3, <3>2, <3>3, <3>4
  <2>6. leaked' = {c \in Cells : w[c] = NULL}
    <3>1. leaked' = leaked \cup UNION {Range(Chain(h)) : h \in Range(Follow(p_head_list, task.cur))}
      BY <1>3, <1>17 DEF Unlink
    <3>2. ASSUME NEW h \in Lost, NEW c
          PROVE  c \in Range(Chain(h)) <=> c \in Cells /\ o[c] = h
      BY <1>2, <1>15, <2>4, ChainCells
    <3> HIDE DEF Lost
    <3>3. ASSUME NEW c
          PROVE  c \in leaked' <=> c \in Cells /\ w[c] = NULL
      <4>1. c \in leaked' <=> c \in leaked
              \/ \E h \in Range(Follow(p_head_list, task.cur)) : c \in Range(Chain(h))
        BY <3>1
      <4>2. c \in leaked' <=> c \in leaked \/ \E h \in Lost : c \in Cells /\ o[c] = h
        BY <2>5, <3>2, <4>1
      <4> QED BY <1>8, <4>2
    <3> QED BY <3>3
  <2>7. OwnInv(w)'
    <3>1. w \in [Cells -> Cells \cup {EMPT, NULL}]
      BY <1>8
    <3>2. ASSUME NEW c \in Cells, w[c] \in Cells PROVE w[w[c]] = w[c]
      <4>1. w[c] = o[c] /\ o[c] \notin Lost /\ o[c] \in Cells
        BY <3>2, Sizes
      <4>2. o[o[c]] = o[c]
        BY <1>8, <4>1
      <4> QED BY <4>1, <4>2
    <3> HIDE DEF w
    <3> QED BY <2>6, <3>1, <3>2 DEF OwnInv
  <2> HIDE DEF N, Lost
  <2>8. NormInv(w, N)'
    <3>1. ASSUME NEW c \in Cells
          PROVE  (w[c] = c /\ c # Held') <=> In(c, N)
      <4>1. In(c, M) <=> o[c] = c /\ c # Held
        BY <1>2 DEF NormInv
      <4>2. c # NULL
        BY Sizes
      <4>3. w[c] = c <=> o[c] = c /\ c \notin Lost
        BY <4>2
      <4> QED BY <1>6, <2>3, <4>1, <4>2, <4>3
    <3> HIDE DEF w
    <3> QED BY <2>2, <3>1 DEF NormInv
  <2>9. EmptyInv(w, E)'
    <3>1. EMPT \notin Lost /\ NULL # EMPT
      BY <2>4, Sizes
    <3>2. \A c \in Cells : w[c] = EMPT <=> o[c] = EMPT
      BY <3>1
    <3> HIDE DEF w
    <3> QED BY <1>2, <1>4, <1>13, <3>2 DEF EmptyInv
  <2>10. ChainInv(w, ch)'
    <3>1. \A h \in Cells : w[h] = h => o[h] = h /\ h \notin Lost
      BY Sizes
    <3>2. ASSUME NEW h \in Cells, h \notin Lost, NEW c \in Cells
          PROVE  w[c] = h <=> o[c] = h
      <4>1. h # NULL
        BY Sizes
      <4> QED BY <3>2, <4>1
    <3> HIDE DEF w
    <3>3. ASSUME NEW h \in Cells, w[h] = h
          PROVE  /\ Len(ch[h]) > 0 /\ ch[h][1] = h /\ Distinct(ch[h])
                 /\ \A c \in Cells : w[c] = h <=> In(c, ch[h])
                 /\ (task'.at = "freed" /\ h = task'.cur) \/ Linked(p_son_list', ch[h])
      <4>1. o[h] = h /\ h \notin Lost
        BY <3>1, <3>3
      <4>2. /\ Len(ch[h]) > 0 /\ ch[h][1] = h /\ Distinct(ch[h])
            /\ \A c \in Cells : o[c] = h <=> In(c, ch[h])
            /\ (task.at = "freed" /\ h = task.cur) \/ Linked(p_son_list, ch[h])
        BY <1>2, <4>1 DEF ChainInv
      <4>3. \A c \in Cells : w[c] = h <=> In(c, ch[h])
        BY <3>2, <4>1, <4>2
      <4> QED BY <1>1, <1>15, <4>2, <4>3
    <3>4. ch \in [Cells -> Seq(Cells)]
      BY <1>2 DEF ChainInv
    <3> QED BY <3>3, <3>4 DEF ChainInv
  <2>11. UnlinkInv(N)' /\ HeldInv(w)' /\ FreedInv(E, ch)'
    <3>1. w[M[k]] = M[k]
      BY <1>7, <1>14, <2>4
    <3> HIDE DEF w
    <3> QED BY <1>5, <1>7, <1>15, <3>1 DEF UnlinkInv, HeldInv, FreedInv
  <2>12. \A c \in Cells : w[c] \in {o[c], NULL}
    OBVIOUS
  <2> HIDE DEF w
  <2>13. ListInv(w, E, N, ch)'
    BY <1>11, <2>7, <2>8, <2>9, <2>10, <2>11 DEF ListInv
  <2>14. \A i \in 2..Len(N) :
           IF i < k THEN N[i] = M[i] ELSE i + 1 \in 2..Len(M) /\ N[i] = M[i + 1]
    <3>1. Len(N) = k - 1
      BY <1>4, CutFacts DEF N
    <3>2. \A i \in 1..(k - 1) : N[i] = M[i]
      BY <1>4, CutFacts DEF N
    <3>3. \A i \in 2..(k - 1) : i \in 1..(k - 1) /\ i < k
      BY <1>4
    <3> QED BY <3>1, <3>2, <3>3
  <2>15. Unlinked(o, M, w, N)
    BY <1>3, <2>12, <2>14 DEF Unlinked
  <2> QED BY <2>13, <2>15
<1> QED BY <1>16, <1>17

(* free_son_cache strings the cells of the message in front of the empty    *)
(* list ...                                                                *)
LEMMA FreeLinkKeeps ==
    ASSUME NEW o, NEW E, NEW M, NEW ch, ListInv(o, E, M, ch), FreeLink
    PROVE  ListInv(o, E, M, ch)'
<1> DEFINE h == task.cur
           A == ch[h]
<1>1. /\ LinkTypes /\ OwnInv(o) /\ EmptyInv(o, E) /\ NormInv(o, M) /\ ChainInv(o, ch)
      /\ HeldInv(o)
  BY DEF ListInv
<1>2. /\ task.at = "free" /\ leaked' = leaked
      /\ task' = [task EXCEPT !.at = "freed", !.last = NULL, !.next = NULL]
  BY DEF FreeLink, StillWhole
<1>3. /\ task'.at = "freed" /\ task'.cur = h /\ task' \in Tasks
  BY <1>1, <1>2 DEF LinkTypes, Tasks
<1>4. Held = h /\ Held' = h
  BY <1>2, <1>3 DEF Held
<1>5. h \in Cells /\ o[h] = h
  BY <1>1, <1>2 DEF HeldInv
<1>6. /\ A \in Seq(Cells) /\ Len(A) > 0 /\ Distinct(A) /\ A[1] = h
      /\ \A c : In(c, A) <=> c \in Cells /\ o[c] = h
  <2>1. A \in Seq(Cells) /\ Len(A) > 0 /\ Distinct(A) /\ A[1] = h
    BY <1>1, <1>5 DEF ChainInv
  <2>2. \A c : In(c, A) <=> c \in Cells /\ o[c] = h
    BY <1>5, MembersAre
  <2> QED BY <2>1, <2>2
<1>7. Chain(h) = A
  BY <1>1, <1>2, <1>5, ChainIs
<1>8. /\ p_head_list \in [Heads -> Cells \cup {NULL}] /\ p_son_list \in [Cells -> Cells \cup {NULL}]
  BY <1>1 DEF LinkTypes
<1> HIDE DEF A
<1>9. Last(A) = A[Len(A)]
  BY DEF Last
<1>10. \A c : c \in Range(A) <=> In(c, A)
  BY <1>6, RangeIsIn
<1>11. /\ IsList(p_head_list, EMPT, E) /\ IsList(p_head_list, NORM, M) /\ Len(E) > 2
       /\ p_head_list[EMPT] = E[2] /\ E[2] \in Cells
  <2>1. IsList(p_head_list, EMPT, E) /\ IsList(p_head_list, NORM, M) /\ Len(E) > 2
    BY <1>1 DEF EmptyInv, NormInv
  <2>2. /\ Len(E) \in Nat /\ E[1] = EMPT
        /\ \A i \in 2..Len(E) : E[i] \in Cells
        /\ \A i \in 1..(Len(E) - 1) : p_head_list[E[i]] = E[i + 1]
    BY <2>1, ListFacts
  <2>3. 1 \in 1..(Len(E) - 1) /\ 2 \in 2..Len(E) /\ 1 + 1 = 2
    BY <2>1, <2>2
  <2> QED BY <2>1, <2>2, <2>3
<1>12. \A i \in 1..Len(A) :
         /\ A[i] \in Cells /\ In(A[i], A) /\ i \in DOMAIN A
         /\ (CHOOSE j \in DOMAIN A : A[j] = A[i]) = i
  <2>1. \A i \in 1..Len(A) : A[i] \in Cells /\ In(A[i], A) /\ i \in DOMAIN A
    BY <1>6 DEF In
  <2>2. \A i, j \in DOMAIN A : A[j] = A[i] => j = i
    BY <1>6 DEF Distinct
  <2> QED BY <2>1, <2>2
<1>13. p_head_list' = [c \in Heads |->
           IF ~In(c, A) THEN p_head_list[c]
           ELSE IF c = A[Len(A)] THEN E[2]
           ELSE A[(CHOOSE j \in DOMAIN A : A[j] = c) + 1]]
  <2>1. p_head_list' = [c \in DOMAIN p_head_list |->
            IF c \notin Range(Chain(h)) THEN p_head_list[c]
            ELSE IF c = Last(Chain(h)) THEN p_head_list[EMPT]
            ELSE Chain(h)[(CHOOSE j \in DOMAIN Chain(h) : Chain(h)[j] = c) + 1]]
    BY DEF FreeLink, StillWhole
  <2>2. p_head_list' = [c \in DOMAIN p_head_list |->
            IF c \notin Range(A) THEN p_head_list[c]
            ELSE IF c = Last(A) THEN p_head_list[EMPT]
            ELSE A[(CHOOSE j \in DOMAIN A : A[j] = c) + 1]]
    BY <1>7, <2>1
  <2>3. DOMAIN p_head_list = Heads
    BY <1>8
  <2> QED BY <1>9, <1>10, <1>11, <2>2, <2>3
<1>14. /\ \A c \in Heads : ~In(c, A) => p_head_list'[c] = p_head_list[c]
       /\ \A i \in 1..(Len(A) - 1) : p_head_list'[A[i]] = A[i + 1]
       /\ p_head_list'[A[Len(A)]] = E[2]
  <2>1. \A c \in Heads : ~In(c, A) => p_head_list'[c] = p_head_list[c]
    BY <1>13
  <2>2. ASSUME NEW i \in 1..(Len(A) - 1) PROVE p_head_list'[A[i]] = A[i + 1]
    <3>1. i \in 1..Len(A) /\ Len(A) \in 1..Len(A) /\ i # Len(A)
      BY <1>6
    <3>2. A[i] # A[Len(A)]
      BY <1>6, <3>1 DEF Distinct
    <3>3. A[i] \in Heads /\ In(A[i], A) /\ (CHOOSE j \in DOMAIN A : A[j] = A[i]) = i
      BY <1>12, <3>1 DEF Heads
    <3> QED BY <1>13, <3>2, <3>3
  <2>3. p_head_list'[A[Len(A)]] = E[2]
    <3>1. Len(A) \in 1..Len(A)
      BY <1>6
    <3>2. A[Len(A)] \in Heads /\ In(A[Len(A)], A)
      BY <1>12, <3>1 DEF Heads
    <3> QED BY <1>13, <3>2
  <2> QED BY <2>1, <2>2, <2>3
<1>15. /\ p_son_list' \in [Cells -> Cells \cup {NULL}]
       /\ \A c \in Cells : ~In(c, A) => p_son_list'[c] = p_son_list[c]
  <2>1. p_son_list' = [c \in Cells |-> IF c \in Range(A) THEN NULL ELSE p_son_list[c]]
    BY <1>7 DEF FreeLink, StillWhole
  <2> QED BY <1>8, <1>10, <2>1
<1>16. LinkTypes'
  <2>1. ASSUME NEW c \in Heads PROVE p_head_list'[c] \in Cells \cup {NULL}
    <3>1. CASE ~In(c, A)
      BY <1>8, <1>14, <3>1
    <3>2. CASE In(c, A)
      <4>1. PICK i \in 1..Len(A) : A[i] = c
        BY <3>2 DEF In
      <4>2. CASE i = Len(A)
        BY <1>11, <1>14, <4>1, <4>2
      <4>3. CASE i # Len(A)
        <5>1. i \in 1..(Len(A) - 1) /\ i + 1 \in 1..Len(A)
          BY <1>6, <4>3
        <5> QED BY <1>12, <1>14, <4>1, <5>1
      <4> QED BY <4>2, <4>3
    <3> QED BY <3>1, <3>2
  <2>2. p_head_list' = [c \in Heads |-> p_head_list'[c]]
    BY <1>13
  <2> QED BY <1>3, <1>15, <2>1, <2>2 DEF LinkTypes
<1>17. \A c \in Heads : In(c, E) => p_head_list'[c] = p_head_list[c]
  <2>1. h # EMPT /\ EMPT \notin Cells
    BY <1>5, Sizes
  <2> QED BY <1>6, <1>14, <2>1, MembersAre
<1>18. \A c \in Heads : In(c, M) => p_head_list'[c] = p_head_list[c]
  <2>1. NORM \notin Cells
    BY Sizes
  <2> QED BY <1>4, <1>6, <1>14, <2>1, MembersAre
<1>19. IsList(p_head_list', EMPT, E) /\ IsList(p_head_list', NORM, M)
  BY <1>11, <1>17, <1>18, ListKept
<1>20. OwnInv(o)' /\ EmptyInv(o, E)'
  BY <1>1, <1>2, <1>11, <1>19 DEF OwnInv, EmptyInv
<1>21. NormInv(o, M)'
  BY <1>1, <1>4, <1>19 DEF NormInv
<1>22. ChainInv(o, ch)'
  <2>1. ASSUME NEW g \in Cells, o[g] = g, g # h
        PROVE  Linked(p_son_list', ch[g])
    <3>1. Linked(p_son_list, ch[g]) /\ ch[g] \in Seq(Cells) /\ Len(ch[g]) > 0
      BY <1>1, <1>2, <2>1 DEF ChainInv
    <3>2. \A c : In(c, ch[g]) => c \in Cells /\ o[c] = g
      BY <2>1, MembersAre
    <3>3. \A i \in 1..Len(ch[g]) : In(ch[g][i], ch[g])
      BY DEF In
    <3>4. \A i \in 1..Len(ch[g]) : p_son_list'[ch[g][i]] = p_son_list[ch[g][i]]
      BY <1>6, <1>15, <2>1, <3>2, <3>3
    <3> DEFINE r == ch[g]
               new == p_son_list'
    <3>5. /\ r \in Seq(Cells) /\ Len(r) > 0 /\ Linked(p_son_list, r)
          /\ \A i \in 1..Len(r) : new[r[i]] = p_son_list[r[i]]
      BY <3>1, <3>4
    <3> HIDE DEF r, new
    <3>6. Linked(new, r)
      BY <3>5, LinkedKept
    <3> QED BY <3>6 DEF r, new
  <2> QED BY <1>1, <1>3, <2>1 DEF ChainInv
<1>23. UnlinkInv(M)' /\ HeldInv(o)'
  BY <1>3, <1>5 DEF UnlinkInv, HeldInv
<1>24. FreedInv(E, ch)'
  BY <1>3, <1>14 DEF FreedInv, A
<1> QED BY <1>16, <1>20, <1>21, <1>22, <1>23, <1>24 DEF ListInv

(* ... and makes its first cell the first of the list. *)
LEMMA FreeHeadKeeps ==
    ASSUME NEW o, NEW E, NEW M, NEW ch, ListInv(o, E, M, ch), FreeHead
    PROVE  \E w, N : /\ ListInv(w, N, M, ch)'
                     /\ \A c \in Cells : w[c] = IF o[c] = task.cur THEN EMPT ELSE o[c]
<1>0. PICK h : h = task.cur
  OBVIOUS
<1> DEFINE J == Joined(ch[h], From(E, 2))
           S == [i \in 1..1 |-> EMPT]
           N == Joined(S, J)
           w == [c \in Cells |-> IF o[c] = h THEN EMPT ELSE o[c]]
<1>1. /\ LinkTypes /\ OwnInv(o) /\ EmptyInv(o, E) /\ NormInv(o, M) /\ ChainInv(o, ch)
      /\ HeldInv(o)
  BY DEF ListInv
<1>2. /\ task.at = "freed" /\ leaked' = leaked /\ p_son_list' = p_son_list
      /\ p_head_list' = [p_head_list EXCEPT ![EMPT] = h]
      /\ task' = Idle
  BY <1>0 DEF FreeHead
<1>3. /\ task'.at = "idle" /\ task' \in Tasks
  BY <1>2 DEF Idle, Tasks
<1>4. Held = h /\ Held' = NULL
  BY <1>0, <1>2, <1>3 DEF Held
<1>5. h \in Cells /\ o[h] = h /\ h # EMPT /\ h # NULL
  BY <1>0, <1>1, <1>2, Sizes DEF HeldInv
<1>6. /\ IsList(p_head_list, h, J) /\ \A c : In(c, J) <=> c \in Cells /\ o[c] \in {h, EMPT}
  BY <1>0, <1>2, FreedList
<1>7. /\ p_head_list'[EMPT] = h
      /\ \A c \in Heads : c # EMPT => p_head_list'[c] = p_head_list[c]
      /\ p_head_list' \in [Heads -> Cells \cup {NULL}]
  BY <1>1, <1>2, <1>5 DEF LinkTypes, Heads
<1> HIDE DEF J
<1>8. IsList(p_head_list', h, J)
  <2>1. \A c \in Heads : In(c, J) => p_head_list'[c] = p_head_list[c]
    BY <1>6, <1>7, Sizes
  <2> QED BY <1>6, <2>1, ListKept
<1>9. S \in Seq(Heads) /\ Len(S) = 1 /\ S[1] = EMPT /\ Distinct(S) /\ \A c : In(c, S) <=> c = EMPT
  <2>1. S \in Seq(Heads) /\ Len(S) = 1 /\ S[1] = EMPT
    BY DEF Heads
  <2> HIDE DEF S
  <2> QED BY <2>1 DEF Distinct, In
<1> HIDE DEF S
<1>10. IsList(p_head_list', EMPT, N)
  <2>1. \A d \in Heads : ~(In(d, S) /\ In(d, J))
    BY <1>6, <1>9, Sizes
  <2>2. /\ \A i \in 2..Len(S) : S[i] \in Cells
        /\ \A i \in 1..(Len(S) - 1) : p_head_list'[S[i]] = S[i + 1]
        /\ p_head_list'[S[Len(S)]] = h
    BY <1>7, <1>9
  <2>3. Len(S) > 0
    BY <1>9
  <2>4. IsList(p_head_list', S[1], Joined(S, J))
    BY <1>5, <1>8, <1>9, <2>1, <2>2, <2>3, ListJoined
  <2> QED BY <1>9, <2>4
<1>11. (\A d : In(d, N) <=> d = EMPT \/ In(d, J)) /\ Len(N) = 1 + Len(J)
  <2>1. J \in Seq(Heads)
    BY <1>6, ListFacts
  <2>2. \A d : In(d, N) <=> In(d, S) \/ In(d, J)
    BY <1>9, <2>1, JoinedFacts
  <2>3. Len(N) = Len(S) + Len(J)
    <3>1. S \in Seq(Heads)
      BY <1>9
    <3> QED BY <2>1, <3>1, JoinedFacts
  <2> HIDE DEF N
  <2> QED BY <1>9, <2>2, <2>3
<1>12. Len(J) \in Nat /\ Len(J) > 1
  <2>1. ch[h] \in Seq(Cells) /\ Len(ch[h]) > 0
    BY <1>1, <1>5 DEF ChainInv
  <2>2. ch[h] \in Seq(Heads)
    <3> DEFINE A == ch[h]
    <3>1. A \in Seq(Cells)
      BY <2>1
    <3> HIDE DEF A
    <3>2. A \in Seq(Heads)
      BY <3>1 DEF Heads
    <3> QED BY <3>2 DEF A
  <2>3. E \in Seq(Heads) /\ Len(E) \in Nat /\ Len(E) > 2
    BY <1>1, ListFacts DEF EmptyInv
  <2>4. From(E, 2) \in Seq(Heads) /\ Len(From(E, 2)) = Len(E) + 1 - 2
    <3>1. 2 \in 1..Len(E)
      BY <2>3
    <3> QED BY <2>3, <3>1, FromFacts
  <2>5. Len(J) = Len(ch[h]) + Len(From(E, 2))
    <3> DEFINE A == ch[h]
               B == From(E, 2)
    <3>1. A \in Seq(Heads) /\ B \in Seq(Heads) /\ J = Joined(A, B)
      BY <2>2, <2>4 DEF J
    <3> HIDE DEF A, B
    <3>2. Len(Joined(A, B)) = Len(A) + Len(B)
      BY <3>1, JoinedFacts
    <3> QED BY <3>1, <3>2 DEF A, B
  <2>6. Len(ch[h]) \in Nat
    BY <2>1
  <2> QED BY <2>1, <2>3, <2>4, <2>5, <2>6
<1> HIDE DEF N
<1>13. EmptyInv(w, N)'
  <2>1. \A c \in Cells : w[c] = EMPT <=> In(c, N)
    BY <1>5, <1>6, <1>11, Sizes
  <2>2. Len(N) > 2
    BY <1>11, <1>12
  <2> HIDE DEF w
  <2> QED BY <1>10, <2>1, <2>2 DEF EmptyInv
<1>14. OwnInv(w)'
  <2>1. /\ o \in [Cells -> Cells \cup {EMPT, NULL}]
        /\ \A c \in Cells : o[c] \in Cells => o[o[c]] = o[c]
        /\ leaked = {c \in Cells : o[c] = NULL}
    BY <1>1 DEF OwnInv
  <2>2. w \in [Cells -> Cells \cup {EMPT, NULL}]
    BY <2>1
  <2>3. ASSUME NEW c \in Cells, w[c] \in Cells PROVE w[w[c]] = w[c]
    <3>1. w[c] = o[c] /\ o[c] # h /\ o[c] \in Cells
      BY <2>3, Sizes
    <3> QED BY <2>1, <3>1
  <2>4. leaked' = {c \in Cells : w[c] = NULL}
    <3>1. \A c \in Cells : w[c] = NULL <=> o[c] = NULL
      BY <1>5, Sizes
    <3> HIDE DEF w
    <3> QED BY <1>2, <2>1, <3>1
  <2> HIDE DEF w
  <2> QED BY <2>2, <2>3, <2>4 DEF OwnInv
<1>15. NormInv(w, M)'
  <2>1. IsList(p_head_list, NORM, M)
    BY <1>1 DEF NormInv
  <2>2. \A c \in Heads : In(c, M) => p_head_list'[c] = p_head_list[c]
    BY <1>7, Sizes, MembersAre
  <2>3. IsList(p_head_list', NORM, M)
    BY <2>1, <2>2, ListKept
  <2>4. ASSUME NEW c \in Cells PROVE (w[c] = c /\ c # Held') <=> In(c, M)
    <3>1. In(c, M) <=> o[c] = c /\ c # h
      BY <1>1, <1>4 DEF NormInv
    <3>2. c # NULL /\ c # EMPT
      BY Sizes
    <3> QED BY <1>4, <1>5, <3>1, <3>2
  <2> HIDE DEF w
  <2> QED BY <2>3, <2>4 DEF NormInv
<1>16. ChainInv(w, ch)'
  <2>1. \A g \in Cells : w[g] = g => o[g] = g /\ g # h
    BY <1>5, Sizes
  <2>2. ASSUME NEW g \in Cells, g # h, NEW c \in Cells PROVE w[c] = g <=> o[c] = g
    <3>1. g # EMPT
      BY Sizes
    <3> QED BY <2>2, <3>1
  <2> HIDE DEF w
  <2>3. ASSUME NEW g \in Cells, w[g] = g
        PROVE  /\ Len(ch[g]) > 0 /\ ch[g][1] = g /\ Distinct(ch[g])
               /\ Linked(p_son_list', ch[g])
               /\ \A c \in Cells : w[c] = g <=> In(c, ch[g])
    <3>1. o[g] = g /\ g # h
      BY <2>1, <2>3
    <3>2. /\ Len(ch[g]) > 0 /\ ch[g][1] = g /\ Distinct(ch[g])
          /\ Linked(p_son_list, ch[g])
          /\ \A c \in Cells : o[c] = g <=> In(c, ch[g])
      BY <1>0, <1>1, <3>1 DEF ChainInv
    <3> QED BY <1>2, <2>2, <3>1, <3>2
  <2>4. ch \in [Cells -> Seq(Cells)]
    BY <1>1 DEF ChainInv
  <2> QED BY <2>3, <2>4 DEF ChainInv
<1>17. LinkTypes'
  BY <1>1, <1>2, <1>3, <1>7 DEF LinkTypes
<1>18. UnlinkInv(M)' /\ HeldInv(w)' /\ FreedInv(N, ch)'
  BY <1>3 DEF UnlinkInv, HeldInv, FreedInv
<1>19. \A c \in Cells : w[c] = IF o[c] = task.cur THEN EMPT ELSE o[c]
  BY <1>0
<1> HIDE DEF w, N
<1>20. ListInv(w, N, M, ch)'
  BY <1>13, <1>14, <1>15, <1>16, <1>17, <1>18 DEF ListInv
<1> QED BY <1>19, <1>20

(* The message a frame belongs to is one of the list's. *)
LEMMA UnfinishedIs ==
    ASSUME NEW o, NEW M, NormInv(o, M), NEW s, Unfinished(s) # NULL
    PROVE  /\ Unfinished(s) \in Cells
           /\ o[Unfinished(s)] = Unfinished(s) /\ Unfinished(s) # Held
<1> DEFINE open == {i \in DOMAIN Messages :
                      Messages[i] \notin whole /\ frame[Messages[i]].src = s}
<1>1. open # {} /\ Unfinished(s) = Messages[Min(open)]
  BY DEF Unfinished
<1>2. open \in SUBSET Nat
  BY MessagePlace
<1>3. Min(open) \in open
  <2> HIDE DEF open
  <2> QED BY <1>1, <1>2, MinIn
<1>4. Min(open) \in DOMAIN Messages
  BY <1>3
<1> HIDE DEF open
<1>5. Unfinished(s) \in Range(Messages)
  BY <1>1, <1>4 DEF Range
<1>6. Unfinished(s) \in Cells
  <2>1. IsList(p_head_list, NORM, M)
    BY DEF NormInv
  <2>2. \A i \in 2..Len(M) : M[i] \in Cells
    BY <2>1, ListFacts
  <2> QED BY <1>1, <1>4, <2>2, MessagePlace
<1> QED BY <1>5, <1>6, MessagesAre

(* What get_empty_cache finds. *)
LEMMA EmptyCellIs ==
    ASSUME NEW o, NEW E, EmptyInv(o, E), EmptyCell # NULL
    PROVE  /\ Len(E) > 3 /\ 4 \in 2..Len(E) /\ SecondEmpty = E[3] /\ EmptyCell = E[4]
           /\ p_head_list[EMPT] = E[2]
           /\ E[3] \in Cells /\ E[4] \in Cells /\ E[3] # E[4]
           /\ In(E[3], E) /\ In(E[4], E)
<1>1. /\ Len(E) \in Nat /\ Len(E) > 2 /\ E[1] = EMPT
      /\ \A i \in 1..Len(E) : In(E[i], E)
      /\ \A i \in 2..Len(E) : E[i] \in Cells
      /\ \A i, j \in 1..Len(E) : E[i] = E[j] => i = j
      /\ \A i \in 1..(Len(E) - 1) : p_head_list[E[i]] = E[i + 1]
      /\ p_head_list[E[Len(E)]] = NULL
  <2>1. IsList(p_head_list, EMPT, E) /\ Len(E) > 2
    BY DEF EmptyInv
  <2> QED BY <2>1, ListFacts
<1>2. p_head_list[EMPT] = E[2] /\ p_head_list[E[2]] = E[3]
  <2>1. 1 \in 1..(Len(E) - 1) /\ 2 \in 1..(Len(E) - 1) /\ 1 + 1 = 2 /\ 2 + 1 = 3
    BY <1>1
  <2> QED BY <1>1, <2>1
<1>3. SecondEmpty = E[3] /\ EmptyCell = p_head_list[E[3]]
  BY <1>2 DEF SecondEmpty, EmptyCell
<1>4. Len(E) # 3
  BY <1>1, <1>3
<1>n. Len(E) \in Nat /\ Len(E) > 3
  <2>1. Len(E) \in Nat /\ Len(E) > 2
    BY <1>1
  <2>2. PICK n \in Nat : n = Len(E)
    BY <2>1
  <2>3. n > 2 /\ n # 3
    BY <1>4, <2>1, <2>2
  <2>4. n > 3
    BY <2>3
  <2> QED BY <2>2, <2>4
<1>5. 3 \in 1..(Len(E) - 1) /\ 3 \in 2..Len(E) /\ 4 \in 2..Len(E) /\ 3 \in 1..Len(E) /\ 4 \in 1..Len(E)
  BY <1>n
<1>6. 3 + 1 = 4 /\ 3 # 4
  OBVIOUS
<1> QED BY <1>1, <1>2, <1>3, <1>n, <1>5, <1>6

LEMMA ListLonger ==
    ASSUME NEW T \in Seq(Heads), NEW d \in Heads
    PROVE  /\ Len(Appended(T, d)) = Len(T) + 1
           /\ \A i \in 1..Len(T) : Appended(T, d)[i] = T[i]
           /\ \A e : In(e, Appended(T, d)) <=> In(e, T) \/ e = d
<1>1. Len(Appended(T, d)) = Len(T) + 1
  BY AppendedFacts
<1>2. \A i \in 1..Len(T) : Appended(T, d)[i] = T[i]
  BY AppendedFacts
<1>3. \A e : In(e, Appended(T, d)) <=> In(e, T) \/ e = d
  BY AppendedFacts
<1> QED BY <1>1, <1>2, <1>3

(* The empty list without the cell the interrupt takes. *)
LEMMA FourthTaken ==
    ASSUME NEW links, NEW E, IsList(links, EMPT, E), Len(E) > 3, NEW new,
           new[E[3]] = links[E[4]],
           \A d \in Heads : In(d, E) /\ d # E[3] /\ d # E[4] => new[d] = links[d]
    PROVE  /\ IsList(new, EMPT, Without(E, 4))
           /\ Len(Without(E, 4)) = Len(E) - 1
           /\ Without(E, 4)[2] = E[2]
           /\ \A d : In(d, Without(E, 4)) <=> In(d, E) /\ d # E[4]
<1>1. E \in Seq(Heads) /\ Len(E) \in Nat /\ Distinct(E)
  <2>1. Distinct(E)
    BY DEF IsList
  <2> QED BY <2>1, ListFacts
<1>2. 4 \in 2..Len(E) /\ 4 \in 1..Len(E) /\ 2 \in 1..(Len(E) - 1)
  BY <1>1
<1>3. IsList(new, EMPT, Without(E, 4))
  <2>1. PICK k \in 2..Len(E) : k = 4
    BY <1>2
  <2>2. k - 1 = 3
    BY <2>1
  <2>3. new[E[k - 1]] = links[E[k]]
    BY <2>1, <2>2
  <2>4. \A d \in Heads : In(d, E) /\ d # E[k - 1] /\ d # E[k] => new[d] = links[d]
    BY <2>1, <2>2
  <2>5. IsList(new, EMPT, Without(E, k))
    BY <2>3, <2>4, ListWithout
  <2> QED BY <2>1, <2>5
<1>4. Len(Without(E, 4)) = Len(E) - 1
  BY <1>1, <1>2, WithoutFacts
<1>5. \A i \in 1..(Len(E) - 1) : Without(E, 4)[i] = IF i < 4 THEN E[i] ELSE E[i + 1]
  BY <1>1, <1>2, WithoutFacts
<1>6. \A d : In(d, Without(E, 4)) <=> In(d, E) /\ d # E[4]
  BY <1>1, <1>2, WithoutFacts
<1>7. Without(E, 4)[2] = E[2]
  BY <1>2, <1>5
<1> QED BY <1>3, <1>4, <1>6, <1>7

(* A frame that finds a cell: it starts a message behind the others, or is *)
(* put at the end of one.                                                  *)
CellStarts(c) ==
    /\ p_head_list' = [Taken(c) EXCEPT
                         ![IF Messages = << >> THEN NORM ELSE Last(Messages)] = c]
    /\ p_son_list' = [p_son_list EXCEPT ![c] = NULL]
CellAdds(c, h) ==
    /\ p_head_list' = Taken(c)
    /\ p_son_list' = [p_son_list EXCEPT ![Last(Chain(h))] = c, ![c] = NULL]

LEMMA ReceiveStarts ==
    ASSUME NEW o, NEW E, NEW M, NEW ch, ListInv(o, E, M, ch), NEW c, c = EmptyCell,
           c # NULL, UNCHANGED <<task, leaked>>, CellStarts(c)
    PROVE  \E w, N, L, wch :
             /\ ListInv(w, N, L, wch)'
             /\ w[c] = c /\ \A d \in Cells : d # c => w[d] = o[d]
             /\ Len(L) = Len(M) + 1 /\ L[Len(M) + 1] = c
             /\ \A i \in 1..Len(M) : L[i] = M[i]
             /\ Len(wch[c]) = 1 /\ wch[c][1] = c
             /\ \A d \in Cells : d # c => wch[d] = ch[d]
<1> USE DEF CellStarts
<1> DEFINE end == IF Messages = << >> THEN NORM ELSE Last(Messages)
<1>1. /\ LinkTypes /\ OwnInv(o) /\ EmptyInv(o, E) /\ NormInv(o, M) /\ ChainInv(o, ch)
      /\ UnlinkInv(M) /\ HeldInv(o) /\ FreedInv(E, ch)
  BY DEF ListInv
<1>2. /\ Len(E) > 3 /\ 4 \in 2..Len(E) /\ SecondEmpty = E[3] /\ c = E[4]
      /\ E[3] \in Cells /\ E[4] \in Cells /\ E[3] # E[4]
      /\ In(E[3], E) /\ In(E[4], E)
  BY <1>1, EmptyCellIs
<1>3. /\ IsList(p_head_list, EMPT, E) /\ IsList(p_head_list, NORM, M)
      /\ E \in Seq(Heads) /\ Len(E) \in Nat /\ Distinct(E)
      /\ M \in Seq(Heads) /\ Len(M) \in Nat /\ Len(M) > 0 /\ M[1] = NORM
      /\ (\A i \in 2..Len(M) : M[i] \in Cells)
      /\ (\A i \in 1..Len(M) : M[i] \in Heads /\ In(M[i], M))
      /\ p_head_list[M[Len(M)]] = NULL
  <2>1. IsList(p_head_list, EMPT, E) /\ IsList(p_head_list, NORM, M)
    BY <1>1 DEF EmptyInv, NormInv
  <2>2. Distinct(E)
    BY <2>1 DEF IsList
  <2> QED BY <2>1, <2>2, ListFacts
<1>4. /\ p_head_list \in [Heads -> Cells \cup {NULL}] /\ p_son_list \in [Cells -> Cells \cup {NULL}]
      /\ task \in Tasks
      /\ o \in [Cells -> Cells \cup {EMPT, NULL}] /\ ch \in [Cells -> Seq(Cells)]
      /\ \A d \in Cells : o[d] \in Cells => o[o[d]] = o[d]
      /\ leaked = {d \in Cells : o[d] = NULL}
  BY <1>1 DEF LinkTypes, OwnInv, ChainInv
<1>5. end = M[Len(M)]
  <2>1. /\ Messages = [i \in 1..(Len(M) - 1) |-> M[i + 1]] /\ Len(Messages) = Len(M) - 1
    BY <1>1, MessagesAre
  <2>2. CASE Len(M) = 1
    <3>1. Messages = << >>
      BY <2>1, <2>2
    <3> QED BY <1>3, <2>2, <3>1
  <2>3. CASE Len(M) # 1
    <3>0. Len(M) \in Nat /\ Len(M) > 1
      <4>1. Len(M) \in Nat /\ Len(M) > 0
        BY <1>3
      <4> QED BY <2>3, <4>1
    <3>1. Len(M) - 1 \in 1..(Len(M) - 1) /\ (Len(M) - 1) + 1 = Len(M)
      BY <3>0
    <3>2. Messages # << >>
      <4>1. Len(Messages) # 0
        BY <2>1, <3>0
      <4> QED BY <4>1
    <3>3. Last(Messages) = Messages[Len(M) - 1]
      BY <2>1 DEF Last
    <3>4. Messages[Len(M) - 1] = M[Len(M)]
      BY <2>1, <3>1
    <3> QED BY <3>2, <3>3, <3>4
  <2> QED BY <2>2, <2>3
<1>6. /\ o[c] = EMPT /\ c \in Cells /\ c # EMPT /\ c # NULL /\ c # NORM
      /\ o[E[3]] = EMPT
  BY <1>1, <1>2, Sizes DEF EmptyInv
<1>7. \A d : In(d, M) => ~In(d, E)
  <2>1. NORM # EMPT /\ NORM \notin Cells /\ EMPT \notin Cells
    BY Sizes
  <2> QED BY <2>1, MembersAre
<1>8. end \in Heads /\ In(end, M) /\ end # c /\ end # E[3]
  <2>1. Len(M) \in 1..Len(M)
    BY <1>3
  <2> QED BY <1>2, <1>3, <1>5, <1>7, <2>1
<1> HIDE DEF end
<1>9. /\ p_head_list'[E[3]] = p_head_list[c] /\ p_head_list'[c] = NULL /\ p_head_list'[end] = c
      /\ \A d \in Heads : d # E[3] /\ d # c /\ d # end => p_head_list'[d] = p_head_list[d]
      /\ p_head_list' \in [Heads -> Cells \cup {NULL}]
  <2>1. p_head_list' = [[p_head_list EXCEPT ![E[3]] = p_head_list[c], ![c] = NULL] EXCEPT ![end] = c]
    BY <1>2 DEF Taken, end
  <2>2. E[3] \in Heads /\ c \in Heads
    BY <1>2 DEF Heads
  <2>3. PICK x, y \in Heads : x = E[3] /\ y = end /\ x # c /\ y # c /\ x # y
    BY <1>2, <1>8, <2>2
  <2>4. /\ p_head_list' = [[p_head_list EXCEPT ![x] = p_head_list[c], ![c] = NULL] EXCEPT ![y] = c]
        /\ p_head_list[c] \in Cells \cup {NULL} /\ c \in Cells
    BY <1>2, <1>4, <2>1, <2>2, <2>3
  <2>5. p_head_list'[x] = p_head_list[c] /\ p_head_list'[c] = NULL /\ p_head_list'[y] = c
    BY <1>4, <2>2, <2>3, <2>4
  <2>6. \A d \in Heads : d # x /\ d # c /\ d # y => p_head_list'[d] = p_head_list[d]
    BY <1>4, <2>3, <2>4
  <2>7. p_head_list' \in [Heads -> Cells \cup {NULL}]
    BY <1>4, <2>4
  <2> QED BY <2>3, <2>5, <2>6, <2>7
<1>10. /\ p_son_list' \in [Cells -> Cells \cup {NULL}] /\ p_son_list'[c] = NULL
       /\ \A d \in Cells : d # c => p_son_list'[d] = p_son_list[d]
  BY <1>4, <1>6
<1>11. LinkTypes'
  BY <1>4, <1>9, <1>10 DEF LinkTypes
<1> DEFINE N == Without(E, 4)
           L == Appended(M, c)
           C == [i \in 1..1 |-> c]
           w == [o EXCEPT ![c] = c]
           wch == [ch EXCEPT ![c] = C]
<1>12. /\ C \in Seq(Cells) /\ Len(C) = 1 /\ C[1] = c /\ \A d : In(d, C) <=> d = c
  <2>1. C \in Seq(Cells) /\ Len(C) = 1 /\ C[1] = c
    BY <1>6
  <2> HIDE DEF C
  <2> QED BY <2>1 DEF In
<1> HIDE DEF C
<1>13. /\ w[c] = c /\ \A d \in Cells : d # c => w[d] = o[d]
       /\ w \in [Cells -> Cells \cup {EMPT, NULL}]
       /\ wch[c] = C /\ \A d \in Cells : d # c => wch[d] = ch[d]
       /\ wch \in [Cells -> Seq(Cells)]
  BY <1>4, <1>6, <1>12
<1> HIDE DEF w, wch
<1>14. /\ IsList(p_head_list', EMPT, N) /\ Len(N) = Len(E) - 1 /\ N[2] = E[2]
       /\ \A d : In(d, N) <=> In(d, E) /\ d # c
  <2>1. p_head_list'[E[3]] = p_head_list[E[4]]
    BY <1>2, <1>9
  <2>2. \A d \in Heads : In(d, E) /\ d # E[3] /\ d # E[4] => p_head_list'[d] = p_head_list[d]
    BY <1>2, <1>7, <1>8, <1>9
  <2>3. IsList(p_head_list, EMPT, E) /\ Len(E) > 3
    BY <1>2, <1>3
  <2> DEFINE new == p_head_list'
  <2>4. /\ new[E[3]] = p_head_list[E[4]]
        /\ \A d \in Heads : In(d, E) /\ d # E[3] /\ d # E[4] => new[d] = p_head_list[d]
    BY <2>1, <2>2
  <2> HIDE DEF new, N
  <2>5. /\ IsList(new, EMPT, Without(E, 4)) /\ Len(Without(E, 4)) = Len(E) - 1
        /\ Without(E, 4)[2] = E[2]
        /\ \A d : In(d, Without(E, 4)) <=> In(d, E) /\ d # E[4]
    BY <2>3, <2>4, FourthTaken
  <2> QED BY <1>2, <2>5 DEF new, N
<1>15. /\ IsList(p_head_list', NORM, L) /\ Len(L) = Len(M) + 1
       /\ \A i \in 1..Len(M) : L[i] = M[i]
       /\ \A d : In(d, L) <=> In(d, M) \/ d = c
  <2>1. p_head_list'[M[Len(M)]] = c /\ p_head_list'[c] = NULL
    BY <1>5, <1>9
  <2>2. \A d \in Heads : In(d, M) /\ d # M[Len(M)] => p_head_list'[d] = p_head_list[d]
    BY <1>2, <1>5, <1>7, <1>9
  <2>3. ~In(c, M) /\ c \in Cells /\ c \in Heads
    BY <1>2, <1>7 DEF Heads
  <2>4. IsList(p_head_list', NORM, L)
    <3>1. IsList(p_head_list, NORM, M)
      BY <1>3
    <3> DEFINE new == p_head_list'
    <3>2. new[M[Len(M)]] = c /\ new[c] = NULL
      BY <2>1
    <3>3. \A d \in Heads : In(d, M) /\ d # M[Len(M)] => new[d] = p_head_list[d]
      BY <2>2
    <3> HIDE DEF new
    <3>4. IsList(new, NORM, Appended(M, c))
      BY <2>3, <3>1, <3>2, <3>3, ListAppended
    <3> QED BY <3>4 DEF new
  <2>5. /\ Len(L) = Len(M) + 1 /\ \A i \in 1..Len(M) : L[i] = M[i]
        /\ \A d : In(d, L) <=> In(d, M) \/ d = c
    <3>1. M \in Seq(Heads) /\ c \in Heads
      BY <1>3, <2>3
    <3> HIDE DEF L
    <3>2. L = Appended(M, c)
      BY DEF L
    <3> QED BY <3>1, <3>2, ListLonger
  <2> QED BY <2>4, <2>5
<1> HIDE DEF N, L
<1>16. Held' = Held /\ Held # c
  <2>1. Held' = Held
    BY DEF Held
  <2>2. Held # c
    BY <1>1, <1>6 DEF Held, HeldInv
  <2> QED BY <2>1, <2>2
<1>17. EmptyInv(w, N)'
  <2>1. \A d \in Cells : w[d] = EMPT <=> In(d, N)
    BY <1>1, <1>6, <1>13, <1>14 DEF EmptyInv
  <2>2. Len(N) > 2
    BY <1>2, <1>3, <1>14
  <2> QED BY <1>14, <2>1, <2>2 DEF EmptyInv
<1>18. OwnInv(w)'
  <2>1. ASSUME NEW d \in Cells, w[d] \in Cells PROVE w[w[d]] = w[d]
    <3>1. CASE d = c
      BY <1>13, <3>1
    <3>2. CASE d # c
      <4>1. w[d] = o[d] /\ o[o[d]] = o[d]
        BY <1>4, <1>13, <2>1, <3>2
      <4>2. o[d] # c
        BY <1>6, <4>1
      <4> QED BY <1>13, <2>1, <4>1, <4>2
    <3> QED BY <3>1, <3>2
  <2>2. \A d \in Cells : w[d] = NULL <=> o[d] = NULL
    BY <1>6, <1>13, Sizes
  <2>3. leaked' = {d \in Cells : w[d] = NULL}
    BY <1>4, <2>2
  <2> QED BY <1>13, <2>1, <2>3 DEF OwnInv
<1>19. NormInv(w, L)'
  <2>1. ASSUME NEW d \in Cells PROVE (w[d] = d /\ d # Held') <=> In(d, L)
    <3>1. CASE d = c
      BY <1>13, <1>15, <1>16, <3>1
    <3>2. CASE d # c
      BY <1>1, <1>13, <1>15, <1>16, <3>2 DEF NormInv
    <3> QED BY <3>1, <3>2
  <2> QED BY <1>15, <2>1 DEF NormInv
<1>20. ChainInv(w, wch)'
  <2>1. ASSUME NEW h \in Cells, w[h] = h
        PROVE  /\ Len(wch[h]) > 0 /\ wch[h][1] = h /\ Distinct(wch[h])
               /\ (task'.at = "freed" /\ h = task'.cur) \/ Linked(p_son_list', wch[h])
               /\ \A d \in Cells : w[d] = h <=> In(d, wch[h])
    <3>1. CASE h = c
      <4>1. Distinct(C)
        BY <1>12 DEF Distinct
      <4>2. Linked(p_son_list', C)
        BY <1>10, <1>12 DEF Linked
      <4>3. \A d \in Cells : w[d] = c <=> d = c
        <5>1. \A d \in Cells : o[d] # c
          BY <1>4, <1>6
        <5> QED BY <1>13, <5>1
      <4>4. wch[h] = C /\ \A d \in Cells : w[d] = h <=> In(d, C)
        BY <1>12, <1>13, <3>1, <4>3
      <4>5. Len(C) > 0 /\ C[1] = h
        BY <1>12, <3>1
      <4> QED BY <4>1, <4>2, <4>4, <4>5
    <3>2. CASE h # c
      <4>1. o[h] = h /\ wch[h] = ch[h]
        BY <1>13, <2>1, <3>2
      <4>2. /\ Len(ch[h]) > 0 /\ ch[h][1] = h /\ Distinct(ch[h]) /\ ch[h] \in Seq(Cells)
            /\ (task.at = "freed" /\ h = task.cur) \/ Linked(p_son_list, ch[h])
            /\ \A d \in Cells : o[d] = h <=> In(d, ch[h])
        BY <1>1, <4>1 DEF ChainInv
      <4>0. ~In(c, ch[h])
        BY <1>6, <4>2, Sizes
      <4>3. \A d \in Cells : w[d] = h <=> In(d, ch[h])
        BY <1>13, <3>2, <4>0, <4>2
      <4>4. ASSUME Linked(p_son_list, ch[h]) PROVE Linked(p_son_list', ch[h])
        <5>1. \A i \in 1..Len(ch[h]) : ch[h][i] \in Cells /\ In(ch[h][i], ch[h])
          BY <4>2 DEF In
        <5>2. \A i \in 1..Len(ch[h]) : p_son_list'[ch[h][i]] = p_son_list[ch[h][i]]
          BY <1>10, <4>0, <5>1
        <5> DEFINE r == ch[h]
                   new == p_son_list'
        <5>3. /\ r \in Seq(Cells) /\ Len(r) > 0 /\ Linked(p_son_list, r)
              /\ \A i \in 1..Len(r) : new[r[i]] = p_son_list[r[i]]
          BY <4>2, <4>4, <5>2
        <5> HIDE DEF r, new
        <5>4. Linked(new, r)
          BY <5>3, LinkedKept
        <5> QED BY <5>4 DEF r, new
      <4> QED BY <4>1, <4>2, <4>3, <4>4
    <3> QED BY <3>1, <3>2
  <2> QED BY <1>13, <2>1 DEF ChainInv
<1>21. HeldInv(w)'
  <2>1. task.at \in {"copy", "free", "freed"} => task.cur \in Cells /\ w[task.cur] = task.cur
    BY <1>1, <1>6, <1>13 DEF HeldInv
  <2> QED BY <2>1 DEF HeldInv
<1>22. UnlinkInv(L)'
  <2> SUFFICES ASSUME task.at \in {"unlink_read", "unlink_timeout"}
               PROVE  /\ task.next \in {NULL, p_head_list'[task.cur]}
                      /\ \E k \in 2..Len(L) : task.cur = L[k] /\ task.last = L[k - 1]
    BY DEF UnlinkInv
  <2>1. PICK k \in 2..Len(M) : task.cur = M[k] /\ task.last = M[k - 1]
    BY <1>1 DEF UnlinkInv
  <2>2. k \in 2..Len(L) /\ k \in 1..Len(M) /\ k - 1 \in 1..Len(M)
    BY <1>3, <1>15
  <2>3. task.cur = L[k] /\ task.last = L[k - 1]
    BY <1>15, <2>1, <2>2
  <2>4. task.next \in {NULL, p_head_list[task.cur]}
    BY <1>1 DEF UnlinkInv
  <2>5. ASSUME task.cur = end PROVE task.next \in {NULL, p_head_list'[task.cur]}
    <3>1. p_head_list[task.cur] = NULL
      BY <1>3, <1>5, <2>5
    <3> QED BY <2>4, <3>1
  <2>6. ASSUME task.cur # end PROVE task.next \in {NULL, p_head_list'[task.cur]}
    <3>1. p_head_list'[task.cur] = p_head_list[task.cur]
      <4>1. M[k] \in Heads /\ In(M[k], M)
        BY <1>3, <2>2
      <4>2. M[k] # E[3] /\ M[k] # c
        BY <1>2, <1>7, <4>1
      <4> QED BY <1>9, <2>1, <2>6, <4>1, <4>2
    <3> QED BY <2>4, <3>1
  <2>7. task.next \in {NULL, p_head_list'[task.cur]}
    BY <2>5, <2>6
  <2> QED BY <2>2, <2>3, <2>7
<1>23. FreedInv(N, wch)'
  <2> SUFFICES ASSUME task.at = "freed"
               PROVE  /\ \A i \in 1..(Len(wch[task.cur]) - 1) :
                           p_head_list'[wch[task.cur][i]] = wch[task.cur][i + 1]
                      /\ p_head_list'[wch[task.cur][Len(wch[task.cur])]] = N[2]
    BY DEF FreedInv
  <2>1. task.cur \in Cells /\ o[task.cur] = task.cur /\ Held = task.cur
    BY <1>1 DEF HeldInv, Held
  <2> DEFINE t == ch[task.cur]
  <2>2. wch[task.cur] = t
    BY <1>13, <1>16, <2>1
  <2>3. /\ t \in Seq(Cells) /\ Len(t) > 0
        /\ \A d : In(d, t) => d \in Cells /\ o[d] = task.cur
    <3>1. t \in Seq(Cells) /\ Len(t) > 0
      BY <1>1, <2>1 DEF ChainInv
    <3>2. \A d : In(d, t) => d \in Cells /\ o[d] = task.cur
      BY <2>1, MembersAre
    <3> QED BY <3>1, <3>2
  <2>4. /\ \A i \in 1..(Len(t) - 1) : p_head_list[t[i]] = t[i + 1]
        /\ p_head_list[t[Len(t)]] = E[2]
    BY <1>1 DEF FreedInv
  <2> HIDE DEF t
  <2>5. \A i \in 1..Len(t) : t[i] \in Cells /\ o[t[i]] = task.cur
    BY <2>3 DEF In
  <2>6. end # NORM => o[end] = end /\ end # task.cur
    BY <1>8, <2>1, MembersAre
  <2>7. \A i \in 1..Len(t) : t[i] # E[3] /\ t[i] # c /\ t[i] # end
    <3>1. task.cur # EMPT
      BY <2>1, Sizes
    <3>2. NORM \notin Cells
      BY Sizes
    <3> QED BY <1>6, <2>5, <2>6, <3>1, <3>2
  <2>8. \A i \in 1..Len(t) : p_head_list'[t[i]] = p_head_list[t[i]]
    BY <1>9, <2>5, <2>7 DEF Heads
  <2>9. Len(t) \in Nat
    BY <2>3
  <2>10. (\A i \in 1..(Len(t) - 1) : i \in 1..Len(t)) /\ Len(t) \in 1..Len(t)
    BY <2>3, <2>9
  <2> QED BY <1>14, <2>2, <2>4, <2>8, <2>10
<1>24. ListInv(w, N, L, wch)'
  BY <1>11, <1>17, <1>18, <1>19, <1>20, <1>21, <1>22, <1>23 DEF ListInv
<1>25. L[Len(M) + 1] = c
  BY <1>3, <1>6, AppendedFacts DEF L, Heads
<1>26. Len(wch[c]) = 1 /\ wch[c][1] = c /\ \A d \in Cells : d # c => wch[d] = ch[d]
  BY <1>12, <1>13
<1>27. Len(L) = Len(M) + 1 /\ \A i \in 1..Len(M) : L[i] = M[i]
  BY <1>15
<1>28. w[c] = c /\ \A d \in Cells : d # c => w[d] = o[d]
  BY <1>13
<1> QED BY <1>24, <1>25, <1>26, <1>27, <1>28

LEMMA ReceiveAdds ==
    ASSUME NEW o, NEW E, NEW M, NEW ch, ListInv(o, E, M, ch), NEW c, c = EmptyCell,
           c # NULL, UNCHANGED <<task, leaked>>,
           NEW h \in Cells, o[h] = h, h # Held,
           CellAdds(c, h)
    PROVE  \E w, N, wch :
             /\ ListInv(w, N, M, wch)'
             /\ w[c] = h /\ \A d \in Cells : d # c => w[d] = o[d]
             /\ Len(wch[h]) = Len(ch[h]) + 1 /\ wch[h][Len(ch[h]) + 1] = c
             /\ \A i \in 1..Len(ch[h]) : wch[h][i] = ch[h][i]
             /\ \A d \in Cells : d # h => wch[d] = ch[d]
<1> USE DEF CellAdds
<1>1. /\ LinkTypes /\ OwnInv(o) /\ EmptyInv(o, E) /\ NormInv(o, M) /\ ChainInv(o, ch)
      /\ UnlinkInv(M) /\ HeldInv(o) /\ FreedInv(E, ch)
  BY DEF ListInv
<1>2. /\ Len(E) > 3 /\ 4 \in 2..Len(E) /\ SecondEmpty = E[3] /\ c = E[4]
      /\ E[3] \in Cells /\ E[4] \in Cells /\ E[3] # E[4]
      /\ In(E[3], E) /\ In(E[4], E)
  BY <1>1, EmptyCellIs
<1>3. /\ IsList(p_head_list, EMPT, E) /\ IsList(p_head_list, NORM, M)
      /\ E \in Seq(Heads) /\ Len(E) \in Nat /\ Distinct(E)
      /\ Len(M) \in Nat /\ (\A i \in 1..Len(M) : M[i] \in Heads /\ In(M[i], M))
  <2>1. IsList(p_head_list, EMPT, E) /\ IsList(p_head_list, NORM, M)
    BY <1>1 DEF EmptyInv, NormInv
  <2>2. Distinct(E)
    BY <2>1 DEF IsList
  <2> QED BY <2>1, <2>2, ListFacts
<1>4. /\ p_head_list \in [Heads -> Cells \cup {NULL}] /\ p_son_list \in [Cells -> Cells \cup {NULL}]
      /\ task \in Tasks
      /\ o \in [Cells -> Cells \cup {EMPT, NULL}] /\ ch \in [Cells -> Seq(Cells)]
      /\ \A d \in Cells : o[d] \in Cells => o[o[d]] = o[d]
      /\ leaked = {d \in Cells : o[d] = NULL}
  BY <1>1 DEF LinkTypes, OwnInv, ChainInv
<1> DEFINE t == ch[h]
           D == Appended(t, c)
<1>5. Chain(h) = t /\ IsList(p_son_list, h, t)
  <2>1. ~(task.at = "freed" /\ h = task.cur)
    BY DEF Held
  <2> QED BY <1>1, <2>1, ChainIs
<1>6. /\ o[c] = EMPT /\ c \in Cells /\ c # EMPT /\ c # NULL /\ c # NORM
      /\ o[E[3]] = EMPT
  BY <1>1, <1>2, Sizes DEF EmptyInv
<1>7. \A d : In(d, M) => ~In(d, E)
  <2>1. NORM # EMPT /\ NORM \notin Cells /\ EMPT \notin Cells
    BY Sizes
  <2> QED BY <2>1, MembersAre
<1>8. /\ t \in Seq(Cells) /\ Len(t) \in Nat /\ Len(t) > 0 /\ t[1] = h
      /\ t[Len(t)] \in Cells /\ o[t[Len(t)]] = h /\ Last(t) = t[Len(t)]
      /\ \A d \in Cells : o[d] = h <=> In(d, t)
  <2>1. t \in Seq(Cells) /\ Len(t) > 0 /\ t[1] = h /\ \A d \in Cells : o[d] = h <=> In(d, t)
    BY <1>1 DEF ChainInv
  <2> HIDE DEF t
  <2>2. Len(t) \in Nat /\ Len(t) \in 1..Len(t)
    BY <2>1
  <2>3. t[Len(t)] \in Cells /\ In(t[Len(t)], t)
    BY <2>1, <2>2 DEF In
  <2>4. Last(t) = t[Len(t)]
    BY DEF Last
  <2> QED BY <2>1, <2>2, <2>3, <2>4
<1> HIDE DEF t, D
<1>9. /\ p_head_list'[E[3]] = p_head_list[c] /\ p_head_list'[c] = NULL
      /\ \A d \in Heads : d # E[3] /\ d # c => p_head_list'[d] = p_head_list[d]
      /\ p_head_list' \in [Heads -> Cells \cup {NULL}]
  <2>1. p_head_list' = [p_head_list EXCEPT ![E[3]] = p_head_list[c], ![c] = NULL]
    BY <1>2 DEF Taken
  <2>2. E[3] \in Heads /\ c \in Heads
    BY <1>2 DEF Heads
  <2> QED BY <1>2, <1>4, <2>1, <2>2
<1>c. h # c /\ t[Len(t)] # c /\ ~In(c, t)
  <2>1. h # EMPT
    BY Sizes
  <2> QED BY <1>6, <1>8, <2>1
<1>10. /\ p_son_list' \in [Cells -> Cells \cup {NULL}] /\ p_son_list'[c] = NULL
       /\ p_son_list'[t[Len(t)]] = c
       /\ \A d \in Cells : d # c /\ d # t[Len(t)] => p_son_list'[d] = p_son_list[d]
  <2>1. p_son_list' = [p_son_list EXCEPT ![t[Len(t)]] = c, ![c] = NULL]
    BY <1>5, <1>8
  <2>2. PICK e \in Cells : e = t[Len(t)] /\ e # c
    BY <1>8, <1>c
  <2>3. p_son_list' = [p_son_list EXCEPT ![e] = c, ![c] = NULL]
    BY <2>1, <2>2
  <2>4. /\ p_son_list' \in [Cells -> Cells \cup {NULL}] /\ p_son_list'[c] = NULL
        /\ p_son_list'[e] = c
        /\ \A d \in Cells : d # c /\ d # e => p_son_list'[d] = p_son_list[d]
    <3>1. p_son_list \in [Cells -> Cells \cup {NULL}] /\ c \in Cells
      BY <1>4, <1>6
    <3>2. p_son_list' \in [Cells -> Cells \cup {NULL}]
      BY <2>3, <3>1
    <3>3. p_son_list'[c] = NULL /\ p_son_list'[e] = c
      BY <2>2, <2>3, <3>1
    <3>4. \A d \in Cells : d # c /\ d # e => p_son_list'[d] = p_son_list[d]
      BY <2>2, <2>3, <3>1
    <3> QED BY <3>2, <3>3, <3>4
  <2> QED BY <2>2, <2>4
<1>11. LinkTypes'
  BY <1>4, <1>9, <1>10 DEF LinkTypes
<1> DEFINE N == Without(E, 4)
           w == [o EXCEPT ![c] = h]
           wch == [ch EXCEPT ![h] = D]
<1>12. /\ D \in Seq(Cells) /\ Len(D) = Len(t) + 1 /\ (\A i \in 1..Len(t) : D[i] = t[i])
       /\ \A d : In(d, D) <=> In(d, t) \/ d = c
  <2>1. D \in Seq(Cells) /\ Len(D) = Len(t) + 1
    BY <1>6, <1>8, AppendedFacts DEF D
  <2>2. \A i \in 1..Len(t) : D[i] = t[i]
    BY <1>6, <1>8, AppendedFacts DEF D
  <2>3. \A d : In(d, D) <=> In(d, t) \/ d = c
    BY <1>6, <1>8, AppendedFacts DEF D
  <2> QED BY <2>1, <2>2, <2>3
<1>13. /\ w[c] = h /\ \A d \in Cells : d # c => w[d] = o[d]
       /\ w \in [Cells -> Cells \cup {EMPT, NULL}]
       /\ wch[h] = D /\ \A d \in Cells : d # h => wch[d] = ch[d]
       /\ wch \in [Cells -> Seq(Cells)]
  BY <1>4, <1>6, <1>12
<1> HIDE DEF w, wch
<1>14. /\ IsList(p_head_list', EMPT, N) /\ Len(N) = Len(E) - 1 /\ N[2] = E[2]
       /\ \A d : In(d, N) <=> In(d, E) /\ d # c
  <2>1. p_head_list'[E[3]] = p_head_list[E[4]]
    BY <1>2, <1>9
  <2>2. \A d \in Heads : In(d, E) /\ d # E[3] /\ d # E[4] => p_head_list'[d] = p_head_list[d]
    BY <1>2, <1>9
  <2>3. IsList(p_head_list, EMPT, E) /\ Len(E) > 3
    BY <1>2, <1>3
  <2> DEFINE new == p_head_list'
  <2>4. /\ new[E[3]] = p_head_list[E[4]]
        /\ \A d \in Heads : In(d, E) /\ d # E[3] /\ d # E[4] => new[d] = p_head_list[d]
    BY <2>1, <2>2
  <2> HIDE DEF new, N
  <2>5. /\ IsList(new, EMPT, Without(E, 4)) /\ Len(Without(E, 4)) = Len(E) - 1
        /\ Without(E, 4)[2] = E[2]
        /\ \A d : In(d, Without(E, 4)) <=> In(d, E) /\ d # E[4]
    BY <2>3, <2>4, FourthTaken
  <2> QED BY <1>2, <2>5 DEF new, N
<1>15. IsList(p_head_list', NORM, M)
  <2>1. IsList(p_head_list, NORM, M)
    BY <1>3
  <2>2. \A d \in Heads : In(d, M) => p_head_list'[d] = p_head_list[d]
    BY <1>2, <1>7, <1>9
  <2> DEFINE new == p_head_list'
  <2>3. \A d \in Heads : In(d, M) => new[d] = p_head_list[d]
    BY <2>2
  <2> HIDE DEF new
  <2>4. IsList(new, NORM, M)
    BY <2>1, <2>3, ListKept
  <2> QED BY <2>4 DEF new
<1>e. IsList(p_son_list', h, D)
  <2> DEFINE new == p_son_list'
  <2>1. new[t[Len(t)]] = c /\ new[c] = NULL
    BY <1>10
  <2>2. \A d \in Heads : In(d, t) /\ d # t[Len(t)] => new[d] = p_son_list[d]
    <3>1. \A d : In(d, t) => d \in Cells
      BY <1>8 DEF In
    <3> QED BY <1>10, <1>c, <3>1
  <2> HIDE DEF new
  <2>3. IsList(p_son_list, h, t) /\ c \in Cells /\ ~In(c, t)
    BY <1>5, <1>6, <1>c
  <2>4. IsList(new, h, D)
    BY <2>1, <2>2, <2>3, ListAppended DEF D
  <2> QED BY <2>4 DEF new
<1> HIDE DEF N
<1>16. Held' = Held /\ Held # c
  <2>1. Held' = Held
    BY DEF Held
  <2>2. Held # c
    BY <1>1, <1>6 DEF Held, HeldInv
  <2> QED BY <2>1, <2>2
<1>17. EmptyInv(w, N)'
  <2>1. ASSUME NEW d \in Cells PROVE w[d] = EMPT <=> In(d, N)
    <3>1. CASE d = c
      BY <1>13, <1>14, <3>1, Sizes
    <3>2. CASE d # c
      <4>1. o[d] = EMPT <=> In(d, E)
        BY <1>1 DEF EmptyInv
      <4> QED BY <1>13, <1>14, <3>2, <4>1
    <3> QED BY <3>1, <3>2
  <2>2. Len(N) > 2
    BY <1>2, <1>3, <1>14
  <2> QED BY <1>14, <2>1, <2>2 DEF EmptyInv
<1>18. OwnInv(w)'
  <2>1. ASSUME NEW d \in Cells, w[d] \in Cells PROVE w[w[d]] = w[d]
    <3>1. CASE d = c
      BY <1>13, <1>c, <3>1
    <3>2. CASE d # c
      <4>1. w[d] = o[d] /\ o[o[d]] = o[d]
        BY <1>4, <1>13, <2>1, <3>2
      <4>2. o[d] # c
        BY <1>6, <4>1
      <4> QED BY <1>13, <2>1, <4>1, <4>2
    <3> QED BY <3>1, <3>2
  <2>2. \A d \in Cells : w[d] = NULL <=> o[d] = NULL
    BY <1>6, <1>13, Sizes
  <2>3. leaked' = {d \in Cells : w[d] = NULL}
    BY <1>4, <2>2
  <2> QED BY <1>13, <2>1, <2>3 DEF OwnInv
<1>19. NormInv(w, M)'
  <2>1. ASSUME NEW d \in Cells PROVE (w[d] = d /\ d # Held') <=> In(d, M)
    <3>1. CASE d = c
      BY <1>2, <1>7, <1>13, <1>c, <3>1
    <3>2. CASE d # c
      BY <1>1, <1>13, <1>16, <3>2 DEF NormInv
    <3> QED BY <3>1, <3>2
  <2> QED BY <1>15, <2>1 DEF NormInv
<1>20. ChainInv(w, wch)'
  <2>1. ASSUME NEW g \in Cells, w[g] = g
        PROVE  /\ Len(wch[g]) > 0 /\ wch[g][1] = g /\ Distinct(wch[g])
               /\ (task'.at = "freed" /\ g = task'.cur) \/ Linked(p_son_list', wch[g])
               /\ \A d \in Cells : w[d] = g <=> In(d, wch[g])
    <3>1. CASE g = h
      <4>1. Distinct(D) /\ Linked(p_son_list', D) /\ Len(D) > 0 /\ D[1] = h
        BY <1>e DEF IsList
      <4>2. \A d \in Cells : w[d] = h <=> In(d, D)
        BY <1>8, <1>12, <1>13
      <4> QED BY <1>13, <3>1, <4>1, <4>2
    <3>2. CASE g # h
      <4>0. g # c
        BY <1>13, <1>c, <2>1
      <4>1. o[g] = g /\ wch[g] = ch[g]
        BY <1>13, <2>1, <3>2, <4>0
      <4>2. /\ Len(ch[g]) > 0 /\ ch[g][1] = g /\ Distinct(ch[g]) /\ ch[g] \in Seq(Cells)
            /\ (task.at = "freed" /\ g = task.cur) \/ Linked(p_son_list, ch[g])
            /\ \A d \in Cells : o[d] = g <=> In(d, ch[g])
        BY <1>1, <4>1 DEF ChainInv
      <4>3. ~In(c, ch[g]) /\ ~In(t[Len(t)], ch[g])
        BY <1>6, <1>8, <3>2, <4>2, Sizes
      <4>4. \A d \in Cells : w[d] = g <=> In(d, ch[g])
        BY <1>13, <3>2, <4>2, <4>3
      <4>5. ASSUME Linked(p_son_list, ch[g]) PROVE Linked(p_son_list', ch[g])
        <5>1. \A i \in 1..Len(ch[g]) : ch[g][i] \in Cells /\ In(ch[g][i], ch[g])
          BY <4>2 DEF In
        <5>2. \A i \in 1..Len(ch[g]) : p_son_list'[ch[g][i]] = p_son_list[ch[g][i]]
          BY <1>10, <4>3, <5>1
        <5> DEFINE r == ch[g]
                   new == p_son_list'
        <5>3. /\ r \in Seq(Cells) /\ Len(r) > 0 /\ Linked(p_son_list, r)
              /\ \A i \in 1..Len(r) : new[r[i]] = p_son_list[r[i]]
          BY <4>2, <4>5, <5>2
        <5> HIDE DEF r, new
        <5>4. Linked(new, r)
          BY <5>3, LinkedKept
        <5> QED BY <5>4 DEF r, new
      <4> QED BY <4>1, <4>2, <4>4, <4>5
    <3> QED BY <3>1, <3>2
  <2> QED BY <1>13, <2>1 DEF ChainInv
<1>21. HeldInv(w)'
  <2>1. task.at \in {"copy", "free", "freed"} => task.cur \in Cells /\ w[task.cur] = task.cur
    BY <1>1, <1>6, <1>13 DEF HeldInv
  <2> QED BY <2>1 DEF HeldInv
<1>22. UnlinkInv(M)'
  <2> SUFFICES ASSUME task.at \in {"unlink_read", "unlink_timeout"}
               PROVE  /\ task.next \in {NULL, p_head_list'[task.cur]}
                      /\ \E k \in 2..Len(M) : task.cur = M[k] /\ task.last = M[k - 1]
    BY DEF UnlinkInv
  <2>1. PICK k \in 2..Len(M) : task.cur = M[k] /\ task.last = M[k - 1]
    BY <1>1 DEF UnlinkInv
  <2>2. k \in 1..Len(M)
    BY <1>3
  <2>3. task.next \in {NULL, p_head_list[task.cur]}
    BY <1>1 DEF UnlinkInv
  <2>4. p_head_list'[task.cur] = p_head_list[task.cur]
    <3>1. M[k] \in Heads /\ In(M[k], M)
      BY <1>3, <2>2
    <3>2. M[k] # E[3] /\ M[k] # c
      BY <1>2, <1>7, <3>1
    <3> QED BY <1>9, <2>1, <3>1, <3>2
  <2> QED BY <2>1, <2>3, <2>4
<1>23. FreedInv(N, wch)'
  <2> SUFFICES ASSUME task.at = "freed"
               PROVE  /\ \A i \in 1..(Len(wch[task.cur]) - 1) :
                           p_head_list'[wch[task.cur][i]] = wch[task.cur][i + 1]
                      /\ p_head_list'[wch[task.cur][Len(wch[task.cur])]] = N[2]
    BY DEF FreedInv
  <2>1. task.cur \in Cells /\ o[task.cur] = task.cur /\ Held = task.cur
    BY <1>1 DEF HeldInv, Held
  <2> DEFINE r == ch[task.cur]
  <2>2. wch[task.cur] = r
    BY <1>13, <2>1
  <2>3. /\ r \in Seq(Cells) /\ Len(r) > 0
        /\ \A d : In(d, r) => d \in Cells /\ o[d] = task.cur
    <3>1. r \in Seq(Cells) /\ Len(r) > 0
      BY <1>1, <2>1 DEF ChainInv
    <3>2. \A d : In(d, r) => d \in Cells /\ o[d] = task.cur
      BY <2>1, MembersAre
    <3> QED BY <3>1, <3>2
  <2>4. /\ \A i \in 1..(Len(r) - 1) : p_head_list[r[i]] = r[i + 1]
        /\ p_head_list[r[Len(r)]] = E[2]
    BY <1>1 DEF FreedInv
  <2> HIDE DEF r
  <2>5. \A i \in 1..Len(r) : r[i] \in Cells /\ o[r[i]] = task.cur
    BY <2>3 DEF In
  <2>6. \A i \in 1..Len(r) : r[i] # E[3] /\ r[i] # c
    <3>1. task.cur # EMPT
      BY <2>1, Sizes
    <3> QED BY <1>6, <2>5, <3>1
  <2>7. \A i \in 1..Len(r) : p_head_list'[r[i]] = p_head_list[r[i]]
    BY <1>9, <2>5, <2>6 DEF Heads
  <2>8. Len(r) \in Nat
    BY <2>3
  <2>9. (\A i \in 1..(Len(r) - 1) : i \in 1..Len(r)) /\ Len(r) \in 1..Len(r)
    BY <2>3, <2>8
  <2> QED BY <1>14, <2>2, <2>4, <2>7, <2>9
<1>24. ListInv(w, N, M, wch)'
  BY <1>11, <1>17, <1>18, <1>19, <1>20, <1>21, <1>22, <1>23 DEF ListInv
<1>25. D[Len(t) + 1] = c
  BY <1>6, <1>8, AppendedFacts DEF D
<1> QED BY <1>12, <1>13, <1>24, <1>25 DEF t

-----------------------------------------------------------------------------
(* The order of what is read. *)
LEMMA OwnersAre ==
    ASSUME NEW o, NEW E, NEW M, NEW ch, ListInv(o, E, M, ch)
    PROVE  /\ Len(M) \in Nat /\ \A i, j \in 1..Len(M) : M[i] = M[j] => i = j
           /\ \A i \in 2..Len(M) : M[i] \in Cells /\ o[M[i]] = M[i] /\ M[i] # Held
           /\ \A h \in Cells : o[h] = h /\ h # Held => \E i \in 2..Len(M) : M[i] = h
           /\ \A h \in Cells : o[h] = h =>
                /\ Len(ch[h]) \in Nat /\ Len(ch[h]) > 0 /\ ch[h][1] = h
                /\ \A i \in 1..Len(ch[h]) : ch[h][i] \in Cells /\ o[ch[h][i]] = h
           /\ \A c \in Cells : o[c] \in Cells => o[o[c]] = o[c]
<1>1. IsList(p_head_list, NORM, M) /\ ChainInv(o, ch) /\ OwnInv(o)
  BY DEF ListInv, NormInv
<1>l. IsList(p_head_list, NORM, M)
  BY <1>1
<1>2. /\ Len(M) \in Nat /\ M[1] = NORM
      /\ \A i, j \in 1..Len(M) : M[i] = M[j] => i = j
      /\ \A i \in 1..Len(M) : In(M[i], M)
      /\ \A i \in 2..Len(M) : M[i] \in Cells
  <2>1. Len(M) \in Nat /\ M[1] = NORM
    BY <1>l, ListFacts
  <2>2. \A i, j \in 1..Len(M) : M[i] = M[j] => i = j
    BY <1>l, ListFacts
  <2>3. \A i \in 1..Len(M) : In(M[i], M)
    BY <1>l, ListFacts
  <2>4. \A i \in 2..Len(M) : M[i] \in Cells
    BY <1>l, ListFacts
  <2> QED BY <2>1, <2>2, <2>3, <2>4
<1>3. ASSUME NEW i \in 2..Len(M) PROVE M[i] \in Cells /\ o[M[i]] = M[i] /\ M[i] # Held
  <2>1. i \in 1..Len(M)
    BY <1>2
  <2>2. M[i] # NORM
    BY <1>2, Sizes
  <2> QED BY <1>2, <2>1, <2>2, MembersAre
<1>4. ASSUME NEW h \in Cells, o[h] = h, h # Held PROVE \E i \in 2..Len(M) : M[i] = h
  <2>1. In(h, M)
    BY <1>4, MembersAre
  <2>2. PICK i \in 1..Len(M) : M[i] = h
    BY <2>1 DEF In
  <2>3. i # 1
    BY <1>2, <2>2, Sizes
  <2> QED BY <1>2, <2>2, <2>3
<1>5. ASSUME NEW h \in Cells, o[h] = h
      PROVE  /\ Len(ch[h]) \in Nat /\ Len(ch[h]) > 0 /\ ch[h][1] = h
             /\ \A i \in 1..Len(ch[h]) : ch[h][i] \in Cells /\ o[ch[h][i]] = h
  <2>1. /\ ch[h] \in Seq(Cells) /\ Len(ch[h]) > 0 /\ ch[h][1] = h
        /\ \A c \in Cells : o[c] = h <=> In(c, ch[h])
    BY <1>1, <1>5 DEF ChainInv
  <2> DEFINE t == ch[h]
  <2> HIDE DEF t
  <2>2. Len(t) \in Nat /\ \A i \in 1..Len(t) : t[i] \in Cells /\ In(t[i], t)
    BY <2>1 DEF In, t
  <2> QED BY <2>1, <2>2 DEF t
<1>6. \A c \in Cells : o[c] \in Cells => o[o[c]] = o[c]
  BY <1>1 DEF OwnInv
<1> QED BY <1>2, <1>3, <1>4, <1>5, <1>6

LEMMA ReadIsOrdered == CacheInv => ReadInOrder
<1> SUFFICES ASSUME NEW o, NEW E, NEW M, NEW ch, ListInv(o, E, M, ch), Ordered(o, M, ch),
                    task.at = "copy"
             PROVE  ReadInOrder
  BY DEF CacheInv, ReadInOrder
<1>0. PICK h : h = task.cur
  OBVIOUS
<1> DEFINE t == ch[h]
           read == [i \in DOMAIN Chain(task.cur) |-> frame[Chain(task.cur)[i]]]
<1>1. h \in Cells /\ o[h] = h /\ h \in whole /\ Unread(h)
  BY <1>0 DEF ListInv, HeldInv, Ordered, HeldOrder, Unread
<1>2. Chain(task.cur) = t /\ t \in Seq(Cells)
  <2>1. ChainInv(o, ch)
    BY DEF ListInv
  <2>2. t \in Seq(Cells)
    BY <1>1, <2>1 DEF ChainInv
  <2> QED BY <1>0, <1>1, <2>1, <2>2, ChainIs
<1>3. /\ Len(t) \in Nat /\ Len(t) > 0
      /\ \A i \in 1..Len(t) : t[i] \in Cells /\ o[t[i]] = h
  BY <1>1, OwnersAre
<1>4. \A i \in 1..Len(t) : Sender(t[i]) = Sender(h) /\ frame[t[i]] \in Pieces
  BY <1>1, <1>3 DEF Ordered, FrameInv
<1>5. \A i \in 1..Len(t) :
        /\ IsLastFrame(Number(t[i])) <=> i = Len(t)
        /\ \A j \in 1..Len(t) : i < j => Number(t[i]) < Number(t[j])
  BY <1>1 DEF Ordered, ChainOrder
<1> HIDE DEF t
<1>6. DOMAIN read = 1..Len(t) /\ Len(read) = Len(t) /\ \A i \in 1..Len(t) : read[i] = frame[t[i]]
  <2>1. DOMAIN t = 1..Len(t)
    BY <1>2
  <2>2. read = [i \in 1..Len(t) |-> frame[t[i]]]
    BY <1>2, <2>1
  <2> QED BY <1>3, <2>2
<1> HIDE DEF read
<1>7. /\ t[1] = h /\ 1 \in 1..Len(t) /\ Len(t) \in 1..Len(t)
      /\ read[1].src = Sender(h) /\ read[1].no = Number(h)
      /\ Last(read).no = Number(t[Len(t)])
  <2>1. t[1] = h
    BY <1>1, OwnersAre DEF t
  <2>2. 1 \in 1..Len(t) /\ Len(t) \in 1..Len(t)
    BY <1>3
  <2> QED BY <1>4, <1>6, <2>1, <2>2 DEF Sender, Number, Last
<1>8. ASSUME NEW i \in 1..Len(t)
      PROVE  /\ read[i].src = read[1].src
             /\ i > 1 => read[i].no > read[i - 1].no
             /\ IsLastFrame(read[i].no) <=> i = Len(read)
  <2>1. read[i].src = Sender(h) /\ read[i].no = Number(t[i])
    BY <1>4, <1>6 DEF Sender, Number
  <2>2. ASSUME i > 1 PROVE read[i].no > read[i - 1].no
    <3>1. i - 1 \in 1..Len(t) /\ i - 1 < i
      BY <1>3, <2>2
    <3>2. Number(t[i - 1]) < Number(t[i])
      BY <1>5, <3>1
    <3>3. read[i - 1].no = Number(t[i - 1])
      BY <1>6, <3>1 DEF Number
    <3> QED BY <2>1, <3>2, <3>3
  <2>3. IsLastFrame(Number(t[i])) <=> i = Len(t)
    BY <1>5
  <2>4. Len(read) = Len(t)
    BY <1>6
  <2> QED BY <1>7, <2>1, <2>2, <2>3, <2>4
<1>9. \A n \in handed[Sender(h)] :
        /\ n < Number(h) \/ n > Number(t[Len(t)])
        /\ n > Number(h) => \A m \in handed[Sender(h)] : m > Number(h) => m = n
  <2>1. Sender(h) \in Srcs /\ Number(h) \in Nat
    BY <1>4, <1>7, Sizes DEF Pieces, Sender, Number
  <2>2. \A n \in handed[Sender(h)] : n \in Nat
    BY <2>1, Sizes DEF Ordered, NumberInv
  <2>3. o[t[Len(t)]] = h /\ t[Len(t)] \in Cells
    BY <1>3, <1>7
  <2> QED BY <1>1, <2>1, <2>2, <2>3 DEF Ordered, HandedInv
<1>10. \A i \in DOMAIN read :
         /\ read[i].src = read[1].src
         /\ i > 1 => read[i].no > read[i - 1].no
         /\ IsLastFrame(read[i].no) <=> i = Len(read)
  BY <1>6, <1>8
<1>11. \A n \in handed[read[1].src] : n < read[1].no \/ n > Last(read).no
  <2>1. ASSUME NEW n \in handed[Sender(h)] PROVE n < Number(h) \/ n > Number(t[Len(t)])
    BY <1>9
  <2> QED BY <1>7, <2>1, Zenon
<1>12. \A n, m \in handed[read[1].src] : n > read[1].no /\ m > read[1].no => n = m
  <2>1. ASSUME NEW n \in handed[Sender(h)], NEW m \in handed[Sender(h)],
               n > Number(h), m > Number(h)
        PROVE  n = m
    BY <1>9, <2>1
  <2> QED BY <1>7, <2>1, Zenon
<1> QED BY <1>10, <1>11, <1>12 DEF ReadInOrder, read

(* The message a frame belongs to is not whole, and is its sender's.        *)
LEMMA UnfinishedOpen ==
    ASSUME NEW o, NEW M, NormInv(o, M), NEW s, Unfinished(s) # NULL
    PROVE  Unfinished(s) \notin whole /\ Sender(Unfinished(s)) = s
<1> DEFINE open == {i \in DOMAIN Messages :
                      Messages[i] \notin whole /\ frame[Messages[i]].src = s}
<1>1. open # {} /\ Unfinished(s) = Messages[Min(open)]
  BY DEF Unfinished
<1>2. open \in SUBSET Nat
  BY MessagePlace
<1>3. Min(open) \in open
  <2> HIDE DEF open
  <2> QED BY <1>1, <1>2, MinIn
<1> QED BY <1>1, <1>3 DEF Sender

LEMMA NoneOpen ==
    ASSUME NEW o, NEW M, NormInv(o, M), NEW s, Unfinished(s) = NULL
    PROVE  \A i \in 2..Len(M) : Sender(M[i]) = s => M[i] \in whole
<1> DEFINE open == {i \in DOMAIN Messages :
                      Messages[i] \notin whole /\ frame[Messages[i]].src = s}
<1>1. /\ IsList(p_head_list, NORM, M) /\ Len(M) \in Nat
      /\ \A i \in 2..Len(M) : M[i] \in Cells
  <2>1. IsList(p_head_list, NORM, M)
    BY DEF NormInv
  <2> QED BY <2>1, ListFacts
<1>2. \A i \in 1..(Len(M) - 1) : i \in DOMAIN Messages /\ Messages[i] = M[i + 1]
  BY MessagesAre
<1>3. open = {}
  <2> SUFFICES ASSUME open # {} PROVE FALSE
    OBVIOUS
  <2>1. Unfinished(s) = Messages[Min(open)]
    BY DEF Unfinished
  <2>2. open \in SUBSET Nat
    BY MessagePlace
  <2>3. Min(open) \in open
    <3> HIDE DEF open
    <3> QED BY <2>2, MinIn
  <2>4. Min(open) \in DOMAIN Messages
    BY <2>3
  <2> HIDE DEF open
  <2>5. Unfinished(s) \in Cells
    BY <1>1, <2>1, <2>4, MessagePlace
  <2> QED BY <2>5, Sizes
<1>4. ASSUME NEW i \in 2..Len(M), Sender(M[i]) = s PROVE M[i] \in whole
  <2>1. i - 1 \in 1..(Len(M) - 1) /\ (i - 1) + 1 = i
    BY <1>1
  <2>2. i - 1 \in DOMAIN Messages /\ Messages[i - 1] = M[i]
    BY <1>2, <2>1
  <2> QED BY <1>3, <1>4, <2>2 DEF Sender
<1> QED BY <1>4

(* The steps that bring no frame. *)
LEMMA BusMoves ==
    ASSUME NEW o, NEW M, NEW ch, Ordered(o, M, ch), NEW s \in Srcs, on_bus[s] <= MaxSent,
           on_bus' = [on_bus EXCEPT ![s] = @ + 1], UNCHANGED <<frame, whole, task, handed>>
    PROVE  Ordered(o, M, ch)'
<1>1. NumberInv
  BY DEF Ordered
<1>2. /\ on_bus' \in [Srcs -> 1..(MaxSent + 1)]
      /\ \A t \in Srcs : on_bus[t] \in Nat /\ on_bus'[t] \in Nat /\ on_bus[t] <= on_bus'[t]
      /\ \A t \in Srcs : \A n \in handed[t] : n \in Nat /\ n < on_bus[t]
  BY <1>1, Sizes DEF NumberInv
<1>3. NumberInv'
  <2>1. \A t \in Srcs : \A n \in handed[t] : n < on_bus'[t]
    BY <1>2
  <2> QED BY <1>1, <1>2, <2>1 DEF NumberInv
<1>4. FrameInv(o)'
  <2> SUFFICES ASSUME NEW c \in Cells, o[c] \in Cells, Unread(o[c])'
               PROVE  /\ frame[c] \in Pieces /\ Sender(c) = Sender(o[c])
                      /\ Number(c) < on_bus'[Sender(c)]
    BY DEF FrameInv, Sender, Number
  <2>1. Unread(o[c])
    BY DEF Unread, Held
  <2>2. /\ frame[c] \in Pieces /\ Sender(c) = Sender(o[c])
        /\ Number(c) < on_bus[Sender(c)]
    BY <2>1 DEF Ordered, FrameInv
  <2>3. Sender(c) \in Srcs /\ Number(c) \in Nat
    BY <2>2, Sizes DEF Pieces, Sender, Number
  <2> QED BY <1>2, <2>2, <2>3
<1>5. /\ HandedInv(o)' /\ ChainOrder(o, ch)' /\ ListOrder(o, M)' /\ HeldOrder(o)'
      /\ BlankInv(o)'
  BY DEF Ordered, HandedInv, ChainOrder, ListOrder, HeldOrder, BlankInv, Unread, Held,
         Sender, Number
<1>6. FoundOrder(M)'
  BY DEF Ordered, FoundOrder, Passed, Sender, Number
<1> QED BY <1>3, <1>4, <1>5, <1>6 DEF Ordered

LEMMA SameFrames ==
    ASSUME NEW o, NEW M, NEW ch, Ordered(o, M, ch), NEW w,
           \A c \in Cells : w[c] \in Cells => w[c] = o[c],
           \A c \in Cells : w[c] \in Cells /\ Unread(w[c])' => Unread(w[c]),
           \A i \in 2..Len(M) : M[i] \in Cells,
           UNCHANGED <<frame, whole, on_bus, handed>>
    PROVE  /\ NumberInv' /\ FrameInv(w)' /\ HandedInv(w)'
           /\ ChainOrder(w, ch)' /\ ListOrder(w, M)'
<1>1. NumberInv'
  BY DEF Ordered, NumberInv
<1>2. FrameInv(w)'
  BY DEF Ordered, FrameInv, Sender, Number
<1>3. ChainOrder(w, ch)'
  <2> SUFFICES ASSUME NEW h \in Cells, w[h] = h, Unread(h)', NEW i \in 1..Len(ch[h])
               PROVE  /\ IsLastFrame(Number(ch[h][i])) <=> i = Len(ch[h]) /\ h \in whole
                      /\ \A j \in 1..Len(ch[h]) :
                           i < j => Number(ch[h][i]) < Number(ch[h][j])
    BY DEF ChainOrder, Number
  <2>1. o[h] = h /\ Unread(h)
    OBVIOUS
  <2> QED BY <2>1 DEF Ordered, ChainOrder
<1>4. ListOrder(w, M)'
  <2> SUFFICES ASSUME NEW i \in 2..Len(M), NEW j \in 2..Len(M),
                      i < j, Sender(M[i]) = Sender(M[j])
               PROVE  /\ M[i] \in whole
                      /\ \A c, d \in Cells :
                           w[c] = M[i] /\ w[d] = M[j] => Number(c) < Number(d)
    BY DEF ListOrder, Sender, Number
  <2>0. M[i] \in Cells /\ M[j] \in Cells
    OBVIOUS
  <2>1. /\ M[i] \in whole
        /\ \A c, d \in Cells : o[c] = M[i] /\ o[d] = M[j] => Number(c) < Number(d)
    BY DEF Ordered, ListOrder
  <2> QED BY <2>0, <2>1
<1>5. HandedInv(w)'
  <2> SUFFICES ASSUME NEW h \in Cells, w[h] = h, Unread(h)', NEW n \in handed[Sender(h)]
               PROVE  /\ n # Number(h)
                      /\ n > Number(h) =>
                           /\ h \in whole
                           /\ \A c \in Cells : w[c] = h => n > Number(c)
                           /\ \A m \in handed[Sender(h)] : m > Number(h) => m = n
    BY DEF HandedInv, Sender, Number
  <2>1. o[h] = h /\ Unread(h) /\ \A c \in Cells : w[c] = h => o[c] = h
    OBVIOUS
  <2> QED BY <2>1 DEF Ordered, HandedInv
<1> QED BY <1>1, <1>2, <1>3, <1>4, <1>5

LEMMA MessageCells ==
    ASSUME NEW o, NEW E, NEW M, NEW ch, ListInv(o, E, M, ch)
    PROVE  \A i \in 2..Len(M) : M[i] \in Cells
BY OwnersAre

LEMMA ScanOrdered ==
    ASSUME NEW o, NEW E, NEW M, NEW ch, ListInv(o, E, M, ch), Ordered(o, M, ch), Scan
    PROVE  Ordered(o, M, ch)'
<1>1. PICK k \in 1..Len(M) :
        /\ M[k] = IF task.at = "idle" THEN NORM ELSE task.last
        /\ Passed(M, k)
        /\ \/ k = Len(M) /\ p_head_list[M[k]] = NULL
           \/ /\ k + 1 \in 2..Len(M) /\ p_head_list[M[k]] = M[k + 1]
              /\ M[k + 1] \in Cells
  BY ScanPlace DEF Ordered
<1>2. PICK cur : cur = p_head_list[M[k]]
  OBVIOUS
<1>3. /\ task.at \in {"idle", "scan"} /\ UNCHANGED <<frame, whole, on_bus, handed>>
      /\ \/ task' = Idle
         \/ /\ cur # NULL /\ cur \notin whole
            /\ task' = [at |-> "scan", last |-> cur, cur |-> NULL, next |-> NULL]
         \/ /\ cur # NULL /\ cur \in whole
            /\ task' = [at |-> "unlink_read", last |-> M[k], cur |-> cur,
                        next |-> p_head_list[cur]]
  BY <1>1, <1>2 DEF Scan, lists
<1>4. task'.at \in {"idle", "scan", "unlink_read"}
  BY <1>3 DEF Idle
<1>5. Held = NULL /\ \A c \in Cells : Unread(c)
  BY <1>3, Sizes DEF Held, Unread
<1>6. /\ NumberInv' /\ FrameInv(o)' /\ HandedInv(o)'
      /\ ChainOrder(o, ch)' /\ ListOrder(o, M)'
  <2>1. \A c \in Cells : o[c] \in Cells => Unread(o[c])
    BY <1>5
  <2> QED BY <1>3, <2>1, MessageCells, SameFrames
<1>7. FoundOrder(M)'
  <2>1. CASE task' = Idle
    BY <2>1 DEF FoundOrder, Idle
  <2>2. CASE /\ cur # NULL /\ cur \notin whole
             /\ task' = [at |-> "scan", last |-> cur, cur |-> NULL, next |-> NULL]
    <3>1. PICK l \in 2..Len(M) : l = k + 1
      BY <1>1, <1>2, <2>2
    <3>2. M[l] = cur /\ cur \in Cells /\ o[cur] = cur
      <4>1. M[l] = cur
        BY <1>1, <1>2, <2>2, <3>1
      <4> QED BY <4>1, OwnersAre
    <3>3. \A n \in handed[Sender(cur)] : n < Number(cur)
      <4>1. frame[cur] \in Pieces
        BY <1>5, <3>2 DEF Ordered, FrameInv
      <4>2. Sender(cur) \in Srcs /\ Number(cur) \in Nat
        BY <4>1, Sizes DEF Pieces, Sender, Number
      <4>3. \A n \in handed[Sender(cur)] : n \in Nat
        BY <4>2, Sizes DEF Ordered, NumberInv
      <4>4. \A n \in handed[Sender(cur)] : n # Number(cur) /\ ~(n > Number(cur))
        BY <1>5, <2>2, <3>2 DEF Ordered, HandedInv
      <4> QED BY <4>2, <4>3, <4>4
    <3>4. \A i \in 2..l : i = l \/ i \in 2..k
      BY <3>1
    <3>5. Passed(M, l)'
      BY <1>1, <1>3, <3>2, <3>3, <3>4 DEF Passed, Sender, Number
    <3> QED BY <2>2, <3>2, <3>5 DEF FoundOrder
  <2>3. CASE /\ cur # NULL /\ cur \in whole
             /\ task' = [at |-> "unlink_read", last |-> M[k], cur |-> cur,
                         next |-> p_head_list[cur]]
    <3>1. PICK l \in 2..Len(M) : l = k + 1
      BY <1>1, <1>2, <2>3
    <3>2. M[l] = cur /\ l - 1 = k
      BY <1>1, <1>2, <2>3, <3>1
    <3>3. Passed(M, l - 1)'
      BY <1>1, <1>3, <3>2 DEF Passed, Sender, Number
    <3> QED BY <1>3, <2>3, <3>2, <3>3 DEF FoundOrder
  <2> QED BY <1>3, <2>1, <2>2, <2>3
<1>8. HeldOrder(o)'
  BY <1>4 DEF HeldOrder
<1>9. BlankInv(o)'
  BY <1>3, <1>4 DEF Ordered, BlankInv
<1> QED BY <1>6, <1>7, <1>8, <1>9 DEF Ordered

LEMMA FindTimeoutOrdered ==
    ASSUME NEW o, NEW E, NEW M, NEW ch, ListInv(o, E, M, ch), Ordered(o, M, ch), FindTimeout
    PROVE  Ordered(o, M, ch)'
<1>1. NormInv(o, M) /\ \A i \in 2..Len(M) : M[i] \in Cells
  BY MessageCells DEF ListInv
<1>2. /\ task.at = "idle" /\ task'.at = "unlink_timeout"
      /\ UNCHANGED <<frame, whole, on_bus, handed>>
  BY DEF FindTimeout, lists
<1>4. /\ NumberInv' /\ FrameInv(o)' /\ HandedInv(o)'
      /\ ChainOrder(o, ch)' /\ ListOrder(o, M)'
  <2>1. Held = NULL
    BY <1>2 DEF Held
  <2>2. \A c \in Cells : o[c] \in Cells => Unread(o[c])
    BY <2>1, Sizes DEF Unread
  <2> QED BY <1>1, <1>2, <2>2, SameFrames
<1>5. FoundOrder(M)'
  BY <1>2 DEF FoundOrder
<1>6. HeldOrder(o)'
  BY <1>2 DEF HeldOrder
<1>7. BlankInv(o)'
  BY <1>2 DEF Ordered, BlankInv
<1> QED BY <1>4, <1>5, <1>6, <1>7 DEF Ordered

LEMMA UnlinkOrdered ==
    ASSUME NEW o, NEW E, NEW M, NEW ch, ListInv(o, E, M, ch), Ordered(o, M, ch), Unlink,
           NEW w, NEW N, Unlinked(o, M, w, N), Len(N) \in Nat
    PROVE  Ordered(w, N, ch)'
<1>1. /\ task.at \in {"unlink_read", "unlink_timeout"}
      /\ task' = [task EXCEPT !.at = IF @ = "unlink_read" THEN "copy" ELSE "free"]
      /\ UNCHANGED <<frame, whole, on_bus, handed>> /\ task \in Tasks
  BY DEF Unlink, ListInv, LinkTypes
<1>2. /\ task'.at \in {"copy", "free"} /\ task'.cur = task.cur
      /\ task'.at = "copy" => task.at = "unlink_read"
  BY <1>1 DEF Tasks
<1>3. Held = NULL
  BY <1>1 DEF Held
<1>4. /\ Len(M) \in Nat /\ \A i, j \in 1..Len(M) : M[i] = M[j] => i = j
      /\ \A i \in 2..Len(M) : M[i] \in Cells /\ o[M[i]] = M[i]
      /\ \A h \in Cells : o[h] = h => \E i \in 2..Len(M) : M[i] = h
      /\ \A c \in Cells : o[c] \in Cells => o[o[c]] = o[c]
  BY <1>3, OwnersAre, Sizes
<1>5. \A c \in Cells : w[c] \in {o[c], NULL}
  BY DEF Unlinked
<1>6. PICK k \in 2..Len(M) :
        /\ task.cur = M[k]
        /\ \A i \in 2..Len(N) :
             IF i < k THEN N[i] = M[i] ELSE i + 1 \in 2..Len(M) /\ N[i] = M[i + 1]
  BY DEF Unlinked
<1>7. task.at = "unlink_read" => task.cur \in whole /\ Passed(M, k - 1)
  <2> SUFFICES ASSUME task.at = "unlink_read"
               PROVE  task.cur \in whole /\ Passed(M, k - 1)
    OBVIOUS
  <2>1. PICK l \in 2..Len(M) : task.cur = M[l] /\ Passed(M, l - 1)
    BY DEF Ordered, FoundOrder
  <2>2. l = k
    <3>1. \A i \in 2..Len(M) : i \in 1..Len(M)
      BY <1>4
    <3>2. M[l] = M[k] /\ l \in 1..Len(M) /\ k \in 1..Len(M)
      BY <1>6, <2>1, <3>1
    <3> QED BY <1>4, <3>2
  <2> QED BY <2>1, <2>2 DEF Ordered, FoundOrder
<1>8. \A c \in Cells : o[c] \in Cells => Unread(o[c])
  BY <1>3, Sizes DEF Unread
<1>9. /\ NumberInv' /\ FrameInv(w)' /\ HandedInv(w)'
      /\ ChainOrder(w, ch)' /\ ListOrder(w, M)'
  <2>1. \A c \in Cells : w[c] \in Cells => w[c] = o[c]
    BY <1>5, Sizes
  <2>2. \A c \in Cells : w[c] \in Cells => Unread(w[c])
    BY <1>8, <2>1
  <2> QED BY <1>1, <1>4, <2>1, <2>2, SameFrames
<1>10. ListOrder(w, N)'
  <2>1. ASSUME NEW i \in 2..Len(N), NEW j \in 2..Len(N), i < j
        PROVE  \E p, q \in 2..Len(M) : p < q /\ N[i] = M[p] /\ N[j] = M[q]
    <3>1. PICK p : p = IF i < k THEN i ELSE i + 1
      OBVIOUS
    <3>2. PICK q : q = IF j < k THEN j ELSE j + 1
      OBVIOUS
    <3>3. p \in 2..Len(M) /\ N[i] = M[p]
      BY <1>4, <1>6, <3>1
    <3>4. q \in 2..Len(M) /\ N[j] = M[q]
      BY <1>4, <1>6, <3>2
    <3>5. p < q
      BY <1>4, <2>1, <3>1, <3>2
    <3> QED BY <3>3, <3>4, <3>5
  <2>2. ListOrder(w, M)'
    BY <1>9
  <2> SUFFICES ASSUME NEW i \in 2..Len(N), NEW j \in 2..Len(N),
                      i < j, Sender(N[i]) = Sender(N[j])
               PROVE  /\ N[i] \in whole
                      /\ \A c, d \in Cells :
                           w[c] = N[i] /\ w[d] = N[j] => Number(c) < Number(d)
    BY <1>1 DEF ListOrder, Sender, Number
  <2>3. PICK p \in 2..Len(M), q \in 2..Len(M) : p < q /\ N[i] = M[p] /\ N[j] = M[q]
    BY <2>1
  <2>4. Sender(M[p]) = Sender(M[q])
    BY <2>3
  <2>5. /\ M[p] \in whole
        /\ \A c, d \in Cells : w[c] = M[p] /\ w[d] = M[q] => Number(c) < Number(d)
    BY <1>1, <2>2, <2>3, <2>4 DEF ListOrder, Sender, Number
  <2> QED BY <2>3, <2>5
<1>11. FoundOrder(N)'
  BY <1>2 DEF FoundOrder
<1>12. HeldOrder(w)'
  <2> SUFFICES ASSUME task'.at = "copy"
               PROVE  /\ task.cur \in whole
                      /\ \A h \in Cells :
                           w[h] = h /\ h # task.cur /\ Sender(h) = Sender(task.cur) =>
                           \/ \A c, d \in Cells :
                                w[c] = task.cur /\ w[d] = h => Number(c) < Number(d)
                           \/ /\ h \in whole /\ \A n \in handed[Sender(h)] : n < Number(h)
                              /\ \A c, d \in Cells :
                                   w[c] = task.cur /\ w[d] = h => Number(d) < Number(c)
    BY <1>1, <1>2 DEF HeldOrder, Sender, Number
  <2>1. task.cur \in whole /\ Passed(M, k - 1)
    BY <1>2, <1>7
  <2>2. ASSUME NEW h \in Cells, w[h] = h, h # task.cur, Sender(h) = Sender(task.cur)
        PROVE  \/ \A c, d \in Cells :
                    w[c] = task.cur /\ w[d] = h => Number(c) < Number(d)
               \/ /\ h \in whole /\ \A n \in handed[Sender(h)] : n < Number(h)
                  /\ \A c, d \in Cells :
                       w[c] = task.cur /\ w[d] = h => Number(d) < Number(c)
    <3>1. /\ o[h] = h /\ task.cur \in Cells
          /\ \A c \in Cells : w[c] = task.cur => o[c] = task.cur
          /\ \A c \in Cells : w[c] = h => o[c] = h
      BY <1>4, <1>5, <1>6, <2>2, Sizes
    <3>2. PICK j \in 2..Len(M) : M[j] = h
      BY <1>4, <3>1
    <3>3. ListOrder(o, M)
      BY DEF Ordered
    <3>4. j < k \/ k < j
      BY <1>4, <1>6, <2>2, <3>2
    <3>5. CASE k < j
      <4>1. \A c, d \in Cells : o[c] = M[k] /\ o[d] = M[j] => Number(c) < Number(d)
        BY <1>6, <2>2, <3>2, <3>3, <3>5 DEF ListOrder
      <4> QED BY <1>6, <3>1, <3>2, <4>1
    <3>6. CASE j < k
      <4>1. /\ M[j] \in whole
            /\ \A c, d \in Cells : o[c] = M[j] /\ o[d] = M[k] => Number(c) < Number(d)
        BY <1>6, <2>2, <3>2, <3>3, <3>6 DEF ListOrder
      <4>2. j \in 2..(k - 1)
        BY <1>4, <3>6
      <4>3. \A n \in handed[Sender(h)] : n < Number(h)
        BY <2>1, <3>2, <4>2 DEF Passed
      <4> QED BY <1>6, <3>1, <3>2, <4>1, <4>3
    <3> QED BY <3>4, <3>5, <3>6
  <2> QED BY <2>1, <2>2
<1>13. BlankInv(w)'
  <2>1. task'.at # "freed"
    BY <1>2
  <2>2. \A c \in Cells : w[c] = EMPT => c \notin whole
    BY <1>5, Sizes DEF Ordered, BlankInv
  <2> QED BY <1>1, <2>1, <2>2 DEF BlankInv
<1> QED BY <1>9, <1>10, <1>11, <1>12, <1>13 DEF Ordered

LEMMA CopyOrdered ==
    ASSUME NEW o, NEW E, NEW M, NEW ch, ListInv(o, E, M, ch), Ordered(o, M, ch), Copy
    PROVE  Ordered(o, M, ch)'
<1>0. PICK h : h = task.cur
  OBVIOUS
<1>1. /\ task.at = "copy" /\ task' = [task EXCEPT !.at = "free"] /\ task \in Tasks
      /\ UNCHANGED <<frame, whole, on_bus>>
  BY DEF Copy, lists, ListInv, LinkTypes
<1>2. task'.at = "free" /\ task'.cur = h
  BY <1>0, <1>1 DEF Tasks
<1>3. Held = h /\ Held' = h
  BY <1>0, <1>1, <1>2 DEF Held
<1>4. h \in Cells /\ o[h] = h
  BY <1>0, <1>1 DEF ListInv, HeldInv
<1>5. \A g : Unread(g)
  BY <1>1 DEF Unread
<1>6. \A g : Unread(g)' => g # h
  BY <1>2, <1>3 DEF Unread
<1>7. /\ Len(ch[h]) \in Nat /\ Len(ch[h]) > 0
      /\ \A i \in 1..Len(ch[h]) : ch[h][i] \in Cells /\ o[ch[h][i]] = h
  BY <1>4, OwnersAre
<1>8. PICK r : r = ch[h][Len(ch[h])]
  OBVIOUS
<1>9. r \in Cells /\ o[r] = h
  <2>1. Len(ch[h]) \in 1..Len(ch[h])
    BY <1>7
  <2> QED BY <1>7, <1>8, <2>1
<1>10. handed' = [handed EXCEPT ![Sender(r)] = @ \union {Number(r)}]
  <2>1. Chain(h) = ch[h]
    <3>1. ChainInv(o, ch) /\ ~(task.at = "freed" /\ h = task.cur)
      BY <1>1 DEF ListInv
    <3> QED BY <1>4, <3>1, ChainIs
  <2>2. Last(Chain(h)) = r
    BY <1>8, <2>1 DEF Last
  <2> QED BY <1>0, <2>2 DEF Copy, Sender, Number
<1>11. NumberInv /\ FrameInv(o)
  BY DEF Ordered
<1>12. frame[r] \in Pieces /\ Number(r) < on_bus[Sender(r)]
  BY <1>4, <1>5, <1>9, <1>11 DEF FrameInv
<1>13. Sender(r) \in Srcs /\ Number(r) \in 1..MaxSent
  BY <1>12 DEF Pieces, Sender, Number
<1>14. NumberInv'
  <2>1. /\ handed' \in [Srcs -> SUBSET (1..MaxSent)]
        /\ \A t \in Srcs : \A n \in handed'[t] : n < on_bus[t]
    BY <1>10, <1>11, <1>12, <1>13, Sizes DEF NumberInv
  <2> QED BY <1>1, <1>11, <2>1 DEF NumberInv
<1>15. FrameInv(o)'
  <2>1. \A c \in Cells : o[c] \in Cells =>
          /\ frame[c] \in Pieces /\ Sender(c) = Sender(o[c])
          /\ Number(c) < on_bus[Sender(c)]
    BY <1>5, <1>11 DEF FrameInv
  <2> QED BY <1>1, <2>1 DEF FrameInv, Sender, Number
<1>20. HandedInv(o)'
  <2> SUFFICES ASSUME NEW g \in Cells, o[g] = g, Unread(g)', NEW n \in handed'[Sender(g)]
               PROVE  /\ n # Number(g)
                      /\ n > Number(g) =>
                           /\ g \in whole
                           /\ \A c \in Cells : o[c] = g => n > Number(c)
                           /\ \A m \in handed'[Sender(g)] : m > Number(g) => m = n
    BY <1>1 DEF HandedInv, Sender, Number
  <2>1. g # h /\ frame[g] \in Pieces /\ \A c \in Cells : o[c] = g => frame[c] \in Pieces
    BY <1>5, <1>6, <1>11 DEF FrameInv
  <2>2. /\ Sender(g) \in Srcs /\ Number(g) \in Nat /\ Number(r) \in Nat
        /\ \A m \in handed[Sender(g)] : m \in Nat
        /\ \A c \in Cells : o[c] = g => Number(c) \in Nat
    BY <1>11, <1>12, <2>1, Sizes DEF NumberInv, Pieces, Sender, Number
  <2>3. \A m \in handed[Sender(g)] :
          /\ m # Number(g)
          /\ m > Number(g) =>
               /\ g \in whole
               /\ \A c \in Cells : o[c] = g => m > Number(c)
               /\ \A l \in handed[Sender(g)] : l > Number(g) => l = m
    BY <1>5 DEF Ordered, HandedInv
  <2>4. CASE Sender(g) # Sender(r)
    <3>1. handed'[Sender(g)] = handed[Sender(g)]
      BY <1>10, <1>11, <2>2, <2>4 DEF NumberInv
    <3> QED BY <2>3, <3>1
  <2>5. CASE Sender(g) = Sender(r)
    <3>1. handed'[Sender(g)] = handed[Sender(g)] \union {Number(r)}
      BY <1>10, <1>11, <2>2, <2>5 DEF NumberInv
    <3>2. Sender(r) = Sender(h)
      BY <1>4, <1>5, <1>9, <1>11 DEF FrameInv
    <3>3. \/ \A d \in Cells : o[d] = g => Number(r) < Number(d)
          \/ /\ g \in whole /\ \A m \in handed[Sender(g)] : m < Number(g)
             /\ \A d \in Cells : o[d] = g => Number(d) < Number(r)
      BY <1>0, <1>1, <1>9, <2>1, <2>5, <3>2 DEF Ordered, HeldOrder
    <3>4. CASE \A d \in Cells : o[d] = g => Number(r) < Number(d)
      <4>1. Number(r) < Number(g)
        BY <3>4
      <4> QED BY <2>2, <2>3, <3>1, <4>1
    <3>5. CASE /\ g \in whole /\ \A m \in handed[Sender(g)] : m < Number(g)
               /\ \A d \in Cells : o[d] = g => Number(d) < Number(r)
      <4>1. \A m \in handed'[Sender(g)] : m > Number(g) => m = Number(r)
        BY <2>2, <3>1, <3>5
      <4>2. \A m \in handed'[Sender(g)] : m # Number(g)
        BY <2>2, <2>3, <3>1, <3>5
      <4>3. \A d \in Cells : o[d] = g => Number(r) > Number(d)
        BY <2>2, <3>5
      <4> QED BY <3>5, <4>1, <4>2, <4>3
    <3> QED BY <3>3, <3>4, <3>5
  <2> QED BY <2>4, <2>5
<1>16. ChainOrder(o, ch)'
  <2>1. \A g \in Cells : o[g] = g =>
          \A i \in 1..Len(ch[g]) :
            /\ IsLastFrame(Number(ch[g][i])) <=> i = Len(ch[g]) /\ g \in whole
            /\ \A j \in 1..Len(ch[g]) : i < j => Number(ch[g][i]) < Number(ch[g][j])
    BY <1>5 DEF Ordered, ChainOrder
  <2> QED BY <1>1, <2>1 DEF ChainOrder, Number
<1>17. ListOrder(o, M)'
  BY <1>1 DEF Ordered, ListOrder, Sender, Number
<1>18. FoundOrder(M)' /\ HeldOrder(o)'
  BY <1>2 DEF FoundOrder, HeldOrder
<1>19. BlankInv(o)'
  BY <1>1, <1>2 DEF Ordered, BlankInv
<1> QED BY <1>14, <1>15, <1>20, <1>16, <1>17, <1>18, <1>19 DEF Ordered

LEMMA FreeLinkOrdered ==
    ASSUME NEW o, NEW E, NEW M, NEW ch, ListInv(o, E, M, ch), Ordered(o, M, ch), FreeLink
    PROVE  Ordered(o, M, ch)'
<1>0. PICK h : h = task.cur
  OBVIOUS
<1>1. /\ task.at = "free" /\ UNCHANGED <<on_bus, handed>> /\ task \in Tasks
      /\ task' = [task EXCEPT !.at = "freed", !.last = NULL, !.next = NULL]
      /\ frame' = [c \in Cells |-> IF c \in Range(Chain(h)) THEN NULL ELSE frame[c]]
      /\ whole' = whole \ Range(Chain(h))
  BY <1>0 DEF FreeLink, StillWhole, ListInv, LinkTypes
<1>2. task'.at = "freed" /\ task'.cur = h
  BY <1>0, <1>1 DEF Tasks
<1>3. Held = h /\ Held' = h
  BY <1>0, <1>1, <1>2 DEF Held
<1>4. h \in Cells /\ o[h] = h
  BY <1>0, <1>1 DEF ListInv, HeldInv
<1>5. \A c : c \in Range(Chain(h)) <=> c \in Cells /\ o[c] = h
  <2>1. ChainInv(o, ch) /\ ~(task.at = "freed" /\ h = task.cur)
    BY <1>1 DEF ListInv
  <2> QED BY <1>4, <2>1, ChainCells
<1>6. /\ \A c \in Cells : o[c] # h => frame'[c] = frame[c] /\ (c \in whole' <=> c \in whole)
      /\ \A c \in Cells : o[c] = h => c \notin whole'
      /\ whole' \subseteq whole
      /\ frame' = [c \in Cells |-> IF o[c] = h THEN NULL ELSE frame[c]]
  BY <1>1, <1>5
<1>7. \A g : Unread(g)' => g # h /\ Unread(g)
  BY <1>2, <1>3 DEF Unread
<1>8. NumberInv'
  <2>1. frame' \in [Cells -> Pieces \cup {NULL}]
    BY <1>6 DEF Ordered, NumberInv
  <2> QED BY <1>1, <1>6, <2>1 DEF Ordered, NumberInv
<1>9. FrameInv(o)'
  <2> SUFFICES ASSUME NEW c \in Cells, o[c] \in Cells, Unread(o[c])'
               PROVE  /\ frame'[c] \in Pieces /\ frame'[c].src = frame'[o[c]].src
                      /\ frame'[c].no < on_bus[frame'[c].src]
    BY <1>1 DEF FrameInv, Sender, Number
  <2>1. o[c] # h /\ o[o[c]] # h /\ Unread(o[c])
    BY <1>7, OwnersAre
  <2>2. frame'[c] = frame[c] /\ frame'[o[c]] = frame[o[c]]
    BY <1>6, <2>1
  <2> QED BY <2>1, <2>2 DEF Ordered, FrameInv, Sender, Number
<1>10. ChainOrder(o, ch)'
  <2> SUFFICES ASSUME NEW g \in Cells, o[g] = g, Unread(g)', NEW i \in 1..Len(ch[g])
               PROVE  /\ IsLastFrame(frame'[ch[g][i]].no) <=> i = Len(ch[g]) /\ g \in whole'
                      /\ \A j \in 1..Len(ch[g]) :
                           i < j => frame'[ch[g][i]].no < frame'[ch[g][j]].no
    BY DEF ChainOrder, Number
  <2>1. g # h /\ Unread(g)
    BY <1>7
  <2>2. \A j \in 1..Len(ch[g]) : ch[g][j] \in Cells /\ o[ch[g][j]] = g
    BY OwnersAre
  <2>3. \A j \in 1..Len(ch[g]) : frame'[ch[g][j]] = frame[ch[g][j]]
    BY <1>6, <2>1, <2>2
  <2>4. g \in whole' <=> g \in whole
    BY <1>6, <2>1
  <2>5. /\ IsLastFrame(Number(ch[g][i])) <=> i = Len(ch[g]) /\ g \in whole
        /\ \A j \in 1..Len(ch[g]) : i < j => Number(ch[g][i]) < Number(ch[g][j])
    BY <2>1 DEF Ordered, ChainOrder
  <2> QED BY <2>3, <2>4, <2>5 DEF Number
<1>11. ListOrder(o, M)'
  <2> SUFFICES ASSUME NEW i \in 2..Len(M), NEW j \in 2..Len(M),
                      i < j, frame'[M[i]].src = frame'[M[j]].src
               PROVE  /\ M[i] \in whole'
                      /\ \A c, d \in Cells :
                           o[c] = M[i] /\ o[d] = M[j] => frame'[c].no < frame'[d].no
    BY DEF ListOrder, Sender, Number
  <2>1. \A l \in 2..Len(M) : M[l] \in Cells /\ o[M[l]] = M[l] /\ M[l] # h
    BY <1>3, OwnersAre
  <2>2. frame'[M[i]] = frame[M[i]] /\ frame'[M[j]] = frame[M[j]]
    BY <1>6, <2>1
  <2>3. /\ M[i] \in whole
        /\ \A c, d \in Cells : o[c] = M[i] /\ o[d] = M[j] => Number(c) < Number(d)
    BY <2>2 DEF Ordered, ListOrder, Sender
  <2>4. M[i] \in whole'
    BY <1>6, <2>1, <2>3
  <2>5. ASSUME NEW c \in Cells, NEW d \in Cells, o[c] = M[i], o[d] = M[j]
        PROVE  frame'[c].no < frame'[d].no
    <3>1. frame'[c] = frame[c] /\ frame'[d] = frame[d]
      BY <1>6, <2>1, <2>5
    <3> QED BY <2>3, <2>5, <3>1 DEF Number
  <2> QED BY <2>4, <2>5
<1>12. FoundOrder(M)' /\ HeldOrder(o)'
  BY <1>2 DEF FoundOrder, HeldOrder
<1>13. BlankInv(o)'
  <2>1. \A c \in Cells : o[c] = EMPT => c \notin whole'
    BY <1>6 DEF Ordered, BlankInv
  <2> QED BY <1>2, <1>6, <2>1 DEF BlankInv
<1>14. HandedInv(o)'
  <2> SUFFICES ASSUME NEW g \in Cells, o[g] = g, Unread(g)', NEW n \in handed[frame'[g].src]
               PROVE  /\ n # frame'[g].no
                      /\ n > frame'[g].no =>
                           /\ g \in whole'
                           /\ \A c \in Cells : o[c] = g => n > frame'[c].no
                           /\ \A m \in handed[frame'[g].src] : m > frame'[g].no => m = n
    BY <1>1 DEF HandedInv, Sender, Number
  <2>1. g # h /\ Unread(g) /\ frame'[g] = frame[g] /\ (g \in whole' <=> g \in whole)
    BY <1>6, <1>7
  <2>2. \A c \in Cells : o[c] = g => frame'[c] = frame[c]
    BY <1>6, <2>1
  <2>3. /\ n # Number(g)
        /\ n > Number(g) =>
             /\ g \in whole
             /\ \A c \in Cells : o[c] = g => n > Number(c)
             /\ \A m \in handed[Sender(g)] : m > Number(g) => m = n
    BY <2>1 DEF Ordered, HandedInv, Sender
  <2> QED BY <2>1, <2>2, <2>3 DEF Sender, Number
<1> QED BY <1>8, <1>9, <1>10, <1>11, <1>12, <1>13, <1>14 DEF Ordered

LEMMA FreeHeadOrdered ==
    ASSUME NEW o, NEW E, NEW M, NEW ch, ListInv(o, E, M, ch), Ordered(o, M, ch), FreeHead,
           NEW w, \A c \in Cells : w[c] = IF o[c] = task.cur THEN EMPT ELSE o[c]
    PROVE  Ordered(w, M, ch)'
<1>0. PICK h : h = task.cur
  OBVIOUS
<1>1. /\ task.at = "freed" /\ task'.at = "idle"
      /\ UNCHANGED <<frame, whole, on_bus, handed>>
  BY DEF FreeHead, Idle
<1>2. Held = h
  BY <1>0, <1>1 DEF Held
<1>3. /\ \A c \in Cells : w[c] \in Cells => w[c] = o[c]
      /\ \A c \in Cells : w[c] \in Cells => Unread(w[c])
      /\ \A c \in Cells : w[c] = EMPT => o[c] = EMPT \/ o[c] = h
  BY <1>0, <1>2, Sizes DEF Unread
<1>4. /\ NumberInv' /\ FrameInv(w)' /\ HandedInv(w)'
      /\ ChainOrder(w, ch)' /\ ListOrder(w, M)'
  BY <1>1, <1>3, MessageCells, SameFrames
<1>5. FoundOrder(M)' /\ HeldOrder(w)'
  BY <1>1 DEF FoundOrder, HeldOrder
<1>6. BlankInv(w)'
  <2>1. \A c \in Cells : w[c] = EMPT => c \notin whole
    BY <1>0, <1>1, <1>3 DEF Ordered, BlankInv
  <2> QED BY <1>1, <2>1 DEF BlankInv
<1> QED BY <1>4, <1>5, <1>6 DEF Ordered

(* A frame that is put into cell c, of the message that h heads. *)
FramePut(c, h, s) ==
    /\ frame' = [frame EXCEPT ![c] = [src |-> s, no |-> on_bus[s]]]
    /\ whole' = IF IsLastFrame(on_bus[s]) THEN whole \cup {h} ELSE whole
    /\ on_bus' = [on_bus EXCEPT ![s] = @ + 1]
    /\ UNCHANGED <<task, handed>>

LEMMA FrameIsPut ==
    ASSUME NEW o, NEW M, NEW ch, Ordered(o, M, ch), NEW s \in Srcs, on_bus[s] <= MaxSent,
           NEW c \in Cells, o[c] = EMPT, NEW h \in Cells, FramePut(c, h, s),
           h = c \/ (h \notin whole /\ Sender(h) = s)
    PROVE  /\ NumberInv' /\ h \notin whole /\ c \notin whole
           /\ frame'[c] \in Pieces /\ frame'[c].src = s /\ frame'[c].no = on_bus[s]
           /\ \A d \in Cells : d # c => frame'[d] = frame[d]
           /\ \A d \in Cells : d # h => (d \in whole' <=> d \in whole)
           /\ h \in whole' <=> IsLastFrame(on_bus[s])
           /\ on_bus[s] \in Nat /\ on_bus[s] < on_bus'[s]
           /\ \A n \in handed[s] : n \in Nat /\ n < on_bus[s]
           /\ \A t \in Srcs : on_bus[t] \in Nat /\ on_bus'[t] \in Nat /\ on_bus[t] <= on_bus'[t]
<1>1. /\ frame \in [Cells -> Pieces \cup {NULL}] /\ whole \subseteq Cells
      /\ on_bus \in [Srcs -> 1..(MaxSent + 1)]
      /\ handed \in [Srcs -> SUBSET (1..MaxSent)]
      /\ \A t \in Srcs : \A n \in handed[t] : n \in Nat /\ n < on_bus[t]
  BY Sizes DEF Ordered, NumberInv
<1>2. c \notin whole /\ h \notin whole
  BY DEF Ordered, BlankInv
<1>3. on_bus[s] \in 1..MaxSent
  BY <1>1, Sizes
<1>4. [src |-> s, no |-> on_bus[s]] \in Pieces
  BY <1>3 DEF Pieces
<1>5. /\ frame'[c] = [src |-> s, no |-> on_bus[s]]
      /\ \A d \in Cells : d # c => frame'[d] = frame[d]
      /\ frame' \in [Cells -> Pieces \cup {NULL}]
  BY <1>1, <1>4 DEF FramePut
<1>6. /\ whole' \subseteq Cells
      /\ \A d \in Cells : d # h => (d \in whole' <=> d \in whole)
      /\ h \in whole' <=> IsLastFrame(on_bus[s])
  BY <1>1, <1>2 DEF FramePut
<1>7. /\ on_bus' \in [Srcs -> 1..(MaxSent + 1)] /\ on_bus[s] < on_bus'[s]
      /\ \A t \in Srcs : on_bus[t] \in Nat /\ on_bus'[t] \in Nat /\ on_bus[t] <= on_bus'[t]
  BY <1>1, <1>3, Sizes DEF FramePut
<1>8. handed' = handed
  BY DEF FramePut
<1>9. \A t \in Srcs : \A n \in handed[t] : n < on_bus'[t]
  BY <1>1, <1>7, Sizes
<1>10. NumberInv'
  BY <1>5, <1>6, <1>7, <1>8, <1>1, <1>9 DEF NumberInv
<1> QED BY <1>1, <1>2, <1>3, <1>4, <1>5, <1>6, <1>7, <1>10

(* What does not depend on where the cell is put. *)
LEMMA PutOrdered ==
    ASSUME NEW o, NEW E, NEW M, NEW ch, ListInv(o, E, M, ch), Ordered(o, M, ch),
           NEW s \in Srcs, on_bus[s] <= MaxSent, NEW c \in Cells, o[c] = EMPT,
           NEW h \in Cells, h # Held, FramePut(c, h, s),
           h = c \/ (o[h] = h /\ h \notin whole /\ Sender(h) = s),
           NEW w, w[c] = h, \A d \in Cells : d # c => w[d] = o[d]
    PROVE  FrameInv(w)' /\ HandedInv(w)' /\ FoundOrder(M)' /\ HeldOrder(w)' /\ BlankInv(w)'
<1>1. /\ h \notin whole /\ c \notin whole
      /\ frame'[c] \in Pieces /\ frame'[c].src = s /\ frame'[c].no = on_bus[s]
      /\ \A d \in Cells : d # c => frame'[d] = frame[d]
      /\ \A d \in Cells : d # h => (d \in whole' <=> d \in whole)
      /\ on_bus[s] \in Nat /\ on_bus[s] < on_bus'[s]
      /\ \A n \in handed[s] : n \in Nat /\ n < on_bus[s]
      /\ \A t \in Srcs : on_bus[t] \in Nat /\ on_bus'[t] \in Nat /\ on_bus[t] <= on_bus'[t]
  BY FrameIsPut
<1>2. UNCHANGED <<task, handed>>
  BY DEF FramePut
<1>3. EMPT \notin Cells /\ NULL \notin Cells
  BY Sizes
<1>4. \A d \in Cells : o[d] \in Cells => o[o[d]] = o[d] /\ o[d] # c
  BY <1>3, OwnersAre
<1>5. frame'[h].src = s
  BY <1>1 DEF Sender
<1>6. \A g : Unread(g)' <=> Unread(g)
  BY <1>2 DEF Unread, Held
<1>7. FrameInv(w)'
  <2> SUFFICES ASSUME NEW d \in Cells, w[d] \in Cells, Unread(w[d])'
               PROVE  /\ frame'[d] \in Pieces /\ frame'[d].src = frame'[w[d]].src
                      /\ frame'[d].no < on_bus'[frame'[d].src]
    BY <1>2 DEF FrameInv, Sender, Number
  <2>1. CASE d = c
    BY <1>1, <1>5, <2>1
  <2>2. CASE d # c
    <3>1. w[d] = o[d] /\ frame'[d] = frame[d] /\ frame'[o[d]] = frame[o[d]]
      BY <1>1, <1>4, <2>2
    <3>2. /\ frame[d] \in Pieces /\ Sender(d) = Sender(o[d])
          /\ Number(d) < on_bus[Sender(d)]
      BY <1>6, <3>1 DEF Ordered, FrameInv
    <3>3. Sender(d) \in Srcs /\ Number(d) \in Nat
      BY <3>2, Sizes DEF Pieces, Sender, Number
    <3>4. Number(d) < on_bus'[Sender(d)]
      BY <1>1, <3>2, <3>3
    <3> QED BY <3>1, <3>2, <3>4 DEF Sender, Number
  <2> QED BY <2>1, <2>2
<1>11. \A i \in 2..Len(M) : M[i] \in Cells /\ M[i] # c /\ frame'[M[i]] = frame[M[i]]
  BY <1>1, <1>3, OwnersAre
<1>12. \A k \in 1..Len(M) : Passed(M, k) => Passed(M, k)'
  <2> SUFFICES ASSUME NEW k \in 1..Len(M), Passed(M, k), NEW i \in 2..k,
                      NEW n \in handed[frame'[M[i]].src]
               PROVE  n < frame'[M[i]].no
    BY <1>2 DEF Passed, Sender, Number
  <2>1. i \in 2..Len(M)
    BY OwnersAre
  <2> QED BY <1>11, <2>1 DEF Passed, Sender, Number
<1>8. FoundOrder(M)'
  <2>1. ASSUME task.at = "scan"
        PROVE  \E k \in 2..Len(M) : task.last = M[k] /\ Passed(M, k)'
    <3>1. PICK k \in 2..Len(M) : task.last = M[k] /\ Passed(M, k)
      BY <2>1 DEF Ordered, FoundOrder
    <3>2. k \in 1..Len(M)
      BY OwnersAre
    <3> QED BY <1>12, <3>1, <3>2
  <2>2. ASSUME task.at = "unlink_read"
        PROVE  /\ task.cur \in whole'
               /\ \E k \in 2..Len(M) : task.cur = M[k] /\ Passed(M, k - 1)'
    <3>1. PICK k \in 2..Len(M) : task.cur = M[k] /\ Passed(M, k - 1)
      BY <2>2 DEF Ordered, FoundOrder
    <3>2. k - 1 \in 1..Len(M)
      BY OwnersAre
    <3>3. task.cur \in whole
      BY <2>2 DEF Ordered, FoundOrder
    <3> QED BY <1>1, <1>11, <1>12, <3>1, <3>2, <3>3
  <2> QED BY <1>2, <2>1, <2>2 DEF FoundOrder
<1>13. HandedInv(w)'
  <2> SUFFICES ASSUME NEW g \in Cells, w[g] = g, Unread(g)', NEW n \in handed[frame'[g].src]
               PROVE  /\ n # frame'[g].no
                      /\ n > frame'[g].no =>
                           /\ g \in whole'
                           /\ \A d \in Cells : w[d] = g => n > frame'[d].no
                           /\ \A m \in handed[frame'[g].src] : m > frame'[g].no => m = n
    BY <1>2 DEF HandedInv, Sender, Number
  <2>1. CASE g = c
    BY <1>1, <2>1
  <2>2. CASE g # c
    <3>1. o[g] = g /\ frame'[g] = frame[g] /\ Unread(g)
      BY <1>1, <1>6, <2>2
    <3>2. /\ n # Number(g)
          /\ n > Number(g) =>
               /\ g \in whole
               /\ \A d \in Cells : o[d] = g => n > Number(d)
               /\ \A m \in handed[Sender(g)] : m > Number(g) => m = n
      BY <3>1 DEF Ordered, HandedInv, Sender
    <3>3. n > Number(g) => g # h /\ \A d \in Cells : w[d] = g => d # c /\ o[d] = g
      BY <1>1, <3>2
    <3>4. n > Number(g) => g \in whole' /\ \A d \in Cells : w[d] = g => n > frame'[d].no
      BY <1>1, <3>2, <3>3 DEF Number
    <3> QED BY <3>1, <3>2, <3>4 DEF Sender, Number
  <2> QED BY <2>1, <2>2
<1>9. HeldOrder(w)'
  <2> SUFFICES ASSUME task.at = "copy"
               PROVE  /\ task.cur \in whole'
                      /\ \A g \in Cells :
                           w[g] = g /\ g # task.cur /\ frame'[g].src = frame'[task.cur].src =>
                           \/ \A a, b \in Cells :
                                w[a] = task.cur /\ w[b] = g => frame'[a].no < frame'[b].no
                           \/ /\ g \in whole'
                              /\ \A n \in handed[frame'[g].src] : n < frame'[g].no
                              /\ \A a, b \in Cells :
                                   w[a] = task.cur /\ w[b] = g => frame'[b].no < frame'[a].no
    BY <1>2 DEF HeldOrder, Sender, Number
  <2>1. task.cur \in Cells /\ o[task.cur] = task.cur /\ Held = task.cur
    BY DEF ListInv, HeldInv, Held
  <2>2. task.cur \in whole /\ task.cur # c /\ task.cur # h
    BY <1>1, <1>3, <2>1 DEF Ordered, HeldOrder
  <2>3. \A a \in Cells : w[a] = task.cur =>
          /\ o[a] = task.cur /\ frame'[a] = frame[a] /\ frame'[task.cur] = frame[task.cur]
          /\ Sender(a) = Sender(task.cur) /\ Number(a) < on_bus[Sender(task.cur)]
    <3>1. \A a \in Cells : w[a] = task.cur => a # c /\ o[a] = task.cur
      BY <2>2
    <3>2. Unread(task.cur)
      BY DEF Unread
    <3> QED BY <1>1, <2>1, <2>2, <3>1, <3>2 DEF Ordered, FrameInv
  <2>4. ASSUME NEW g \in Cells, w[g] = g, g # task.cur, frame'[g].src = frame'[task.cur].src
        PROVE  \/ \A a, b \in Cells :
                    w[a] = task.cur /\ w[b] = g => frame'[a].no < frame'[b].no
               \/ /\ g \in whole' /\ \A n \in handed[frame'[g].src] : n < frame'[g].no
                  /\ \A a, b \in Cells :
                       w[a] = task.cur /\ w[b] = g => frame'[b].no < frame'[a].no
    <3>0. frame'[task.cur] = frame[task.cur]
      BY <1>1, <2>1, <2>2
    <3>1. CASE g = c
      <4>1. Sender(task.cur) = s
        BY <1>1, <2>4, <3>0, <3>1 DEF Sender
      <4>2. \A b \in Cells : w[b] = c => b = c
        BY <1>3, <1>4, <2>4, <3>1
      <4> QED BY <1>1, <2>3, <3>1, <4>1, <4>2 DEF Number
    <3>2. CASE g # c
      <4>1. o[g] = g /\ frame'[g] = frame[g] /\ Sender(g) = Sender(task.cur)
        BY <1>1, <2>4, <3>0, <3>2 DEF Sender
      <4>2. \/ \A a, b \in Cells : o[a] = task.cur /\ o[b] = g => Number(a) < Number(b)
            \/ /\ g \in whole /\ \A n \in handed[Sender(g)] : n < Number(g)
               /\ \A a, b \in Cells : o[a] = task.cur /\ o[b] = g => Number(b) < Number(a)
        BY <2>4, <4>1 DEF Ordered, HeldOrder
      <4>3. CASE \A a, b \in Cells : o[a] = task.cur /\ o[b] = g => Number(a) < Number(b)
        <5>1. ASSUME NEW a \in Cells, NEW b \in Cells, w[a] = task.cur, w[b] = g
              PROVE  frame'[a].no < frame'[b].no
          <6>1. CASE b = c
            <7>1. frame'[b].no = on_bus[s] /\ Sender(task.cur) = s
              BY <1>1, <1>5, <2>4, <3>0, <5>1, <6>1 DEF Sender
            <7> QED BY <2>3, <5>1, <7>1 DEF Number
          <6>2. CASE b # c
            <7>1. o[b] = g /\ frame'[b] = frame[b]
              BY <1>1, <5>1, <6>2
            <7> QED BY <2>3, <4>3, <5>1, <7>1 DEF Number
          <6> QED BY <6>1, <6>2
        <5> QED BY <5>1
      <4>4. CASE /\ g \in whole /\ \A n \in handed[Sender(g)] : n < Number(g)
                 /\ \A a, b \in Cells : o[a] = task.cur /\ o[b] = g => Number(b) < Number(a)
        <5>1. g # h /\ g \in whole' /\ \A b \in Cells : w[b] = g => b # c /\ o[b] = g
          BY <1>1, <4>4
        <5>2. \A n \in handed[frame'[g].src] : n < frame'[g].no
          BY <4>1, <4>4 DEF Sender, Number
        <5>3. ASSUME NEW a \in Cells, NEW b \in Cells, w[a] = task.cur, w[b] = g
              PROVE  frame'[b].no < frame'[a].no
          BY <1>1, <2>3, <4>4, <5>1, <5>3 DEF Number
        <5> QED BY <5>1, <5>2, <5>3
      <4> QED BY <4>2, <4>3, <4>4
    <3> QED BY <3>1, <3>2
  <2> QED BY <1>1, <2>2, <2>1, <2>4
<1>10. BlankInv(w)'
  <2> SUFFICES ASSUME NEW d \in Cells,
                      w[d] = EMPT \/ (task.at = "freed" /\ w[d] = task.cur)
               PROVE  d \notin whole'
    BY <1>2 DEF BlankInv
  <2>1. task.at = "freed" => Held = task.cur /\ task.cur \in Cells /\ o[task.cur] = task.cur
    BY DEF ListInv, HeldInv, Held
  <2>2. d # c
    BY <1>3, <2>1
  <2>3. o[d] = w[d] /\ d \notin whole
    BY <2>2 DEF Ordered, BlankInv
  <2>4. d # h
    BY <1>3, <2>1, <2>2, <2>3
  <2> QED BY <1>1, <2>3, <2>4
<1> QED BY <1>7, <1>8, <1>9, <1>10, <1>13

LEMMA StartOrdered ==
    ASSUME NEW o, NEW E, NEW M, NEW ch, ListInv(o, E, M, ch), Ordered(o, M, ch),
           NEW s \in Srcs, on_bus[s] <= MaxSent, Unfinished(s) = NULL,
           NEW c \in Cells, o[c] = EMPT, c # Held, FramePut(c, c, s),
           NEW w, w[c] = c, \A d \in Cells : d # c => w[d] = o[d],
           NEW L, Len(L) = Len(M) + 1, L[Len(M) + 1] = c, \A i \in 1..Len(M) : L[i] = M[i],
           NEW wch, Len(wch[c]) = 1, wch[c][1] = c, \A d \in Cells : d # c => wch[d] = ch[d]
    PROVE  Ordered(w, L, wch)'
<1>1. /\ NumberInv' /\ frame'[c].src = s /\ frame'[c].no = on_bus[s]
      /\ \A d \in Cells : d # c => frame'[d] = frame[d]
      /\ \A d \in Cells : d # c => (d \in whole' <=> d \in whole)
      /\ c \in whole' <=> IsLastFrame(on_bus[s])
      /\ on_bus[s] \in Nat
  BY FrameIsPut
<1>2. FrameInv(w)' /\ HandedInv(w)' /\ FoundOrder(M)' /\ HeldOrder(w)' /\ BlankInv(w)'
  BY PutOrdered
<1>3. EMPT \notin Cells /\ NULL \notin Cells
  BY Sizes
<1>4. /\ Len(M) \in Nat
      /\ \A i \in 2..Len(M) : M[i] \in Cells /\ o[M[i]] = M[i] /\ M[i] # Held /\ M[i] # c
  BY <1>3, OwnersAre
<1>5. UNCHANGED task
  BY DEF FramePut
<1>6. FoundOrder(L)'
  <2>1. \A k \in 1..Len(M) : Passed(M, k)' => Passed(L, k)'
    <3> SUFFICES ASSUME NEW k \in 1..Len(M), Passed(M, k)', NEW i \in 2..k
                 PROVE  L[i] = M[i]
      BY DEF Passed
    <3> QED BY <1>4
  <2>2. ASSUME NEW k \in 2..Len(M)
        PROVE  k \in 2..Len(L) /\ L[k] = M[k] /\ k \in 1..Len(M) /\ k - 1 \in 1..Len(M)
    <3>1. k \in 2..Len(L) /\ k \in 1..Len(M) /\ k - 1 \in 1..Len(M)
      BY <1>4
    <3> QED BY <3>1
  <2>3. ASSUME task.at = "scan"
        PROVE  \E k \in 2..Len(L) : task.last = L[k] /\ Passed(L, k)'
    <3>1. PICK k \in 2..Len(M) : task.last = M[k] /\ Passed(M, k)'
      BY <1>2, <1>5, <2>3 DEF FoundOrder
    <3> QED BY <2>1, <2>2, <3>1
  <2>4. ASSUME task.at = "unlink_read"
        PROVE  /\ task.cur \in whole'
               /\ \E k \in 2..Len(L) : task.cur = L[k] /\ Passed(L, k - 1)'
    <3>1. PICK k \in 2..Len(M) : task.cur = M[k] /\ Passed(M, k - 1)'
      BY <1>2, <1>5, <2>4 DEF FoundOrder
    <3>2. task.cur \in whole'
      BY <1>2, <1>5, <2>4 DEF FoundOrder
    <3> QED BY <2>1, <2>2, <3>1, <3>2
  <2> QED BY <1>5, <2>3, <2>4 DEF FoundOrder
<1>7. ChainOrder(w, wch)'
  <2> SUFFICES ASSUME NEW g \in Cells, w[g] = g, Unread(g)', NEW i \in 1..Len(wch[g])
               PROVE  /\ IsLastFrame(frame'[wch[g][i]].no) <=> i = Len(wch[g]) /\ g \in whole'
                      /\ \A j \in 1..Len(wch[g]) :
                           i < j => frame'[wch[g][i]].no < frame'[wch[g][j]].no
    BY DEF ChainOrder, Number
  <2>1. CASE g = c
    <3>0. Len(wch[g]) = 1 /\ wch[g][1] = c
      BY <2>1
    <3>1. Len(wch[g]) = 1 /\ wch[g][1] = c /\ i = 1 /\ \A j \in 1..Len(wch[g]) : ~(i < j)
      BY <3>0
    <3>2. frame'[wch[g][i]].no = on_bus[s]
      BY <1>1, <3>1
    <3> QED BY <1>1, <2>1, <3>1, <3>2
  <2>2. CASE g # c
    <3>1. o[g] = g /\ wch[g] = ch[g] /\ Unread(g)
      BY <1>5, <2>2 DEF Unread, Held
    <3>2. \A j \in 1..Len(ch[g]) : ch[g][j] \in Cells /\ ch[g][j] # c
      BY <1>3, <3>1, OwnersAre
    <3>3. \A j \in 1..Len(ch[g]) : frame'[ch[g][j]] = frame[ch[g][j]]
      BY <1>1, <3>2
    <3>4. /\ IsLastFrame(Number(ch[g][i])) <=> i = Len(ch[g]) /\ g \in whole
          /\ \A j \in 1..Len(ch[g]) : i < j => Number(ch[g][i]) < Number(ch[g][j])
      BY <3>1 DEF Ordered, ChainOrder
    <3> QED BY <1>1, <2>2, <3>1, <3>3, <3>4 DEF Number
  <2> QED BY <2>1, <2>2
<1>8. ListOrder(w, L)'
  <2> SUFFICES ASSUME NEW i \in 2..Len(L), NEW j \in 2..Len(L),
                      i < j, frame'[L[i]].src = frame'[L[j]].src
               PROVE  /\ L[i] \in whole'
                      /\ \A a, b \in Cells :
                           w[a] = L[i] /\ w[b] = L[j] => frame'[a].no < frame'[b].no
    BY DEF ListOrder, Sender, Number
  <2>1. /\ i \in 2..Len(M) /\ L[i] = M[i] /\ frame'[M[i]] = frame[M[i]]
        /\ j \in 2..Len(M) \/ j = Len(M) + 1
    <3>1. i \in 2..Len(M) /\ i \in 1..Len(M) /\ (j \in 2..Len(M) \/ j = Len(M) + 1)
      BY <1>4
    <3>2. L[i] = M[i]
      BY <3>1
    <3>3. frame'[M[i]] = frame[M[i]]
      BY <1>1, <1>4, <3>1
    <3> QED BY <3>1, <3>2, <3>3
  <2>2. \A a \in Cells : w[a] = M[i] => a # c /\ o[a] = M[i] /\ frame'[a] = frame[a]
    BY <1>1, <1>4, <2>1
  <2>3. ASSUME j \in 2..Len(M)
        PROVE  /\ L[i] \in whole'
               /\ \A a, b \in Cells :
                    w[a] = L[i] /\ w[b] = L[j] => frame'[a].no < frame'[b].no
    <3>1. L[j] = M[j] /\ frame'[M[j]] = frame[M[j]]
      <4>1. j \in 1..Len(M)
        BY <1>4, <2>3
      <4> QED BY <1>1, <1>4, <2>3, <4>1
    <3>2. \A a \in Cells : w[a] = M[j] => a # c /\ o[a] = M[j] /\ frame'[a] = frame[a]
      BY <1>1, <1>4, <2>3
    <3>3. /\ M[i] \in whole
          /\ \A a, b \in Cells : o[a] = M[i] /\ o[b] = M[j] => Number(a) < Number(b)
      BY <2>1, <2>3, <3>1 DEF Ordered, ListOrder, Sender
    <3>4. M[i] \in whole'
      BY <1>1, <1>4, <2>1, <3>3
    <3> QED BY <2>1, <2>2, <3>1, <3>2, <3>3, <3>4 DEF Number
  <2>4. ASSUME j = Len(M) + 1
        PROVE  /\ L[i] \in whole'
               /\ \A a, b \in Cells :
                    w[a] = L[i] /\ w[b] = L[j] => frame'[a].no < frame'[b].no
    <3>1. L[j] = c /\ Sender(M[i]) = s
      BY <1>1, <2>1, <2>4 DEF Sender
    <3>2. M[i] \in whole
      <4>1. NormInv(o, M)
        BY DEF ListInv
      <4> QED BY <2>1, <3>1, <4>1, NoneOpen
    <3>3. M[i] \in whole'
      BY <1>1, <1>4, <2>1, <3>2
    <3>4. \A b \in Cells : w[b] = c => b = c
      BY <1>3, OwnersAre
    <3>5. ASSUME NEW a \in Cells, w[a] = M[i] PROVE Number(a) < on_bus[s]
      <4>1. o[a] = M[i] /\ M[i] \in Cells /\ Unread(M[i])
        BY <1>4, <2>1, <2>2, <3>5 DEF Unread
      <4>2. Sender(a) = Sender(M[i]) /\ Number(a) < on_bus[Sender(a)]
        BY <4>1 DEF Ordered, FrameInv
      <4> QED BY <3>1, <4>2
    <3> QED BY <1>1, <2>1, <2>2, <3>1, <3>3, <3>4, <3>5 DEF Number
  <2> QED BY <2>1, <2>3, <2>4
<1> QED BY <1>1, <1>2, <1>6, <1>7, <1>8 DEF Ordered

LEMMA AddOrdered ==
    ASSUME NEW o, NEW E, NEW M, NEW ch, ListInv(o, E, M, ch), Ordered(o, M, ch),
           NEW s \in Srcs, on_bus[s] <= MaxSent, NEW c \in Cells, o[c] = EMPT,
           NEW h \in Cells, o[h] = h, h # Held, h \notin whole, Sender(h) = s,
           FramePut(c, h, s),
           NEW w, w[c] = h, \A d \in Cells : d # c => w[d] = o[d],
           NEW wch, Len(wch[h]) = Len(ch[h]) + 1, wch[h][Len(ch[h]) + 1] = c,
           \A i \in 1..Len(ch[h]) : wch[h][i] = ch[h][i],
           \A d \in Cells : d # h => wch[d] = ch[d]
    PROVE  Ordered(w, M, wch)'
<1>1. /\ NumberInv' /\ frame'[c].src = s /\ frame'[c].no = on_bus[s]
      /\ \A d \in Cells : d # c => frame'[d] = frame[d]
      /\ \A d \in Cells : d # h => (d \in whole' <=> d \in whole)
      /\ h \in whole' <=> IsLastFrame(on_bus[s])
      /\ on_bus[s] \in Nat
  BY FrameIsPut
<1>2. FrameInv(w)' /\ HandedInv(w)' /\ FoundOrder(M)' /\ HeldOrder(w)' /\ BlankInv(w)'
  BY PutOrdered
<1>3. EMPT \notin Cells /\ NULL \notin Cells /\ h # c
  BY Sizes
<1>4. /\ Len(M) \in Nat
      /\ \A i \in 2..Len(M) : M[i] \in Cells /\ o[M[i]] = M[i] /\ M[i] # Held /\ M[i] # c
  BY <1>3, OwnersAre
<1>5. UNCHANGED task
  BY DEF FramePut
<1>6. ASSUME NEW a \in Cells, o[a] \in Cells, Sender(o[a]) = s, Unread(o[a])
      PROVE  Number(a) < on_bus[s]
  BY <1>6 DEF Ordered, FrameInv
<1>7. ChainOrder(w, wch)'
  <2> SUFFICES ASSUME NEW g \in Cells, w[g] = g, Unread(g)', NEW i \in 1..Len(wch[g])
               PROVE  /\ IsLastFrame(frame'[wch[g][i]].no) <=> i = Len(wch[g]) /\ g \in whole'
                      /\ \A j \in 1..Len(wch[g]) :
                           i < j => frame'[wch[g][i]].no < frame'[wch[g][j]].no
    BY DEF ChainOrder, Number
  <2>1. o[g] = g /\ Unread(g) /\ g # c
    BY <1>3, <1>5 DEF Unread, Held
  <2>2. Len(ch[g]) \in Nat /\ \A j \in 1..Len(ch[g]) :
          ch[g][j] \in Cells /\ o[ch[g][j]] = g /\ ch[g][j] # c
    BY <1>3, <2>1, OwnersAre
  <2>3. \A j \in 1..Len(ch[g]) : frame'[ch[g][j]] = frame[ch[g][j]]
    BY <1>1, <2>2
  <2>4. \A j \in 1..Len(ch[g]) :
          /\ IsLastFrame(Number(ch[g][j])) <=> j = Len(ch[g]) /\ g \in whole
          /\ \A l \in 1..Len(ch[g]) : j < l => Number(ch[g][j]) < Number(ch[g][l])
    BY <2>1 DEF Ordered, ChainOrder
  <2>5. CASE g # h
    <3>1. wch[g] = ch[g] /\ (g \in whole' <=> g \in whole)
      BY <1>1, <2>5
    <3> QED BY <2>3, <2>4, <3>1 DEF Number
  <2>6. ASSUME g = h
        PROVE  /\ IsLastFrame(frame'[wch[g][i]].no) <=> i = Len(wch[g]) /\ g \in whole'
               /\ \A j \in 1..Len(wch[g]) :
                    i < j => frame'[wch[g][i]].no < frame'[wch[g][j]].no
    <3>1. PICK n \in Nat : n = Len(ch[g])
      BY <2>2
    <3>2. /\ Len(wch[g]) = n + 1 /\ wch[g][n + 1] = c
          /\ \A j \in 1..n : wch[g][j] = ch[g][j]
      BY <2>6, <3>1
    <3>3. \A j \in 1..n : /\ frame'[wch[g][j]].no = Number(ch[g][j])
                          /\ Number(ch[g][j]) < on_bus[s]
      <4>1. \A j \in 1..n : Number(ch[g][j]) < on_bus[s]
        BY <1>6, <2>1, <2>2, <2>6, <3>1
      <4> QED BY <2>3, <3>1, <3>2, <4>1 DEF Number
    <3>4. frame'[wch[g][n + 1]].no = on_bus[s]
      BY <1>1, <3>2
    <3>5. \A j \in 1..n : ~IsLastFrame(Number(ch[g][j]))
      BY <2>4, <2>6, <3>1
    <3>6. i \in 1..n \/ i = n + 1
      BY <3>2
    <3>7. ASSUME NEW j \in 1..Len(wch[g]), i < j
          PROVE  frame'[wch[g][i]].no < frame'[wch[g][j]].no
      <4>1. i \in 1..n /\ (j \in 1..n \/ j = n + 1)
        BY <3>2, <3>7
      <4>2. CASE j = n + 1
        BY <3>3, <3>4, <4>1, <4>2
      <4>3. CASE j \in 1..n
        <5>1. Number(ch[g][i]) < Number(ch[g][j])
          BY <2>4, <3>1, <3>7, <4>1, <4>3
        <5> QED BY <3>3, <4>1, <4>3, <5>1
      <4> QED BY <4>1, <4>2, <4>3
    <3>8. IsLastFrame(frame'[wch[g][i]].no) <=> i = Len(wch[g]) /\ g \in whole'
      <4>1. CASE i = n + 1
        BY <1>1, <2>6, <3>2, <3>4, <4>1
      <4>2. CASE i \in 1..n
        <5>1. i # n + 1
          BY <4>2
        <5> QED BY <3>2, <3>3, <3>5, <4>2, <5>1
      <4> QED BY <3>6, <4>1, <4>2
    <3> QED BY <3>7, <3>8
  <2> QED BY <2>5, <2>6
<1>8. ListOrder(w, M)'
  <2> SUFFICES ASSUME NEW i \in 2..Len(M), NEW j \in 2..Len(M),
                      i < j, frame'[M[i]].src = frame'[M[j]].src
               PROVE  /\ M[i] \in whole'
                      /\ \A a, b \in Cells :
                           w[a] = M[i] /\ w[b] = M[j] => frame'[a].no < frame'[b].no
    BY DEF ListOrder, Sender, Number
  <2>1. frame'[M[i]] = frame[M[i]] /\ frame'[M[j]] = frame[M[j]]
    BY <1>1, <1>4
  <2>2. /\ M[i] \in whole /\ Sender(M[i]) = Sender(M[j])
        /\ \A a, b \in Cells : o[a] = M[i] /\ o[b] = M[j] => Number(a) < Number(b)
    BY <2>1 DEF Ordered, ListOrder, Sender
  <2>3. M[i] # h /\ M[i] \in whole'
    BY <1>1, <1>4, <2>2
  <2>4. ASSUME NEW a \in Cells, NEW b \in Cells, w[a] = M[i], w[b] = M[j]
        PROVE  frame'[a].no < frame'[b].no
    <3>1. a # c /\ o[a] = M[i] /\ frame'[a] = frame[a]
      BY <1>1, <2>3, <2>4
    <3>2. CASE b = c
      <4>1. Sender(M[i]) = s /\ Unread(o[a]) /\ o[a] \in Cells
        BY <1>4, <2>2, <2>4, <3>1, <3>2 DEF Unread
      <4>2. Number(a) < on_bus[s]
        BY <1>6, <3>1, <4>1
      <4> QED BY <1>1, <3>1, <3>2, <4>2 DEF Number
    <3>3. CASE b # c
      <4>1. o[b] = M[j] /\ frame'[b] = frame[b]
        BY <1>1, <2>4, <3>3
      <4> QED BY <2>2, <3>1, <4>1 DEF Number
    <3> QED BY <3>2, <3>3
  <2> QED BY <2>3, <2>4
<1> QED BY <1>1, <1>2, <1>7, <1>8 DEF Ordered

LEMMA ReceiveKeeps ==
    ASSUME NEW o, NEW E, NEW M, NEW ch, ListInv(o, E, M, ch), Ordered(o, M, ch),
           NEW s \in Srcs, Receive(s)
    PROVE  CacheInv'
<1>1. /\ UNCHANGED <<task, handed, leaked>> /\ on_bus[s] <= MaxSent
      /\ on_bus' = [on_bus EXCEPT ![s] = @ + 1]
  BY DEF Receive
<1>2. ASSUME EmptyCell = NULL PROVE CacheInv'
  <2>1. UNCHANGED lists
    BY <1>2 DEF Receive
  <2>2. ListInv(o, E, M, ch)'
    BY <1>1, <2>1, SameLists DEF lists
  <2>3. Ordered(o, M, ch)'
    BY <1>1, <2>1, BusMoves DEF lists
  <2> QED BY <2>2, <2>3 DEF CacheInv
<1>3. ASSUME EmptyCell # NULL PROVE CacheInv'
  <2>1. PICK c : c = EmptyCell
    OBVIOUS
  <2> DEFINE f == [src |-> s, no |-> on_bus[s]]
  <2>2. /\ frame' = [frame EXCEPT ![c] = f] /\ can_src_rece_norm_pack(c, f)
        /\ f.src = s /\ f.no = on_bus[s]
    BY <1>3, <2>1 DEF Receive
  <2>u. c # NULL /\ UNCHANGED <<task, leaked>>
    BY <1>1, <1>3, <2>1
  <2>3. /\ c \in Cells /\ o[c] = EMPT /\ c # Held
    <3>1. EmptyInv(o, E)
      BY DEF ListInv
    <3>2. c \in Cells /\ o[c] = EMPT
      BY <1>3, <2>1, <3>1, EmptyCellIs DEF EmptyInv
    <3>3. Held # NULL => Held \in Cells /\ o[Held] = Held
      BY DEF ListInv, HeldInv, Held
    <3> QED BY <3>2, <3>3, Sizes
  <2>4. ASSUME Unfinished(s) = NULL PROVE CacheInv'
    <3>1. /\ CellStarts(c)
          /\ whole' = IF IsLastFrame(on_bus[s]) THEN whole \cup {c} ELSE whole
      BY <2>2, <2>4 DEF can_src_rece_norm_pack, CellStarts
    <3>2. FramePut(c, c, s)
      BY <1>1, <2>2, <3>1 DEF FramePut
    <3> HIDE DEF f
    <3>3. \E w, N, L, wch :
            /\ ListInv(w, N, L, wch)'
            /\ w[c] = c /\ \A d \in Cells : d # c => w[d] = o[d]
            /\ Len(L) = Len(M) + 1 /\ L[Len(M) + 1] = c
            /\ \A i \in 1..Len(M) : L[i] = M[i]
            /\ Len(wch[c]) = 1 /\ wch[c][1] = c
            /\ \A d \in Cells : d # c => wch[d] = ch[d]
      BY <2>1, <2>u, <3>1, ReceiveStarts, SMTT(60)
    <3>4. PICK w, N, L, wch :
            /\ ListInv(w, N, L, wch)'
            /\ w[c] = c /\ \A d \in Cells : d # c => w[d] = o[d]
            /\ Len(L) = Len(M) + 1 /\ L[Len(M) + 1] = c
            /\ \A i \in 1..Len(M) : L[i] = M[i]
            /\ Len(wch[c]) = 1 /\ wch[c][1] = c
            /\ \A d \in Cells : d # c => wch[d] = ch[d]
      BY <3>3
    <3>5. Ordered(w, L, wch)'
      BY <1>1, <2>3, <2>4, <3>2, <3>4, StartOrdered
    <3> QED BY <3>4, <3>5 DEF CacheInv
  <2>5. ASSUME Unfinished(s) # NULL PROVE CacheInv'
    <3>1. PICK h : h = Unfinished(s)
      OBVIOUS
    <3>2. NormInv(o, M)
      BY DEF ListInv
    <3>3. /\ h \in Cells /\ o[h] = h /\ h # Held
          /\ h \notin whole /\ Sender(h) = s
      BY <2>5, <3>1, <3>2, UnfinishedIs, UnfinishedOpen
    <3>4. /\ CellAdds(c, h)
          /\ whole' = IF IsLastFrame(on_bus[s]) THEN whole \cup {h} ELSE whole
      BY <2>2, <2>5, <3>1 DEF can_src_rece_norm_pack, CellAdds
    <3>5. FramePut(c, h, s)
      BY <1>1, <2>2, <3>4 DEF FramePut
    <3> HIDE DEF f
    <3>6. \E w, N, wch :
            /\ ListInv(w, N, M, wch)'
            /\ w[c] = h /\ \A d \in Cells : d # c => w[d] = o[d]
            /\ Len(wch[h]) = Len(ch[h]) + 1 /\ wch[h][Len(ch[h]) + 1] = c
            /\ \A i \in 1..Len(ch[h]) : wch[h][i] = ch[h][i]
            /\ \A d \in Cells : d # h => wch[d] = ch[d]
      BY <2>1, <2>u, <3>3, <3>4, ReceiveAdds, SMTT(60)
    <3>7. PICK w, N, wch :
            /\ ListInv(w, N, M, wch)'
            /\ w[c] = h /\ \A d \in Cells : d # c => w[d] = o[d]
            /\ Len(wch[h]) = Len(ch[h]) + 1 /\ wch[h][Len(ch[h]) + 1] = c
            /\ \A i \in 1..Len(ch[h]) : wch[h][i] = ch[h][i]
            /\ \A d \in Cells : d # h => wch[d] = ch[d]
      BY <3>6
    <3>8. Ordered(w, M, wch)'
      BY <1>1, <2>3, <3>3, <3>5, <3>7, AddOrdered
    <3> QED BY <3>7, <3>8 DEF CacheInv
  <2> QED BY <2>4, <2>5
<1> QED BY <1>2, <1>3

LEMMA StepKeepsCache == CacheInv /\ [srcNext]_srcVars => CacheInv'
<1> SUFFICES ASSUME NEW o, NEW E, NEW M, NEW ch, ListInv(o, E, M, ch), Ordered(o, M, ch),
                    [srcNext]_srcVars
             PROVE  CacheInv'
  BY DEF CacheInv
<1>1. ASSUME NEW s \in Srcs, Receive(s) PROVE CacheInv'
  BY <1>1, ReceiveKeeps
<1>2. ASSUME NEW s \in Srcs, FrameLost(s) PROVE CacheInv'
  <2>1. /\ UNCHANGED <<lists, task, handed, leaked>> /\ on_bus[s] <= MaxSent
        /\ on_bus' = [on_bus EXCEPT ![s] = @ + 1]
    BY <1>2 DEF FrameLost
  <2>2. ListInv(o, E, M, ch)'
    BY <2>1, SameLists DEF lists
  <2>3. Ordered(o, M, ch)'
    BY <2>1, BusMoves DEF lists
  <2> QED BY <2>2, <2>3 DEF CacheInv
<1>3. CASE Scan
  <2>1. ListInv(o, E, M, ch)'
    BY <1>3, ScanKeeps DEF Ordered
  <2> QED BY <1>3, <2>1, ScanOrdered DEF CacheInv
<1>4. CASE FindTimeout
  BY <1>4, FindTimeoutKeeps, FindTimeoutOrdered DEF CacheInv
<1>5. CASE Unlink
  <2>1. PICK w, N : ListInv(w, E, N, ch)' /\ Unlinked(o, M, w, N)
    BY <1>5, UnlinkKeeps
  <2>2. Len(N) \in Nat
    <3>1. IsList(p_head_list', NORM, N)
      BY <2>1 DEF ListInv, NormInv
    <3> QED BY <3>1, ListFacts
  <2>3. Ordered(w, N, ch)'
    BY <1>5, <2>1, <2>2, UnlinkOrdered
  <2> QED BY <2>1, <2>3 DEF CacheInv
<1>6. CASE Copy
  BY <1>6, CopyKeeps, CopyOrdered DEF CacheInv
<1>7. CASE FreeLink
  BY <1>7, FreeLinkKeeps, FreeLinkOrdered DEF CacheInv
<1>8. CASE FreeHead
  <2>1. PICK w, N : /\ ListInv(w, N, M, ch)'
                    /\ \A c \in Cells : w[c] = IF o[c] = task.cur THEN EMPT ELSE o[c]
    BY <1>8, FreeHeadKeeps
  <2>2. Ordered(w, M, ch)'
    BY <1>8, <2>1, FreeHeadOrdered
  <2> QED BY <2>1, <2>2 DEF CacheInv
<1>9. CASE UNCHANGED srcVars
  <2>1. ListInv(o, E, M, ch)'
    BY <1>9, SameLists DEF srcVars
  <2>2. Ordered(o, M, ch)'
    BY <1>9 DEF srcVars, Ordered, NumberInv, FrameInv, HandedInv, ChainOrder, ListOrder,
       FoundOrder, Passed, HeldOrder, BlankInv, Unread, Held, Sender, Number
  <2> QED BY <2>1, <2>2 DEF CacheInv
<1> QED BY <1>1, <1>2, <1>3, <1>4, <1>5, <1>6, <1>7, <1>8, <1>9 DEF srcNext

(* Whenever the interrupt comes, each cell is in one place: empty, in one   *)
(* message, in the hands of the main loop, or lost.                        *)
THEOREM EachCellInOnePlace == srcSpec => []CellsKept
<1>1. CacheInv => CellsKept
  <2>1. CacheInv => CellInv
    BY DEF CacheInv, CellInv
  <2> QED BY <2>1, CellsAreKept
<1> QED BY <1>1, InitLists, StepKeepsCache, PTL DEF srcSpec

(* What the main loop reads is from one sender, in the order it was sent,   *)
(* up to the end of a message; nothing read before lies inside it, and at  *)
(* most one message read before was sent after it: one that the interrupt  *)
(* appended while the scan had passed this one unfinished.                 *)
THEOREM ReadsAreInOrder == srcSpec => []ReadInOrder
BY InitLists, StepKeepsCache, ReadIsOrdered, PTL DEF srcSpec
=============================================================================

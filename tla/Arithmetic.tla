----------------------------- MODULE Arithmetic -----------------------------
(* Facts about numbers that the proofs of several components cite. *)
EXTENDS Integers, WellFoundedInduction, TLAPS

(* A set of naturals that is not empty has a least member: every CHOOSE of *)
(* a least number in the models rests on this.                             *)
LEMMA LeastNat ==
    ASSUME NEW S \in SUBSET Nat, S # {}
    PROVE  \E o \in S : \A p \in S : o <= p
<1> DEFINE Less == {r \in Nat \X Nat : r[1] < r[2]}
<1>1. IsWellFoundedOn(Less, Nat)
  BY NatLessThanWellFounded DEF OpToRel
<1>2. PICK o \in S : \A p \in S : <<p, o>> \notin Less
  <2> HIDE DEF Less
  <2> QED BY <1>1, WFMin
<1>3. \A p \in S : ~(p < o)
  BY <1>2
<1> QED BY <1>3

(* Division with remainder. *)
LEMMA DivMod ==
    ASSUME NEW c \in Nat \ {0}, NEW a \in Int
    PROVE  /\ a % c \in 0..(c - 1)
           /\ a \div c \in Int
           /\ a = c * (a \div c) + (a % c)
<1>1. a % c \in 0..(c - 1)
  OBVIOUS
<1>2. a \div c \in Int
  OBVIOUS
<1>3. a % c = a - c * (a \div c)
  OBVIOUS
<1>4. c * (a \div c) \in Int
  BY <1>2
<1> QED BY <1>1, <1>2, <1>3, <1>4

(* There is only one remainder. *)
LEMMA ModUnique ==
    ASSUME NEW c \in Nat \ {0}, NEW q \in Int, NEW s \in 0..(c - 1)
    PROVE  (c * q + s) % c = s
<1> DEFINE a == c * q + s
           d == a \div c
           m == a % c
<1>0. a \in Int
  OBVIOUS
<1>1. d \in Int /\ m \in 0..(c - 1) /\ a = c * d + m
  BY <1>0, DivMod
<1> HIDE DEF d, m
<1>2. c * (q - d) = m - s
  BY <1>1
<1>3. q - d = 0
  <2>1. ~(q - d >= 1)
    <3>1. q - d >= 1 => c * (q - d) >= c
      BY <1>1
    <3> QED BY <1>1, <1>2, <3>1
  <2>2. ~(q - d <= -1)
    <3>1. q - d <= -1 => c * (q - d) <= -c
      BY <1>1
    <3> QED BY <1>1, <1>2, <3>1
  <2> QED BY <1>1, <2>1, <2>2
<1>4. m = s
  BY <1>1, <1>2, <1>3
<1> QED BY <1>4 DEF m

(* What is taken modulo c may be taken modulo c before. *)
LEMMA ModAdd ==
    ASSUME NEW c \in Nat \ {0}, NEW a \in Int, NEW b \in Int
    PROVE  ((a % c) + b) % c = (a + b) % c
<1> DEFINE d == a \div c
           m == a % c
           e == (m + b) \div c
           s == (m + b) % c
<1>1. d \in Int /\ m \in 0..(c - 1) /\ a = c * d + m
  BY DivMod
<1>2. e \in Int /\ s \in 0..(c - 1) /\ m + b = c * e + s
  BY <1>1, DivMod, SMTT(20)
<1> HIDE DEF d, e, s
<1>3. a + b = c * (d + e) + s
  BY <1>1, <1>2
<1>4. d + e \in Int
  BY <1>1, <1>2
<1>5. (c * (d + e) + s) % c = s
  BY <1>2, <1>4, ModUnique
<1> QED BY <1>3, <1>5 DEF s

(* Counting modulo a multiple of c loses nothing of the count modulo c. *)
LEMMA ModOfMultiple ==
    ASSUME NEW c \in Nat \ {0}, NEW n \in Nat \ {0}, NEW a \in Int
    PROVE  (a % (n * c)) % c = a % c
<1> DEFINE N == n * c
           d == a \div N
           m == a % N
           e == m \div c
           s == m % c
<1>0. N \in Nat \ {0}
  OBVIOUS
<1>1. d \in Int /\ m \in 0..(N - 1) /\ a = N * d + m
  BY <1>0, DivMod
<1> HIDE DEF d, m
<1>2. e \in Int /\ s \in 0..(c - 1) /\ m = c * e + s
  BY <1>0, <1>1, DivMod
<1> HIDE DEF e, s
<1>3. a = c * (n * d + e) + s
  BY <1>1, <1>2
<1>4. n * d + e \in Int
  BY <1>1, <1>2
<1>5. (c * (n * d + e) + s) % c = s
  BY <1>2, <1>4, ModUnique
<1> QED BY <1>3, <1>5 DEF s, m

(* Numbers less than c apart differ modulo c, unless they are the same. *)
LEMMA ModDistinct ==
    ASSUME NEW c \in Nat \ {0}, NEW a \in Int, NEW b \in Int,
           a < b, b < a + c
    PROVE  a % c # b % c
<1> DEFINE d == a \div c
           e == b \div c
           m == a % c
           s == b % c
<1>1. d \in Int /\ m \in 0..(c - 1) /\ a = c * d + m
  BY DivMod
<1>2. e \in Int /\ s \in 0..(c - 1) /\ b = c * e + s
  BY DivMod
<1> HIDE DEF d, e, m, s
<1>3. SUFFICES ASSUME m = s PROVE FALSE
  BY DEF m, s
<1>4. c * (e - d) = b - a
  BY <1>1, <1>2, <1>3
<1>5. e - d >= 1 => c * (e - d) >= c
  BY <1>1, <1>2
<1>6. e - d <= 0 => c * (e - d) <= 0
  BY <1>1, <1>2
<1> QED BY <1>1, <1>2, <1>4, <1>5, <1>6

(* A number below c is its own remainder. *)
LEMMA ModSmall ==
    ASSUME NEW c \in Nat \ {0}, NEW s \in 0..(c - 1)
    PROVE  s % c = s
<1>1. (c * 0 + s) % c = s
  BY ModUnique
<1>2. c * 0 + s = s
  OBVIOUS
<1> QED BY <1>1, <1>2

(* The difference of two numbers less than c apart, from their remainders. *)
LEMMA ModDifference ==
    ASSUME NEW c \in Nat \ {0}, NEW a \in Int, NEW b \in Int,
           a - b \in 0..(c - 1)
    PROVE  ((a % c) - (b % c)) % c = a - b
<1> DEFINE e == b \div c
           s == b % c
<1>1. e \in Int /\ s \in 0..(c - 1) /\ b = c * e + s
  BY DivMod
<1> HIDE DEF e, s
<1>2. ((a % c) + (-s)) % c = (a + (-s)) % c
  <2>1. -s \in Int
    BY <1>1
  <2> QED BY <2>1, ModAdd
<1>3. a + (-s) = c * e + (a - b)
  BY <1>1
<1>4. (c * e + (a - b)) % c = a - b
  BY <1>1, ModUnique
<1>5. (a % c) + (-s) = (a % c) - s
  BY <1>1
<1> QED BY <1>2, <1>3, <1>4, <1>5 DEF s

(* One step on in a ring of c places: what lay k behind the old read index *)
(* lies k + 1 behind the new one, and only the place written is written.   *)
LEMMA IndexStep ==
    ASSUME NEW c \in Nat \ {0}, NEW i \in 0..(c - 1)
    PROVE  /\ (i + 1) % c \in 0..(c - 1)
           /\ (((i + 1) % c) + c - 1) % c = i
           /\ \A k \in 1..(c - 1) :
                /\ (((i + 1) % c) + c - (k + 1)) % c = (i + c - k) % c
                /\ (i + c - k) % c \in 0..(c - 1)
                /\ (i + c - k) % c # i
<1>0. i \in Int /\ i + 1 \in Int /\ c \in Int
  OBVIOUS
<1>1. (i + 1) % c \in 0..(c - 1) /\ i % c = i
  BY <1>0, ModSmall, DivMod
<1>2. ASSUME NEW b \in Int
      PROVE  (((i + 1) % c) + b) % c = (i + 1 + b) % c
  BY <1>0, ModAdd
<1>3. (i + c) % c = i
  <2>1. (c * 1 + i) % c = i
    BY ModUnique
  <2>2. c * 1 + i = i + c
    OBVIOUS
  <2> QED BY <2>1, <2>2
<1>4. (((i + 1) % c) + c - 1) % c = i
  <2>1. c - 1 \in Int
    OBVIOUS
  <2>2. (((i + 1) % c) + (c - 1)) % c = (i + 1 + (c - 1)) % c
    BY <1>2, <2>1
  <2>3. /\ ((i + 1) % c) + (c - 1) = ((i + 1) % c) + c - 1
        /\ i + 1 + (c - 1) = i + c
    BY <1>1
  <2> QED BY <1>3, <2>2, <2>3
<1>5. ASSUME NEW k \in 1..(c - 1)
      PROVE  /\ (((i + 1) % c) + c - (k + 1)) % c = (i + c - k) % c
             /\ (i + c - k) % c \in 0..(c - 1)
             /\ (i + c - k) % c # i
  <2>0. c - (k + 1) \in Int /\ i + c - k \in Int /\ i + c \in Int
    OBVIOUS
  <2>1. (((i + 1) % c) + (c - (k + 1))) % c = (i + 1 + (c - (k + 1))) % c
    BY <1>2, <2>0
  <2>2. /\ ((i + 1) % c) + (c - (k + 1)) = ((i + 1) % c) + c - (k + 1)
        /\ i + 1 + (c - (k + 1)) = i + c - k
    BY <1>1
  <2>3. (i + c - k) % c # (i + c) % c
    <3>1. i + c - k < i + c /\ i + c < (i + c - k) + c
      OBVIOUS
    <3> QED BY <2>0, <3>1, ModDistinct
  <2> QED BY <1>3, <2>0, <2>1, <2>2, <2>3, DivMod
<1> QED BY <1>1, <1>4, <1>5
=============================================================================

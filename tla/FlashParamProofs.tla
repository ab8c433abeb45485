-------------------------- MODULE FlashParamProofs --------------------------
(* The flash parameter manager with any parameters, table sizes and flash:  *)
(* its types, that no sector is handed out twice, that a save that          *)
(* succeeded can be read back whenever power failed before, and that it     *)
(* implements ParamStore: no power failure costs more than the oldest       *)
(* sector of one history, which is read back newest value first.            *)
EXTENDS FlashParamStore, Arithmetic, FiniteSetTheorems, FunctionTheorems, TLAPS

(* The assumptions, one by one. *)
LEMMA ParamSizes ==
    /\ Slots \in Nat \ {0} /\ SectorUnits \in Nat \ {0, 1}
    /\ PartSectors \in Nat /\ IndexMod \in Nat \ {0}
    /\ \A p \in Params : /\ SecTabSize[p] \in Nat \ {0, 1}
                         /\ SecTabSize[p] < IndexMod \div 2
    /\ AppendTears \in BOOLEAN
<1>1. Slots \in Nat \ {0}
  BY ParamsAssumption
<1>2. SectorUnits \in Nat \ {0, 1}
  BY <1>1 DEF SectorUnits
<1> QED BY <1>1, <1>2, ParamsAssumption, PartAssumption

(* Flash *)

Cells == Headers \cup Values \cup {Erased, Junk}
Flash == [0..(PartSectors * SectorUnits - 1) -> Cells]

LEMMA CellsApart ==
    /\ \A h \in Headers : h \notin Values /\ h \notin {Erased, Junk}
    /\ \A v \in Values : v \notin Headers /\ v \notin {Erased, Junk}
    /\ Erased # Junk /\ {Erased, Junk} \subseteq Cells
    /\ Headers \subseteq Cells /\ Values \subseteq Cells
BY PartAssumption, CellKinds DEF Cells

LEMMA AddrIs ==
    ASSUME NEW s \in Sectors, NEW k \in 0..Slots
    PROVE  /\ Addr(s, k) \in 0..(PartSectors * SectorUnits - 1)
           /\ Addr(s, k) \div SectorUnits = s /\ Addr(s, k) % SectorUnits = k
<1> DEFINE U == SectorUnits
<1>0. U \in Nat \ {0} /\ PartSectors \in Nat /\ k \in 0..(U - 1)
  BY ParamSizes DEF SectorUnits
<1>1. s \in Nat /\ s <= PartSectors - 1
  BY <1>0 DEF Sectors
<1> HIDE DEF U
<1>2. U * s <= U * (PartSectors - 1)
  BY <1>0, <1>1
<1>3. U * (PartSectors - 1) = PartSectors * U - U /\ U * s \in Nat /\ s * U = U * s
  BY <1>0, <1>1
<1>4. U * s + k \in 0..(PartSectors * U - 1)
  BY <1>0, <1>2, <1>3
<1>5. (U * s + k) % U = k
  BY <1>0, <1>1, ModUnique
<1>6. (U * s + k) \div U = s
  <2> DEFINE d == (U * s + k) \div U
  <2>1. U * s + k \in Int
    BY <1>0, <1>3
  <2>2. d \in Int /\ U * s + k = U * d + k
    BY <1>0, <1>5, <2>1, DivMod
  <2> HIDE DEF d
  <2>3. U * (d - s) = 0
    BY <1>0, <1>1, <2>2
  <2>4. d - s = 0
    BY <1>0, <1>1, <2>2, <2>3
  <2> QED BY <1>1, <2>2, <2>4 DEF d
<1> QED BY <1>3, <1>4, <1>5, <1>6 DEF Addr, U

LEMMA AddrDistinct ==
    ASSUME NEW s \in Sectors, NEW k \in 0..Slots,
           NEW t \in Sectors, NEW l \in 0..Slots, Addr(s, k) = Addr(t, l)
    PROVE  s = t /\ k = l
BY AddrIs

(* The units of a sector are its own. *)
LEMMA UnitsAre ==
    ASSUME NEW s \in Sectors, NEW t \in Sectors, NEW k \in 0..Slots
    PROVE  Addr(t, k) \in Units(s) <=> t = s
<1> DEFINE U == SectorUnits
<1>0. U \in Nat \ {0} /\ U = Slots + 1 /\ Slots \in Nat /\ s \in Int /\ t \in Int
  BY ParamSizes DEF SectorUnits, Sectors
<1> HIDE DEF U
<1>1. Units(s) = (s * U)..(s * U + Slots) /\ Addr(t, k) = t * U + k
  BY <1>0 DEF Units, Addr, U
<1>2. s * U \in Int /\ t * U \in Int
  BY <1>0
<1>3. CASE t = s
  BY <1>0, <1>1, <1>2, <1>3
<1>4. CASE t < s
  <2>1. t * U <= (s - 1) * U
    BY <1>0, <1>4
  <2>2. (s - 1) * U = s * U - U
    BY <1>0
  <2> QED BY <1>0, <1>1, <1>2, <1>4, <2>1, <2>2
<1>5. CASE t > s
  <2>1. t * U >= (s + 1) * U
    BY <1>0, <1>5
  <2>2. (s + 1) * U = s * U + U
    BY <1>0
  <2> QED BY <1>0, <1>1, <1>2, <1>5, <2>1, <2>2
<1> QED BY <1>0, <1>3, <1>4, <1>5
-----------------------------------------------------------------------------
(* What writing, erasing and losing power make of the flash, cell by cell. *)
LEMMA PutIs ==
    ASSUME NEW f \in Flash, NEW s \in Sectors, NEW k \in 0..Slots,
           NEW c \in Cells, NEW g, g = Put(f, s, k, c)
    PROVE  /\ g \in Flash
           /\ \A t \in Sectors, l \in 0..Slots :
                g[Addr(t, l)] = IF t = s /\ l = k THEN Program(f[Addr(s, k)], c)
                                ELSE f[Addr(t, l)]
<1> DEFINE a == Addr(s, k)
           D == 0..(PartSectors * SectorUnits - 1)
<1>1. a \in D /\ DOMAIN f = D
  BY AddrIs DEF Flash
<1>2. a >= 0 /\ a + 1 - 1 = a /\ a..(a + 1 - 1) = {a}
  BY <1>1
<1>3. g = [u \in D |-> IF u = a THEN Program(f[a], c) ELSE f[u]]
  <2>1. Fits(f, a, 1)
    BY <1>1, <1>2 DEF Fits
  <2>2. g = [u \in D |-> IF u \in {a} THEN Program(f[u], [x \in {a} |-> c][u])
                         ELSE f[u]]
    BY <1>1, <1>2, <2>1 DEF Put, flash_part_write
  <2> QED BY <2>2
<1> HIDE DEF a
<1>4. Program(f[a], c) \in Cells /\ \A u \in D : f[u] \in Cells
  BY <1>1, CellsApart DEF Program, Flash
<1>5. g \in Flash
  BY <1>3, <1>4 DEF Flash
<1>6. ASSUME NEW t \in Sectors, NEW l \in 0..Slots
      PROVE  g[Addr(t, l)] = IF t = s /\ l = k THEN Program(f[a], c)
                             ELSE f[Addr(t, l)]
  <2>1. Addr(t, l) \in D /\ (Addr(t, l) = a <=> t = s /\ l = k)
    BY AddrIs, AddrDistinct DEF a
  <2> QED BY <1>3, <2>1
<1> QED BY <1>5, <1>6 DEF a

LEMMA EraseIs ==
    ASSUME NEW f \in Flash, NEW s \in Sectors,
           NEW g, g = flash_part_erase_len(f, Addr(s, 0), SectorUnits)
    PROVE  /\ g \in Flash
           /\ \A t \in Sectors, l \in 0..Slots :
                g[Addr(t, l)] = IF t = s THEN Erased ELSE f[Addr(t, l)]
<1> DEFINE D == 0..(PartSectors * SectorUnits - 1)
           a == Addr(s, 0)
           b == Addr(s, Slots)
<1>0. 0 \in 0..Slots /\ Slots \in 0..Slots /\ SectorUnits = Slots + 1
      /\ Slots \in Nat
  BY ParamSizes DEF SectorUnits
<1>1. a \in D /\ b \in D /\ DOMAIN f = D
  BY <1>0, AddrIs DEF Flash
<1>2. b = a + SectorUnits - 1 /\ a \in Nat
  <2>1. s * SectorUnits \in Int
    BY ParamSizes DEF Sectors
  <2> QED BY <1>0, <1>1, <2>1 DEF Addr
<1>3. Fits(f, a, SectorUnits)
  BY <1>1, <1>2 DEF Fits
<1>4. g = [u \in D |-> IF u \in Units(s) THEN Erased ELSE f[u]]
  BY <1>1, <1>2, <1>3 DEF flash_part_erase_len, Units
<1>5. g \in Flash
  BY <1>4, CellsApart DEF Flash
<1>6. ASSUME NEW t \in Sectors, NEW l \in 0..Slots
      PROVE  g[Addr(t, l)] = IF t = s THEN Erased ELSE f[Addr(t, l)]
  <2>1. Addr(t, l) \in D /\ (Addr(t, l) \in Units(s) <=> t = s)
    BY AddrIs, UnitsAre
  <2> QED BY <1>4, <2>1
<1> QED BY <1>5, <1>6

LEMMA SweepIs ==
    ASSUME NEW f \in Flash, NEW swept \in SUBSET Sectors,
           NEW g, g = SweptPart(f, swept)
    PROVE  /\ g \in Flash
           /\ \A t \in Sectors, l \in 0..Slots :
                g[Addr(t, l)] = IF t \in swept THEN Erased ELSE f[Addr(t, l)]
<1> DEFINE D == 0..(PartSectors * SectorUnits - 1)
<1>1. DOMAIN f = D
  BY DEF Flash
<1>2. g = [u \in D |-> IF \E s \in swept : u \in Units(s) THEN Erased ELSE f[u]]
  BY <1>1 DEF SweptPart
<1>3. g \in Flash
  BY <1>2, CellsApart DEF Flash
<1>4. ASSUME NEW t \in Sectors, NEW l \in 0..Slots
      PROVE  g[Addr(t, l)] = IF t \in swept THEN Erased ELSE f[Addr(t, l)]
  <2>1. /\ Addr(t, l) \in D
        /\ (\E s \in swept : Addr(t, l) \in Units(s)) <=> t \in swept
    BY AddrIs, UnitsAre
  <2> QED BY <1>2, <2>1
<1> QED BY <1>3, <1>4

(* A sector half erased: its header is what it was, or cannot be read; what *)
(* its slots hold is what they held, or nothing.                           *)
LEMMA HalfErasedIs ==
    ASSUME NEW f \in Flash, NEW s \in Sectors, NEW g \in HalfErased(f, s)
    PROVE  /\ g \in Flash
           /\ \A t \in Sectors, l \in 0..Slots :
                t # s => g[Addr(t, l)] = f[Addr(t, l)]
           /\ \A l \in 0..Slots : g[Addr(s, l)] \in {f[Addr(s, l)], Junk}
<1> DEFINE D == 0..(PartSectors * SectorUnits - 1)
<1>1. DOMAIN f = D
  BY DEF Flash
<1>2. PICK left \in SUBSET Units(s) :
        g = [a \in D |-> IF a \in Units(s) \ left THEN Junk ELSE f[a]]
  BY <1>1 DEF HalfErased
<1>3. g \in Flash
  BY <1>2, CellsApart DEF Flash
<1>4. ASSUME NEW t \in Sectors, NEW l \in 0..Slots
      PROVE  /\ t # s => g[Addr(t, l)] = f[Addr(t, l)]
             /\ g[Addr(t, l)] \in {f[Addr(t, l)], Junk}
  <2>1. Addr(t, l) \in D /\ (Addr(t, l) \in Units(s) <=> t = s)
    BY AddrIs, UnitsAre
  <2> QED BY <1>2, <2>1
<1> QED BY <1>3, <1>4

(* One cell spoilt. *)
Spoilt(f, s, k) == [f EXCEPT ![Addr(s, k)] = Junk]

LEMMA SpoiltIs ==
    ASSUME NEW f \in Flash, NEW s \in Sectors, NEW k \in 0..Slots,
           NEW g, g = Spoilt(f, s, k)
    PROVE  /\ g \in Flash
           /\ \A t \in Sectors, l \in 0..Slots :
                g[Addr(t, l)] = IF t = s /\ l = k THEN Junk ELSE f[Addr(t, l)]
<1> DEFINE D == 0..(PartSectors * SectorUnits - 1)
           a == Addr(s, k)
<1>1. DOMAIN f = D /\ a \in D
  BY AddrIs DEF Flash
<1>2. g = [f EXCEPT ![a] = Junk]
  BY DEF Spoilt
<1> HIDE DEF a
<1>3. g \in Flash
  BY <1>1, <1>2, CellsApart DEF Flash
<1>4. ASSUME NEW t \in Sectors, NEW l \in 0..Slots
      PROVE  g[Addr(t, l)] = IF t = s /\ l = k THEN Junk ELSE f[Addr(t, l)]
  <2>1. Addr(t, l) \in D /\ (Addr(t, l) = a <=> t = s /\ l = k)
    BY AddrIs, AddrDistinct DEF a
  <2> QED BY <1>1, <1>2, <2>1 DEF Flash
<1> QED BY <1>3, <1>4
-----------------------------------------------------------------------------
(* Numberings *)

LEMMA UpToCount ==
    ASSUME NEW n \in Nat
    PROVE  /\ IsFiniteSet(1..n) /\ Cardinality(1..n) = n
           /\ IsFiniteSet(0..(n - 1)) /\ Cardinality(0..(n - 1)) = n
<1>1. 0 \in Int /\ 1 \in Int /\ n \in Int /\ n - 1 \in Int
  OBVIOUS
<1>2. IsFiniteSet(1..n) /\ Cardinality(1..n) = IF 1 > n THEN 0 ELSE n - 1 + 1
  BY <1>1, FS_Interval, Zenon
<1>3. /\ IsFiniteSet(0..(n - 1))
      /\ Cardinality(0..(n - 1)) = IF 0 > n - 1 THEN 0 ELSE (n - 1) - 0 + 1
  BY <1>1, FS_Interval, Zenon
<1> QED BY <1>2, <1>3

LEMMA RowCount ==
    ASSUME NEW p, NEW n \in Nat
    PROVE  IsFiniteSet({p} \X (1..n)) /\ Cardinality({p} \X (1..n)) = n
<1> DEFINE A == {p}
           B == 1..n
<1>1. /\ IsFiniteSet(A) /\ Cardinality(A) = 1
      /\ IsFiniteSet(B) /\ Cardinality(B) = n
  BY UpToCount, FS_Singleton
<1> HIDE DEF A, B
<1>2. IsFiniteSet(A \X B) /\ Cardinality(A \X B) = Cardinality(A) * Cardinality(B)
  BY <1>1, FS_Product, Zenon
<1> QED BY <1>1, <1>2 DEF A, B

(* h numbers the members of S from 0 to n - 1. *)
Numbers(h, S, n) ==
    /\ h \in [S -> 0..(n - 1)]
    /\ \A s, t \in S : h[s] = h[t] => s = t
    /\ \A a \in 0..(n - 1) : \E s \in S : h[s] = a

LEMMA NumberedSet ==
    ASSUME NEW S, NEW n \in Nat, NEW h, Numbers(h, S, n)
    PROVE  IsFiniteSet(S) /\ Cardinality(S) = n
<1>1. h \in Bijection(S, 0..(n - 1))
  BY Fun_IsBij DEF Numbers
<1>2. ExistsBijection(0..(n - 1), S)
  <2>1. ExistsBijection(S, 0..(n - 1))
    BY <1>1, Fun_ExistsBij
  <2> QED BY <2>1, Fun_ExistsBijSymmetric
<1>3. IsFiniteSet(0..(n - 1)) /\ Cardinality(0..(n - 1)) = n
  BY FS_Interval
<1> QED BY <1>2, <1>3, FS_Bijection

(* As many have a lower number as the number says. *)
Lower(h, S, s) == {t \in S : h[t] < h[s]}

LEMMA HowManyLower ==
    ASSUME NEW S, NEW n \in Nat, NEW h, Numbers(h, S, n), NEW s \in S
    PROVE  Cardinality(Lower(h, S, s)) = h[s]
<1> DEFINE T == Lower(h, S, s)
           g == [t \in T |-> h[t]]
<1>1. h[s] \in 0..(n - 1)
  BY DEF Numbers
<1>2. Numbers(g, T, h[s])
  <2>1. \A t \in T : t \in S /\ h[t] \in 0..(n - 1) /\ h[t] < h[s] /\ g[t] = h[t]
    BY DEF Numbers, Lower
  <2>2. g \in [T -> 0..(h[s] - 1)]
    BY <1>1, <2>1
  <2>3. \A t, u \in T : g[t] = g[u] => t = u
    BY <2>1 DEF Numbers
  <2>4. ASSUME NEW a \in 0..(h[s] - 1)
        PROVE  \E t \in T : g[t] = a
    <3>1. a \in 0..(n - 1) /\ a < h[s]
      BY <1>1
    <3>2. PICK t \in S : h[t] = a
      BY <3>1 DEF Numbers
    <3> QED BY <3>1, <3>2 DEF Lower
  <2> HIDE DEF g, T
  <2> QED BY <2>2, <2>3, <2>4 DEF Numbers
<1> HIDE DEF g
<1> QED BY <1>1, <1>2, NumberedSet

(* Two numberings of a set in one order are the same. *)
LEMMA SameOrder ==
    ASSUME NEW S, NEW n \in Nat, NEW h, Numbers(h, S, n),
           NEW m \in Nat, NEW i, Numbers(i, S, m),
           \A a, b \in S : h[a] < h[b] <=> i[a] < i[b]
    PROVE  n = m /\ \A a \in S : h[a] = i[a]
<1>1. n = m
  <2>1. Cardinality(S) = n /\ Cardinality(S) = m
    BY NumberedSet
  <2> QED BY <2>1
<1>2. ASSUME NEW a \in S
      PROVE  h[a] = i[a]
  <2>1. Lower(h, S, a) = Lower(i, S, a)
    BY DEF Lower
  <2>2. Cardinality(Lower(h, S, a)) = h[a] /\ Cardinality(Lower(i, S, a)) = i[a]
    BY HowManyLower
  <2> QED BY <2>1, <2>2
<1> QED BY <1>1, <1>2

(* The number k - 1 is one element's, which Nth finds. *)
LEMMA NumberedIsChosen ==
    ASSUME NEW S, NEW n \in Nat, NEW h, Numbers(h, S, n), NEW k \in 1..n
    PROVE  /\ \E s \in S : Cardinality(Lower(h, S, s)) = k - 1
           /\ \A s \in S : Cardinality(Lower(h, S, s)) = k - 1 => h[s] = k - 1
<1>1. k - 1 \in 0..(n - 1)
  OBVIOUS
<1>2. PICK x \in S : h[x] = k - 1
  BY <1>1 DEF Numbers
<1>3. Cardinality(Lower(h, S, x)) = k - 1
  BY <1>2, HowManyLower
<1> QED BY <1>3, HowManyLower

(* The members of a finite set of numbers, numbered upward. *)
Ranks(S) == [s \in S |-> Cardinality({t \in S : t < s})]

LEMMA RanksNumber ==
    ASSUME NEW S \in SUBSET Int, IsFiniteSet(S)
    PROVE  /\ Numbers(Ranks(S), S, Cardinality(S))
           /\ Cardinality(S) \in Nat
           /\ \A s, t \in S : s < t <=> Ranks(S)[s] < Ranks(S)[t]
<1> DEFINE n == Cardinality(S)
           B(s) == {t \in S : t < s}
           h == Ranks(S)
<1>1. n \in Nat
  BY FS_CardinalityType
<1>2. ASSUME NEW s \in S
      PROVE  /\ IsFiniteSet(B(s)) /\ Cardinality(B(s)) \in Nat
             /\ Cardinality(B(s)) < n /\ h[s] = Cardinality(B(s))
  <2>1. B(s) \in SUBSET S /\ s \in S \ B(s)
    OBVIOUS
  <2>2. IsFiniteSet(B(s)) /\ Cardinality(B(s)) <= n /\ Cardinality(B(s)) # n
    BY <2>1, FS_Subset
  <2>3. Cardinality(B(s)) \in Nat
    BY <2>2, FS_CardinalityType
  <2> QED BY <1>1, <2>2, <2>3 DEF Ranks
<1>3. ASSUME NEW s \in S, NEW t \in S, s < t
      PROVE  h[s] < h[t]
  <2>0. s \in Int /\ t \in Int /\ \A u \in S : u \in Int
    OBVIOUS
  <2>a. ~(s < s) /\ \A u \in S : u < s => u < t
    BY <1>3, <2>0
  <2>1. B(s) \in SUBSET B(t) /\ s \in B(t) \ B(s)
    BY <1>3, <2>a, Zenon
  <2>2. Cardinality(B(s)) <= Cardinality(B(t)) /\ Cardinality(B(s)) # Cardinality(B(t))
    BY <1>2, <2>1, FS_Subset
  <2> QED BY <1>2, <2>2
<1>4. h \in [S -> 0..(n - 1)]
  <2>1. ASSUME NEW s \in S
        PROVE  h[s] \in 0..(n - 1)
    <3>1. Cardinality(B(s)) \in Nat /\ Cardinality(B(s)) < n /\ h[s] = Cardinality(B(s))
      BY <1>2
    <3> HIDE DEF h, B, n
    <3> QED BY <1>1, <3>1
  <2> QED BY <2>1 DEF Ranks
<1>5. \A s, t \in S : h[s] = h[t] => s = t
  <2>1. ASSUME NEW s \in S
        PROVE  s \in Int /\ h[s] \in Int
    <3>1. h[s] \in 0..(n - 1)
      BY <1>4
    <3> HIDE DEF h, n
    <3> QED BY <3>1, <1>1
  <2> HIDE DEF h
  <2>2. \A s, t \in S : s < t \/ s = t \/ t < s
    BY <2>1
  <2> QED BY <2>1, <2>2, <1>3
<1> HIDE DEF h
<1>6. \A a \in 0..(n - 1) : \E s \in S : h[s] = a
  <2>1. h \in Injection(S, 0..(n - 1))
    BY <1>4, <1>5, Fun_IsInj
  <2>2. IsFiniteSet(0..(n - 1)) /\ Cardinality(0..(n - 1)) = n
    BY <1>1, UpToCount, Zenon
  <2>3. h \in Surjection(S, 0..(n - 1))
    BY <2>1, <2>2, FS_Injection
  <2> DEFINE T == 0..(n - 1)
  <2> HIDE DEF T
  <2>4. h \in Surjection(S, T)
    BY <2>3 DEF T
  <2>5. \A a \in T : \E s \in S : h[s] = a
    BY <2>4 DEF Surjection
  <2> QED BY <2>5 DEF T
<1>7. Numbers(h, S, n)
  BY <1>4, <1>5, <1>6 DEF Numbers
<1>8. \A s, t \in S : s < t <=> h[s] < h[t]
  <2>1. \A s \in S : s \in Int /\ h[s] \in Int
    BY <1>4
  <2>2. \A s, t \in S : s < t \/ s = t \/ t < s
    BY <2>1
  <2> QED BY <2>1, <2>2, <1>3
<1> QED BY <1>1, <1>7, <1>8 DEF h

-----------------------------------------------------------------------------
(* The invariant *)

(* The sectors with a header of p, and how long ago the header of one was   *)
(* written, counted in sectors of the same parameter from save index c on.  *)
Own(f, p) == {s \in Sectors : read_info(f, s) /\ f[Addr(s, 0)].param = p}
Age(f, s, c) == (c - f[Addr(s, 0)].index) % IndexMod

(* Sectors of the ages 0 to n - 1, one of each. *)
Chain(f, S, c, n) ==
    /\ \A s \in S : Age(f, s, c) \in 0..(n - 1)
    /\ \A s, t \in S : Age(f, s, c) = Age(f, t, c) => s = t
    /\ \A a \in 0..(n - 1) : \E s \in S : Age(f, s, c) = a

HasValue(f, s) == read_data(f, s, 1)

(* What may be appended to: values, and behind them blank slots. *)
Filling(f, s, n) ==
    \A k \in 1..Slots :
        IF k <= n THEN read_data(f, s, k) ELSE f[Addr(s, k)] = Erased
Clean(f, p, s) ==
    \/ AppendTears \/ p \in Normal
    \/ \E n \in 0..Slots : Filling(f, s, n)

(* What init will find of p: sectors in a chain.  One may be without a      *)
(* value: the newest, whose header was just written, or the oldest, which   *)
(* was being erased.  The newest with a value may be appended to.           *)
OneIsEmpty(f, p, c, n) ==
    \/ n >= 2 /\ \A s \in Own(f, p) : Age(f, s, c) < n - 1 => HasValue(f, s)
    \/ \A s \in Own(f, p) : Age(f, s, c) # 0 => HasValue(f, s)
NewestIsClean(f, p, c) ==
    \A s \in Own(f, p) :
        /\ HasValue(f, s)
        /\ \A t \in Own(f, p) : HasValue(f, t) => Age(f, s, c) <= Age(f, t, c)
        => Clean(f, p, s)
FlashInv(f, p) ==
    \E c \in 0..(IndexMod - 1), n \in 0..SecTabSize[p] :
        /\ Chain(f, Own(f, p), c, n)
        /\ OneIsEmpty(f, p, c, n)
        /\ NewestIsClean(f, p, c)

(* The tables while the program runs, of p with table t and save_sector v:  *)
(* going back from entry v, the entries are those of the chain, newest      *)
(* first, and then the empty ones.                                          *)
Back(p, v, k) == (v - k) % SecTabSize[p]
EntryInv(f, p, e, a, c) ==
    /\ e.num \in 1..Slots /\ e.index = (c - a) % IndexMod
    /\ f[Addr(e.sector, 0)] = [param |-> p, index |-> e.index]
    /\ HasValue(f, e.sector)
AppendsFit(f, p, e) ==
    AppendTears \/ p \in Normal \/ Filling(f, e.sector, e.num)
TabIs(f, p, t, v, c, n) ==
    /\ \A k \in 1..SecTabSize[p] :
         IF Back(p, v, k) < n THEN EntryInv(f, p, t[k], Back(p, v, k), c)
         ELSE t[k].num = 0
    /\ \A s \in Own(f, p) :
         \E k \in 1..SecTabSize[p] : Back(p, v, k) < n /\ t[k].sector = s
    /\ n > 0 => AppendsFit(f, p, t[v])
TabInv(f, p, t, v) ==
    \E c \in 0..(IndexMod - 1), n \in 0..SecTabSize[p] : TabIs(f, p, t, v, c, n)

ParamInv ==
    /\ TypeOK
    /\ IF on THEN SectorsApart /\ \A p \in Params : TabInv(part, p, tab[p], save[p])
             ELSE \A p \in Params : FlashInv(part, p)
-----------------------------------------------------------------------------
(* Ages *)

LEMMA IndexOfAge ==
    ASSUME NEW c \in Int, NEW i \in 0..(IndexMod - 1)
    PROVE  /\ (c - i) % IndexMod \in 0..(IndexMod - 1)
           /\ (c - ((c - i) % IndexMod)) % IndexMod = i
<1> DEFINE M == IndexMod
           e == (c - i) \div M
           a == (c - i) % M
<1>1. M \in Nat \ {0} /\ c - i \in Int
  BY ParamSizes
<1>2. e \in Int /\ a \in 0..(M - 1) /\ c - i = M * e + a
  BY <1>1, DivMod
<1> HIDE DEF M, e, a
<1>3. c - a = M * e + i /\ i \in 0..(M - 1)
  BY <1>1, <1>2 DEF M
<1>4. (c - a) % M = i
  BY <1>1, <1>2, <1>3, ModUnique
<1> QED BY <1>2, <1>4 DEF M, a

(* Counted from another index, ages are shifted. *)
LEMMA AgeMoved ==
    ASSUME NEW c \in Int, NEW i \in Int, NEW d \in Int,
           ((c - i) % IndexMod) + d \in 0..(IndexMod - 1)
    PROVE  (((c + d) % IndexMod) - i) % IndexMod = ((c - i) % IndexMod) + d
<1> DEFINE M == IndexMod
           a == (c - i) % M
<1>1. M \in Nat \ {0} /\ c + d \in Int /\ c - i \in Int /\ 0 - i \in Int
  BY ParamSizes
<1>2. a \in Int
  BY <1>1, DivMod
<1>3. (((c + d) % M) + (0 - i)) % M = ((c + d) + (0 - i)) % M
  <2> DEFINE e == c + d
             g == 0 - i
  <2>1. e \in Int /\ g \in Int
    BY <1>1
  <2> HIDE DEF e, g, M
  <2>2. ((e % M) + g) % M = (e + g) % M
    BY <1>1, <2>1, ModAdd
  <2> QED BY <2>2 DEF e, g
<1>4. (a + d) % M = ((c - i) + d) % M
  BY <1>1, ModAdd
<1>5. (a + d) % M = a + d
  BY <1>1, ModSmall
<1>6. (c + d) % M \in Int
  BY <1>1, DivMod
<1>7. (c + d) + (0 - i) = (c - i) + d /\ ((c + d) % M) + (0 - i) = ((c + d) % M) - i
  BY <1>6
<1> HIDE DEF M, a
<1> QED BY <1>3, <1>4, <1>5, <1>7 DEF M, a

(* The distance of two indices is that of the ages. *)
LEMMA IndexDistance ==
    ASSUME NEW c \in Int, NEW i \in 0..(IndexMod - 1), NEW j \in 0..(IndexMod - 1)
    PROVE  (i - j) % IndexMod =
              (((c - j) % IndexMod) - ((c - i) % IndexMod)) % IndexMod
<1> DEFINE M == IndexMod
           a == (c - i) % M
           b == (c - j) % M
<1>1. M \in Nat \ {0} /\ c - i \in Int /\ c - j \in Int /\ i \in Int /\ j \in Int
  BY ParamSizes
<1>2. a \in Int /\ b \in Int /\ c - a \in Int
  BY <1>1, DivMod
<1>3. (c - a) % M = i
  BY IndexOfAge
<1> HIDE DEF M, a, b
<1>4. (((c - a) % M) + (0 - j)) % M = ((c - a) + (0 - j)) % M
  <2> DEFINE e == c - a
             g == 0 - j
  <2>1. e \in Int /\ g \in Int
    BY <1>1, <1>2
  <2> HIDE DEF e, g
  <2>2. ((e % M) + g) % M = (e + g) % M
    BY <1>1, <2>1, ModAdd
  <2> QED BY <2>2 DEF e, g
<1>5. (b + (0 - a)) % M = ((c - j) + (0 - a)) % M
  <2> DEFINE e == c - j
             g == 0 - a
  <2>1. e \in Int /\ g \in Int
    BY <1>1, <1>2
  <2>2. b = e % M
    BY DEF b
  <2> HIDE DEF e, g
  <2>3. ((e % M) + g) % M = (e + g) % M
    BY <1>1, <2>1, ModAdd
  <2> QED BY <2>2, <2>3 DEF e, g
<1>6. (c - a) + (0 - j) = (c - j) + (0 - a) /\ i + (0 - j) = i - j /\ b + (0 - a) = b - a
  BY <1>1, <1>2
<1> QED BY <1>3, <1>4, <1>5, <1>6 DEF M, a, b

(* param_sort: of two sectors of a chain that is shorter than half the      *)
(* index range, the one with the greater age is the older one.              *)
LEMMA OlderIs ==
    ASSUME NEW f, NEW s, NEW t, NEW c \in Int, NEW n \in Nat,
           f[Addr(s, 0)].index \in 0..(IndexMod - 1),
           f[Addr(t, 0)].index \in 0..(IndexMod - 1),
           n < IndexMod \div 2,
           Age(f, s, c) \in 0..(n - 1), Age(f, t, c) \in 0..(n - 1),
           Age(f, s, c) = Age(f, t, c) => s = t
    PROVE  Older(f, s, t) <=> Age(f, t, c) < Age(f, s, c)
<1> DEFINE M == IndexMod
           h == IndexMod \div 2
           i == f[Addr(s, 0)].index
           j == f[Addr(t, 0)].index
           a == Age(f, s, c)
           b == Age(f, t, c)
           d == (j - i) % IndexMod
<1>1. M \in Nat \ {0} /\ h \in Nat /\ 2 * h <= M
  BY ParamSizes
<1>2. d = (a - b) % M
  BY IndexDistance DEF Age
<1>3. Older(f, s, t) <=> s # t /\ d < h - 1
  BY DEF Older, Younger
<1>4. s = t => a = b
  OBVIOUS
<1>5. a \in 0..(n - 1) /\ b \in 0..(n - 1) /\ n < h /\ (a = b => s = t)
  OBVIOUS
<1> HIDE DEF M, h, i, j, a, b, d
<1>6. CASE a = b
  <2>1. s = t
    BY <1>5, <1>6
  <2> QED BY <1>3, <1>5, <1>6, <2>1 DEF a, b
<1>7. CASE b < a
  <2>1. a - b \in 0..(M - 1)
    BY <1>1, <1>5, <1>7
  <2>2. d = a - b
    BY <1>1, <1>2, <2>1, ModSmall
  <2>3. d < h - 1 /\ a # b
    BY <1>1, <1>5, <1>7, <2>2
  <2> QED BY <1>3, <1>4, <1>7, <2>3 DEF a, b
<1>8. CASE a < b
  <2>1. M * (0 - 1) + ((a - b) + M) = a - b /\ (a - b) + M \in 0..(M - 1)
    BY <1>1, <1>5, <1>8
  <2>2. d = (a - b) + M
    BY <1>1, <1>2, <2>1, ModUnique
  <2>3. ~(d < h - 1) /\ ~(b < a)
    BY <1>1, <1>5, <1>8, <2>2
  <2> QED BY <1>3, <2>3 DEF a, b
<1> QED BY <1>5, <1>6, <1>7, <1>8

(* Sectors of a parameter *)

LEMMA OwnIs ==
    ASSUME NEW f, NEW p
    PROVE  \A s \in Own(f, p) :
             /\ s \in Sectors /\ s \in Int /\ read_info(f, s)
             /\ f[Addr(s, 0)] \in Headers
             /\ f[Addr(s, 0)].param = p /\ f[Addr(s, 0)].index \in 0..(IndexMod - 1)
             /\ f[Addr(s, 0)] = [param |-> p, index |-> f[Addr(s, 0)].index]
BY DEF Own, Sectors, read_info, Headers

LEMMA ChainNumbers ==
    ASSUME NEW f, NEW S, NEW c, NEW n, Chain(f, S, c, n)
    PROVE  Numbers([s \in S |-> Age(f, s, c)], S, n)
BY DEF Chain, Numbers

(* search_data_num counts the values up to the first slot without one, and  *)
(* of a normal parameter no more than one.                                  *)
LEMMA NumCounts ==
    ASSUME NEW f, NEW s, NEW p \in Params, f[Addr(s, 0)].param = p
    PROVE  /\ search_data_num(f, s) \in 0..Slots
           /\ \A k \in 1..Slots :
                k <= search_data_num(f, s) <=>
                   /\ p \in Normal => k = 1
                   /\ \A b \in 1..k : read_data(f, s, b)
<1> DEFINE room == IF f[Addr(s, 0)].param \in Normal THEN 1 ELSE Slots
           Fits1(n) == /\ \A k \in 1..n : read_data(f, s, k)
                       /\ n < room => ~read_data(f, s, n + 1)
           d == search_data_num(f, s)
<1>1. room \in Nat /\ 1 <= room /\ room <= Slots /\ Slots \in Nat
  BY ParamSizes
<1>2. d = CHOOSE n \in 0..room : Fits1(n)
  BY DEF search_data_num
<1>r. room = IF p \in Normal THEN 1 ELSE Slots
  OBVIOUS
<1> HIDE DEF d, room
<1>3. \E n \in 0..room : Fits1(n)
  <2> DEFINE B == {k \in 1..room : ~read_data(f, s, k)}
  <2>1. CASE B = {}
    <3>1. Fits1(room) /\ room \in 0..room
      BY <1>1, <2>1
    <3> QED BY <3>1
  <2>2. CASE B # {}
    <3>0. B \in SUBSET Nat
      BY <1>1
    <3>1. PICK o \in B : \A k \in B : o <= k
      <4> HIDE DEF B
      <4> QED BY <3>0, <2>2, LeastNat
    <3>2. o \in 1..room /\ ~read_data(f, s, o) /\ (o - 1) + 1 = o /\ o - 1 \in 0..room
      BY <1>1
    <3>3. \A k \in 1..(o - 1) : k \in 1..room /\ ~(o <= k)
      BY <1>1, <3>2
    <3>4. Fits1(o - 1)
      BY <3>1, <3>2, <3>3
    <3> QED BY <3>2, <3>4
  <2> QED BY <2>1, <2>2
<1>4. d \in 0..room /\ Fits1(d)
  <2> HIDE DEF Fits1
  <2> QED BY <1>2, <1>3
<1>5. d \in 0..Slots
  BY <1>1, <1>4
<1> SUFFICES ASSUME NEW k \in 1..Slots
             PROVE  k <= d <=> /\ p \in Normal => k = 1
                               /\ \A b \in 1..k : read_data(f, s, b)
  BY <1>5 DEF d
<1>6. CASE k <= d
  <2>1. \A b \in 1..k : b \in 1..d
    BY <1>1, <1>4, <1>6
  <2>2. p \in Normal => k = 1
    BY <1>1, <1>r, <1>4, <1>6
  <2> QED BY <1>4, <1>6, <2>1, <2>2
<1>7. CASE ~(k <= d)
  <2>1. CASE d < room
    <3>1. d + 1 \in 1..k /\ ~read_data(f, s, d + 1)
      BY <1>1, <1>4, <1>7, <2>1
    <3> QED BY <1>7, <3>1
  <2>2. CASE ~(d < room)
    <3>1. d = room
      BY <1>1, <1>4, <2>2
    <3>2. p \in Normal /\ k # 1
      BY <1>1, <1>r, <1>7, <3>1
    <3> QED BY <1>7, <3>2
  <2> QED BY <2>1, <2>2
<1> QED BY <1>6, <1>7

(* It counts something when the first slot holds a value.                   *)
LEMMA DataNumIs ==
    ASSUME NEW f, NEW s, NEW p \in Params, f[Addr(s, 0)].param = p
    PROVE  /\ search_data_num(f, s) \in 0..Slots
           /\ search_data_num(f, s) # 0 <=> HasValue(f, s)
           /\ p \notin Normal =>
                \A n \in 0..Slots : Filling(f, s, n) => search_data_num(f, s) = n
<1> DEFINE d == search_data_num(f, s)
<1>1. /\ d \in 0..Slots
      /\ \A k \in 1..Slots :
           k <= d <=> /\ p \in Normal => k = 1
                      /\ \A b \in 1..k : read_data(f, s, b)
  BY NumCounts
<1> HIDE DEF d
<1>2. d # 0 <=> HasValue(f, s)
  <2>1. 1 \in 1..Slots /\ 1..1 = {1} /\ (d # 0 <=> 1 <= d)
    BY <1>1, ParamSizes
  <2> QED BY <1>1, <2>1 DEF HasValue
<1>3. ASSUME p \notin Normal, NEW n \in 0..Slots, Filling(f, s, n)
      PROVE  d = n
  <2>1. ASSUME NEW k \in 1..Slots
        PROVE  k <= d <=> k <= n
    <3>1. CASE k <= n
      <4>1. \A b \in 1..k : b \in 1..Slots /\ b <= n
        BY <3>1, ParamSizes
      <4>2. \A b \in 1..k : read_data(f, s, b)
        BY <1>3, <4>1 DEF Filling
      <4> QED BY <1>1, <1>3, <3>1, <4>2
    <3>2. CASE ~(k <= n)
      <4>1. f[Addr(s, k)] = Erased
        BY <1>3, <3>2 DEF Filling
      <4>2. ~read_data(f, s, k) /\ k \in 1..k
        BY <4>1, CellsApart DEF read_data
      <4> QED BY <1>1, <3>2, <4>2
    <3> QED BY <3>1, <3>2
  <2>2. d <= d /\ n <= n /\ (d = 0 \/ d \in 1..Slots) /\ (n = 0 \/ n \in 1..Slots)
    BY <1>1, ParamSizes
  <2> QED BY <1>1, <2>1, <2>2
<1> QED BY <1>1, <1>2, <1>3 DEF d
-----------------------------------------------------------------------------
(* What flash_param_init finds *)

LEMMA TabSizes ==
    ASSUME NEW p \in Params
    PROVE  /\ SecTabSize[p] \in Nat /\ SecTabSize[p] >= 2
           /\ SecTabSize[p] < IndexMod \div 2 /\ SecTabSize[p] < IndexMod
           /\ IndexMod \in Nat \ {0}
BY ParamSizes

LEMMA UsableIs ==
    ASSUME NEW f, NEW p \in Params
    PROVE  Usable(f, p) = {s \in Own(f, p) : HasValue(f, s)}
<1>1. \A s \in Own(f, p) : search_data_num(f, s) # 0 <=> HasValue(f, s)
  <2> SUFFICES ASSUME NEW s \in Own(f, p)
               PROVE  search_data_num(f, s) # 0 <=> HasValue(f, s)
    OBVIOUS
  <2>1. f[Addr(s, 0)].param = p
    BY DEF Own
  <2> QED BY <2>1, DataNumIs, Zenon
<1> QED BY <1>1 DEF Usable, Own

(* The sectors of p with a value are a chain, whose newest is clean. *)
Held(f, p, S, c, m) ==
    /\ c \in 0..(IndexMod - 1) /\ m \in 0..SecTabSize[p]
    /\ Chain(f, S, c, m)
    /\ \A s \in S : Age(f, s, c) = 0 => Clean(f, p, s)

LEMMA ValuesAreHeld ==
    ASSUME NEW f, NEW p \in Params, FlashInv(f, p)
    PROVE  \E c, m : Held(f, p, Usable(f, p), c, m)
<1> DEFINE O == Own(f, p)
           U == Usable(f, p)
<1>1. PICK c \in 0..(IndexMod - 1), n \in 0..SecTabSize[p] :
        /\ Chain(f, O, c, n) /\ OneIsEmpty(f, p, c, n) /\ NewestIsClean(f, p, c)
  BY DEF FlashInv
<1> HIDE DEF O, U
<1>2. U = {s \in O : HasValue(f, s)}
  BY UsableIs DEF O, U
<1>3. n \in Nat /\ \A s \in O : Age(f, s, c) \in 0..(n - 1)
  BY <1>1, TabSizes DEF Chain
<1>4. CASE U = O
  <2>1. ASSUME NEW s \in U, Age(f, s, c) = 0
        PROVE  Clean(f, p, s)
    <3>1. \A t \in O : Age(f, s, c) <= Age(f, t, c)
      BY <1>3, <2>1
    <3> QED BY <1>1, <1>2, <1>4, <2>1, <3>1 DEF NewestIsClean, O
  <2> QED BY <1>1, <1>4, <2>1 DEF Held, U
<1>5. CASE U # O
  <2>1. PICK u \in O : ~HasValue(f, u)
    BY <1>2, <1>5
  <2>2. CASE n >= 2 /\ \A s \in O : Age(f, s, c) < n - 1 => HasValue(f, s)
    <3>1. \A s \in O : ~HasValue(f, s) => Age(f, s, c) = n - 1
      BY <1>3, <2>2
    <3>2. Age(f, u, c) = n - 1
      BY <2>1, <3>1
    <3>3. \A s \in O : s # u <=> Age(f, s, c) # n - 1
      BY <1>1, <3>2 DEF Chain
    <3>4. \A s : s \in U <=> s \in O /\ Age(f, s, c) # n - 1
      BY <1>2, <2>1, <3>1, <3>3
    <3>5. Chain(f, U, c, n - 1)
      <4>1. \A s \in U : Age(f, s, c) \in 0..((n - 1) - 1)
        BY <1>3, <3>4
      <4>2. \A s, t \in U : Age(f, s, c) = Age(f, t, c) => s = t
        BY <1>1, <3>4 DEF Chain
      <4>3. ASSUME NEW a \in 0..((n - 1) - 1)
            PROVE  \E s \in U : Age(f, s, c) = a
        <5>1. a \in 0..(n - 1) /\ a # n - 1
          BY <1>3
        <5>2. PICK s \in O : Age(f, s, c) = a
          BY <1>1, <5>1 DEF Chain
        <5> QED BY <3>4, <5>1, <5>2
      <4> QED BY <4>1, <4>2, <4>3 DEF Chain
    <3>6. ASSUME NEW s \in U, Age(f, s, c) = 0
          PROVE  Clean(f, p, s)
      <4>1. \A t \in O : Age(f, s, c) <= Age(f, t, c)
        BY <1>3, <3>6
      <4> QED BY <1>1, <1>2, <3>6, <4>1 DEF NewestIsClean, O
    <3>7. n - 1 \in 0..SecTabSize[p]
      BY <1>1, <2>2, TabSizes
    <3> QED BY <1>1, <3>5, <3>6, <3>7 DEF Held, U
  <2>3. CASE \A s \in O : Age(f, s, c) # 0 => HasValue(f, s)
    <3> DEFINE d == (c - 1) % IndexMod
    <3>1. Age(f, u, c) = 0
      BY <2>1, <2>3
    <3>2. \A s \in O : s # u <=> Age(f, s, c) # 0
      BY <1>1, <3>1 DEF Chain
    <3>3. \A s : s \in U <=> s \in O /\ Age(f, s, c) # 0
      BY <1>2, <2>1, <2>3, <3>2
    <3>4. n >= 1 /\ n - 1 \in 0..SecTabSize[p] /\ n < IndexMod /\ IndexMod \in Nat \ {0}
      BY <1>1, <1>3, <3>1, TabSizes
    <3>5. d \in 0..(IndexMod - 1) /\ c \in Int
      BY <3>4, DivMod
    <3>6. ASSUME NEW s \in U
          PROVE  Age(f, s, d) = Age(f, s, c) - 1 /\ Age(f, s, c) \in 1..(n - 1)
      <4> DEFINE i == f[Addr(s, 0)].index
      <4>0. s \in Own(f, p) /\ i \in 0..(IndexMod - 1)
        BY <3>3, OwnIs DEF O
      <4>1. i \in Int /\ Age(f, s, c) \in 1..(n - 1)
        BY <1>3, <3>3, <3>4, <4>0
      <4>2. ((c - i) % IndexMod) + (0 - 1) \in 0..(IndexMod - 1)
        BY <3>4, <4>1 DEF Age
      <4> HIDE DEF i
      <4>3. (((c + (0 - 1)) % IndexMod) - i) % IndexMod = ((c - i) % IndexMod) + (0 - 1)
        BY <3>5, <4>1, <4>2, AgeMoved
      <4>4. c + (0 - 1) = c - 1
        BY <3>5
      <4>5. (c - i) % IndexMod \in Int
        BY <4>1 DEF Age, i
      <4> QED BY <4>1, <4>3, <4>4, <4>5 DEF Age, i
    <3> HIDE DEF d
    <3>7. Chain(f, U, d, n - 1)
      <4>1. \A s \in U : Age(f, s, d) \in 0..((n - 1) - 1)
        BY <1>3, <3>6
      <4>2. \A s, t \in U : Age(f, s, d) = Age(f, t, d) => Age(f, s, c) = Age(f, t, c)
        BY <3>6
      <4>3. \A s, t \in U : Age(f, s, d) = Age(f, t, d) => s = t
        BY <1>1, <3>3, <4>2 DEF Chain
      <4>4. ASSUME NEW a \in 0..((n - 1) - 1)
            PROVE  \E s \in U : Age(f, s, d) = a
        <5>1. a + 1 \in 0..(n - 1) /\ a + 1 # 0
          BY <1>3
        <5>2. PICK s \in O : Age(f, s, c) = a + 1
          BY <1>1, <5>1 DEF Chain
        <5>3. s \in U
          BY <3>3, <5>1, <5>2
        <5> QED BY <3>6, <5>2, <5>3
      <4> QED BY <4>1, <4>3, <4>4 DEF Chain
    <3>8. ASSUME NEW s \in U, Age(f, s, d) = 0
          PROVE  Clean(f, p, s)
      <4>1. \A t \in U : Age(f, s, c) <= Age(f, t, c)
        BY <3>6, <3>8
      <4> QED BY <1>1, <1>2, <3>8, <4>1 DEF NewestIsClean, O
    <3> QED BY <3>4, <3>5, <3>7, <3>8 DEF Held, U
  <2> QED BY <1>1, <2>2, <2>3 DEF OneIsEmpty, O
<1> QED BY <1>4, <1>5

(* All of them go to the table, which has room for them. *)
LEMMA AllAreFound ==
    ASSUME NEW f, NEW p \in Params, FlashInv(f, p)
    PROVE  /\ Found(f, p) = Usable(f, p)
           /\ IsFiniteSet(Found(f, p))
           /\ Cardinality(Found(f, p)) \in 0..SecTabSize[p]
           /\ \E c : Held(f, p, Found(f, p), c, Cardinality(Found(f, p)))
<1> DEFINE U == Usable(f, p)
           B(s) == {t \in U : t < s}
<1>1. PICK c, m : Held(f, p, U, c, m)
  BY ValuesAreHeld
<1>2. m \in 0..SecTabSize[p] /\ SecTabSize[p] \in Nat /\ m \in Nat
  BY <1>1, TabSizes DEF Held
<1>3. IsFiniteSet(U) /\ Cardinality(U) = m
  BY <1>1, <1>2, ChainNumbers, NumberedSet DEF Held
<1>4. U \subseteq Int
  <2>1. \A s \in Own(f, p) : s \in Int
    BY OwnIs
  <2> QED BY <2>1, UsableIs
<1>5. ASSUME NEW s \in U
      PROVE  Cardinality(B(s)) < SecTabSize[p]
  <2>1. ~(s < s)
    BY <1>4
  <2>2. B(s) \in SUBSET U /\ s \notin B(s)
    BY <2>1, Zenon
  <2>3. Cardinality(B(s)) <= m /\ Cardinality(B(s)) # m /\ IsFiniteSet(B(s))
    BY <1>3, <2>2, FS_Subset
  <2>4. Cardinality(B(s)) \in Nat
    BY <2>3, FS_CardinalityType
  <2> QED BY <1>2, <2>3, <2>4
<1>6. Found(f, p) = U
  BY <1>5 DEF Found
<1> QED BY <1>1, <1>2, <1>3, <1>6

(* They are sorted by age. *)
LEMMA FilledIs ==
    ASSUME NEW f, NEW p \in Params, NEW c, NEW m,
           Held(f, p, Found(f, p), c, m), Found(f, p) = Usable(f, p),
           NEW k \in 1..m
    PROVE  /\ Cardinality(Found(f, p)) = m /\ k \in 1..SecTabSize[p]
           /\ Len(Filled(f, p)) = m
           /\ Filled(f, p)[k].sector \in Found(f, p)
           /\ Age(f, Filled(f, p)[k].sector, c) = m - k
           /\ Filled(f, p)[k] =
                [sector |-> Filled(f, p)[k].sector,
                 num    |-> search_data_num(f, Filled(f, p)[k].sector),
                 index  |-> f[Addr(Filled(f, p)[k].sector, 0)].index]
<1> DEFINE S == Found(f, p)
           h == [s \in S |-> (m - 1) - Age(f, s, c)]
           s1 == CHOOSE x \in S : Cardinality({t \in S : Older(f, t, x)}) = k - 1
<1>1. m \in 0..SecTabSize[p] /\ m \in Nat /\ c \in Int /\ m < IndexMod \div 2
      /\ k \in 1..SecTabSize[p]
  BY TabSizes DEF Held
<1>2. Cardinality(S) = m
  BY <1>1, ChainNumbers, NumberedSet DEF Held
<1>3. \A s \in S : s \in Own(f, p) /\ Age(f, s, c) \in 0..(m - 1)
                   /\ f[Addr(s, 0)].index \in 0..(IndexMod - 1)
  <2>1. \A s \in S : s \in Own(f, p)
    BY UsableIs
  <2>2. \A s \in S : Age(f, s, c) \in 0..(m - 1)
    BY DEF Held, Chain
  <2>3. \A s \in Own(f, p) : f[Addr(s, 0)].index \in 0..(IndexMod - 1)
    BY OwnIs
  <2> HIDE DEF S
  <2> QED BY <2>1, <2>2, <2>3
<1> HIDE DEF S
<1>4. Numbers(h, S, m)
  <2>1. \A s \in S : h[s] = (m - 1) - Age(f, s, c) /\ h[s] \in 0..(m - 1)
    BY <1>1, <1>3
  <2>2. h \in [S -> 0..(m - 1)]
    BY <2>1
  <2>3. \A s, t \in S : h[s] = h[t] => Age(f, s, c) = Age(f, t, c)
    BY <1>1, <1>3, <2>1
  <2>4. \A s, t \in S : h[s] = h[t] => s = t
    BY <2>3 DEF Held, Chain, S
  <2>5. ASSUME NEW a \in 0..(m - 1)
        PROVE  \E s \in S : h[s] = a
    <3>1. (m - 1) - a \in 0..(m - 1)
      BY <1>1
    <3>2. PICK s \in S : Age(f, s, c) = (m - 1) - a
      BY <3>1 DEF Held, Chain, S
    <3>3. h[s] = a
      BY <1>1, <2>1, <3>2
    <3> QED BY <3>3
  <2> HIDE DEF h
  <2> QED BY <2>2, <2>4, <2>5 DEF Numbers
<1>5. \A s, t \in S : Older(f, t, s) <=> h[t] < h[s]
  <2> SUFFICES ASSUME NEW s \in S, NEW t \in S
               PROVE  Older(f, t, s) <=> h[t] < h[s]
    OBVIOUS
  <2>1. Age(f, t, c) = Age(f, s, c) => t = s
    BY DEF Held, Chain, S
  <2>2. Older(f, t, s) <=> Age(f, s, c) < Age(f, t, c)
    BY <1>1, <1>3, <2>1, OlderIs
  <2>3. Age(f, s, c) < Age(f, t, c) <=> h[t] < h[s]
    BY <1>1, <1>3
  <2> QED BY <2>2, <2>3
<1>6. \A x \in S : {t \in S : Older(f, t, x)} = Lower(h, S, x)
  BY <1>5 DEF Lower
<1> HIDE DEF h
<1>7. s1 = CHOOSE x \in S : Cardinality(Lower(h, S, x)) = k - 1
  BY <1>6
<1>8. s1 \in S /\ h[s1] = k - 1
  <2>1. m \in Nat /\ k \in 1..m
    BY <1>1
  <2>2. /\ \E s \in S : Cardinality(Lower(h, S, s)) = k - 1
        /\ \A s \in S : Cardinality(Lower(h, S, s)) = k - 1 => h[s] = k - 1
    BY <2>1, <1>4, NumberedIsChosen
  <2> HIDE DEF s1
  <2>3. s1 \in S /\ Cardinality(Lower(h, S, s1)) = k - 1
    BY <1>7, <2>2, Zenon
  <2> QED BY <2>2, <2>3
<1>9. Age(f, s1, c) = m - k
  BY <1>1, <1>3, <1>8 DEF h
<1>10. Filled(f, p) = [j \in 1..m |->
            LET s == CHOOSE x \in S : Cardinality({t \in S : Older(f, t, x)}) = j - 1
            IN  [sector |-> s, num |-> search_data_num(f, s),
                 index |-> f[Addr(s, 0)].index]]
  BY <1>2 DEF Filled, Nth, S
<1>11. Filled(f, p)[k] = [sector |-> s1, num |-> search_data_num(f, s1),
                          index |-> f[Addr(s1, 0)].index]
  BY <1>10
<1>12. Len(Filled(f, p)) = m
  BY <1>1, <1>10
<1> HIDE DEF s1
<1>13. Filled(f, p)[k].sector = s1
  BY <1>11
<1> QED BY <1>1, <1>2, <1>8, <1>9, <1>11, <1>12, <1>13 DEF S
-----------------------------------------------------------------------------
(* What flash_param_init gives to the entries that stay empty *)

InvOff(f) == \A p \in Params : FlashInv(f, p)
FoundAll(f) == UNION {Found(f, p) : p \in Params}

LEMMA FoundIsOwn ==
    ASSUME NEW f, NEW p \in Params, NEW s \in Found(f, p)
    PROVE  /\ s \in Own(f, p) /\ s \in Sectors /\ s \in Int
           /\ read_info(f, s) /\ f[Addr(s, 0)].param = p
<1>1. s \in Usable(f, p)
  BY DEF Found
<1>2. s \in Own(f, p)
  BY <1>1, UsableIs
<1>3. s \in Sectors /\ s \in Int /\ read_info(f, s) /\ f[Addr(s, 0)].param = p
  BY <1>2 DEF Own, Sectors
<1> QED BY <1>2, <1>3

LEMMA UnusedIs ==
    ASSUME NEW f
    PROVE  /\ Unused(f) = Sectors \ FoundAll(f) /\ FoundAll(f) \subseteq Sectors
           /\ Swept(f) \subseteq Sectors
           /\ \A s \in Sectors : s \in Swept(f) <=> read_info(f, s) /\ s \notin FoundAll(f)
           /\ IsFiniteSet(Sectors) /\ Cardinality(Sectors) = PartSectors
           /\ IsFiniteSet(Unused(f)) /\ Unused(f) \subseteq Int
<1>1. \A s \in FoundAll(f) : s \in Sectors /\ read_info(f, s)
  BY FoundIsOwn DEF FoundAll
<1>2. \A s : s \in Swept(f) <=> s \in Sectors /\ read_info(f, s) /\ s \notin FoundAll(f)
  BY DEF Swept, FoundAll
<1>3. Unused(f) = Sectors \ FoundAll(f)
  BY <1>1, <1>2 DEF Unused
<1>4. IsFiniteSet(Sectors) /\ Cardinality(Sectors) = PartSectors
  BY FS_Interval, ParamSizes DEF Sectors
<1>5. Unused(f) \in SUBSET Sectors /\ Sectors \subseteq Int
  BY <1>3, ParamSizes DEF Sectors
<1>6. IsFiniteSet(Unused(f))
  BY <1>4, <1>5, FS_Subset
<1> QED BY <1>1, <1>2, <1>3, <1>4, <1>5, <1>6

LEMMA LackIs ==
    ASSUME NEW f, InvOff(f), NEW p \in Params
    PROVE  /\ Lack(f, p) \in 0..SecTabSize[p]
           /\ Cardinality(Found(f, p)) \in 0..SecTabSize[p]
           /\ Lack(f, p) = SecTabSize[p] - Cardinality(Found(f, p))
           /\ SecTabSize[p] \in Nat
<1>1. FlashInv(f, p)
  BY DEF InvOff
<1>2. Cardinality(Found(f, p)) \in 0..SecTabSize[p] /\ SecTabSize[p] \in Nat
  BY <1>1, AllAreFound, TabSizes
<1> HIDE DEF InvOff
<1> QED BY <1>2 DEF Lack

LEMMA TabEntriesIs ==
    /\ IsFiniteSet(TabEntries) /\ Cardinality(TabEntries) \in Nat
    /\ Cardinality(TabEntries) <= PartSectors
    /\ \A e : e \in TabEntries <=>
                \E p \in Params : \E k \in 1..SecTabSize[p] : e = <<p, k>>
    /\ \A p \in Params : SecTabSize[p] <= PartSectors
<1> DEFINE Of == [p \in Params |-> {p} \X (1..SecTabSize[p])]
           R == {{p} \X (1..SecTabSize[p]) : p \in Params}
<1>1. \A p \in Params : /\ IsFiniteSet({p} \X (1..SecTabSize[p]))
                        /\ Cardinality({p} \X (1..SecTabSize[p])) = SecTabSize[p]
  <2> SUFFICES ASSUME NEW p \in Params
               PROVE  /\ IsFiniteSet({p} \X (1..SecTabSize[p]))
                      /\ Cardinality({p} \X (1..SecTabSize[p])) = SecTabSize[p]
    OBVIOUS
  <2>1. SecTabSize[p] \in Nat
    BY TabSizes
  <2> HIDE DEF Of, R
  <2> QED BY <2>1, RowCount
<1>2. IsFiniteSet(R)
  <2>1. Of \in [Params -> R] /\ \A y \in R : \E p \in Params : Of[p] = y
    OBVIOUS
  <2>2. Of \in Surjection(Params, R)
    <3> HIDE DEF Of, R
    <3> QED BY <2>1, Fun_IsSurj
  <2> HIDE DEF Of, R
  <2> QED BY <2>2, FS_Surjection, PartAssumption
<1>3. TabEntries = UNION R
  BY DEF TabEntries
<1>4. \A T \in R : IsFiniteSet(T)
  BY <1>1
<1>5. IsFiniteSet(TabEntries)
  <2> HIDE DEF R
  <2> QED BY <1>2, <1>3, <1>4, FS_UNION
<1>6. \A e : e \in TabEntries <=>
                \E p \in Params : \E k \in 1..SecTabSize[p] : e = <<p, k>>
  BY <1>3
<1>7. ASSUME NEW p \in Params
      PROVE  SecTabSize[p] <= PartSectors
  <2>1. {p} \X (1..SecTabSize[p]) \in SUBSET TabEntries
    BY <1>3
  <2>2. Cardinality({p} \X (1..SecTabSize[p])) <= Cardinality(TabEntries)
    BY <1>5, <2>1, FS_Subset
  <2>3. Cardinality(TabEntries) \in Nat /\ Cardinality(TabEntries) <= PartSectors
    BY <1>5, FS_CardinalityType, PartAssumption
  <2>4. SecTabSize[p] \in Nat /\ PartSectors \in Nat
        /\ Cardinality({p} \X (1..SecTabSize[p])) = SecTabSize[p]
    BY <1>1, TabSizes, PartAssumption
  <2> DEFINE m == Cardinality(TabEntries)
             k == Cardinality({p} \X (1..SecTabSize[p]))
  <2>5. k <= m /\ k = SecTabSize[p] /\ m \in Nat /\ m <= PartSectors
    BY <2>2, <2>3, <2>4
  <2> HIDE DEF m, k, Of, R
  <2> QED BY <2>4, <2>5
<1> QED BY <1>5, <1>6, <1>7, FS_CardinalityType, PartAssumption

(* There are enough sectors for all of them.                                *)
AllLack(f) == {e \in TabEntries : e[2] <= Lack(f, e[1])}

LEMMA EnoughUnused ==
    ASSUME NEW f, InvOff(f)
    PROVE  /\ IsFiniteSet(AllLack(f)) /\ Cardinality(AllLack(f)) \in Nat
           /\ Cardinality(Unused(f)) \in Nat
           /\ Cardinality(AllLack(f)) <= Cardinality(Unused(f))
<1> DEFINE F == FoundAll(f)
           Full == TabEntries \ AllLack(f)
           P(s) == f[Addr(s, 0)].param
           h == [s \in F |-> <<P(s), Lack(f, P(s)) + 1 + Ranks(Found(f, P(s)))[s]>>]
<1>1. AllLack(f) \in SUBSET TabEntries /\ IsFiniteSet(TabEntries)
  BY TabEntriesIs DEF AllLack
<1>2. /\ IsFiniteSet(AllLack(f)) /\ Cardinality(AllLack(f)) \in Nat
      /\ IsFiniteSet(Full) /\ Cardinality(Full) \in Nat
      /\ Cardinality(Full) = Cardinality(TabEntries) - Cardinality(AllLack(f))
  <2>1. TabEntries \cap AllLack(f) = AllLack(f)
    BY <1>1
  <2>2. IsFiniteSet(AllLack(f)) /\ IsFiniteSet(Full)
    BY <1>1, FS_Subset, FS_Difference
  <2>3. Cardinality(Full) = Cardinality(TabEntries) - Cardinality(TabEntries \cap AllLack(f))
    BY <1>1, FS_Difference
  <2> QED BY <2>1, <2>2, <2>3, FS_CardinalityType
<1>3. ASSUME NEW s \in F
      PROVE  /\ P(s) \in Params /\ s \in Found(f, P(s))
             /\ Numbers(Ranks(Found(f, P(s))), Found(f, P(s)), Cardinality(Found(f, P(s))))
  <2>1. PICK p \in Params : s \in Found(f, p)
    BY DEF FoundAll
  <2>2. P(s) = p
    BY <2>1, FoundIsOwn
  <2>3. FlashInv(f, p)
    BY DEF InvOff
  <2>4. IsFiniteSet(Found(f, p))
    BY <2>3, AllAreFound
  <2>5. Found(f, p) \in SUBSET Int
    BY FoundIsOwn
  <2>6. Numbers(Ranks(Found(f, p)), Found(f, p), Cardinality(Found(f, p)))
    BY <2>4, <2>5, RanksNumber
  <2> QED BY <2>1, <2>2, <2>6
<1>4. ASSUME NEW s \in F
      PROVE  h[s] \in Full
  <2> DEFINE p == P(s)
             r == Ranks(Found(f, p))[s]
             n == Cardinality(Found(f, p))
             L == Lack(f, p)
  <2>1. h[s] = <<p, L + 1 + r>>
    OBVIOUS
  <2>2. p \in Params /\ r \in 0..(n - 1)
    BY <1>3 DEF Numbers
  <2> HIDE DEF h, p, r
  <2>3. L \in Nat /\ n \in Nat /\ L = SecTabSize[p] - n /\ SecTabSize[p] \in Nat
    BY <2>2, LackIs
  <2>4. L + 1 + r \in 1..SecTabSize[p] /\ ~(L + 1 + r <= L)
    <3> HIDE DEF L, n
    <3> QED BY <2>2, <2>3
  <2>5. h[s] \in TabEntries
    BY <2>1, <2>2, <2>4, TabEntriesIs
  <2>6. h[s][1] = p /\ h[s][2] = L + 1 + r
    BY <2>1
  <2>7. h[s] \notin AllLack(f)
    BY <2>4, <2>6 DEF AllLack
  <2> QED BY <2>5, <2>7
<1>5. ASSUME NEW s \in F, NEW t \in F, h[s] = h[t]
      PROVE  s = t
  <2>1. P(s) = P(t) /\ Lack(f, P(s)) + 1 + Ranks(Found(f, P(s)))[s]
                        = Lack(f, P(t)) + 1 + Ranks(Found(f, P(t)))[t]
    BY <1>5
  <2> DEFINE S == Found(f, P(s))
             a == Ranks(S)[s]
             b == Ranks(S)[t]
             L == Lack(f, P(s))
  <2>2. Numbers(Ranks(S), S, Cardinality(S)) /\ s \in S /\ t \in S /\ P(s) \in Params
    BY <1>3, <2>1
  <2>3. L + 1 + a = L + 1 + b /\ L \in Int
    BY <2>1, <2>2, LackIs
  <2>4. a \in Int /\ b \in Int
    <3>1. a \in 0..(Cardinality(S) - 1) /\ b \in 0..(Cardinality(S) - 1)
      BY <2>2 DEF Numbers
    <3> HIDE DEF S, a, b
    <3> QED BY <3>1
  <2>5. a = b
    <3> HIDE DEF L, a, b
    <3> QED BY <2>3, <2>4
  <2> QED BY <2>2, <2>5 DEF Numbers
<1>6. h \in Injection(F, Full)
  <2>1. h \in [F -> Full]
    BY <1>4
  <2> HIDE DEF h, F, Full
  <2> QED BY <1>5, <2>1, Fun_IsInj
<1> HIDE DEF h
<1>7. IsFiniteSet(F) /\ Cardinality(F) <= Cardinality(Full)
  <2> HIDE DEF F, Full
  <2> QED BY <1>2, <1>6, FS_Injection
<1>8. Cardinality(F) \in Nat
  BY <1>7, FS_CardinalityType
<1>9. Cardinality(Unused(f)) = PartSectors - Cardinality(F) /\ PartSectors \in Nat
  <2>1. Sectors \cap F = F /\ Unused(f) = Sectors \ F /\ IsFiniteSet(Sectors)
        /\ Cardinality(Sectors) = PartSectors
    BY UnusedIs
  <2> HIDE DEF F
  <2> QED BY <2>1, FS_Difference, ParamSizes
<1>10. Cardinality(Unused(f)) \in Nat
  BY UnusedIs, FS_CardinalityType
<1>11. Cardinality(TabEntries) \in Nat /\ Cardinality(TabEntries) <= PartSectors
  BY TabEntriesIs
<1> HIDE DEF F, Full
<1> QED BY <1>2, <1>7, <1>8, <1>9, <1>10, <1>11

LackSet(f, p) ==
    {e \in {q \in Params : Order[q] < Order[p]} \X (1..Cardinality(Sectors)) :
        e[2] <= Lack(f, e[1])}
MyLack(f, p) == {p} \X (1..Lack(f, p))

LEMMA LackSets ==
    ASSUME NEW f, InvOff(f), NEW p \in Params
    PROVE  /\ LackUpTo(f, p) \in Nat
           /\ LackUpTo(f, p) + Lack(f, p) <= Cardinality(Unused(f))
           /\ \A q \in Params : Order[p] < Order[q] =>
                LackUpTo(f, p) + Lack(f, p) <= LackUpTo(f, q)
<1> DEFINE A == LackSet(f, p)
           B == MyLack(f, p)
<1>0. \A q \in Params : Order[q] \in Nat /\ Lack(f, q) \in Nat
                        /\ Lack(f, q) <= SecTabSize[q] /\ SecTabSize[q] \in Nat
                        /\ SecTabSize[q] <= PartSectors
  BY ParamsAssumption, LackIs, TabEntriesIs
<1>1. Cardinality(Sectors) = PartSectors /\ PartSectors \in Nat
  BY UnusedIs, ParamSizes
<1>2. \A q \in Params : \A e : e \in LackSet(f, q) <=>
        \E r \in Params, k \in 1..PartSectors :
            e = <<r, k>> /\ Order[r] < Order[q] /\ k <= Lack(f, r)
  BY <1>1 DEF LackSet
<1>3. \A e : e \in B <=> \E k \in 1..Lack(f, p) : e = <<p, k>>
  BY DEF MyLack
<1>4. \A e : e \in AllLack(f) <=>
        \E r \in Params : \E k \in 1..SecTabSize[r] : e = <<r, k>> /\ k <= Lack(f, r)
  BY TabEntriesIs DEF AllLack
<1> HIDE DEF A, B
<1>5. IsFiniteSet(B) /\ Cardinality(B) = Lack(f, p)
  <2>1. Lack(f, p) \in Nat
    BY <1>0
  <2>2. B = {p} \X (1..Lack(f, p))
    BY DEF B, MyLack
  <2> QED BY <2>1, <2>2, RowCount
<1>6. \A q \in Params : LackSet(f, q) \subseteq AllLack(f)
  BY <1>0, <1>2, <1>4
<1>7. B \subseteq AllLack(f)
  BY <1>0, <1>3, <1>4
<1>8. A \cap B = {}
  <2>1. ~(Order[p] < Order[p])
    BY <1>0
  <2> QED BY <1>2, <1>3, <2>1 DEF A
<1>9. \A q \in Params : LackUpTo(f, q) = Cardinality(LackSet(f, q))
  BY DEF LackUpTo, LackSet
<1>10. \A q \in Params : IsFiniteSet(LackSet(f, q)) /\ LackUpTo(f, q) \in Nat
  <2> SUFFICES ASSUME NEW q \in Params
               PROVE  IsFiniteSet(LackSet(f, q)) /\ LackUpTo(f, q) \in Nat
    OBVIOUS
  <2>1. LackSet(f, q) \in SUBSET AllLack(f) /\ IsFiniteSet(AllLack(f))
    BY <1>6, EnoughUnused
  <2>2. IsFiniteSet(LackSet(f, q))
    BY <2>1, FS_Subset
  <2> QED BY <1>9, <2>2, FS_CardinalityType
<1>11. IsFiniteSet(A \cup B)
       /\ Cardinality(A \cup B) = LackUpTo(f, p) + Lack(f, p)
  <2>1. Cardinality(A \cap B) = 0
    BY <1>8, FS_EmptySet
  <2>2. IsFiniteSet(A) /\ Cardinality(A) = LackUpTo(f, p) /\ LackUpTo(f, p) \in Nat
    BY <1>9, <1>10 DEF A
  <2>3. /\ IsFiniteSet(A \cup B)
        /\ Cardinality(A \cup B) = Cardinality(A) + Cardinality(B) - Cardinality(A \cap B)
    BY <1>5, <2>2, FS_Union
  <2> QED BY <1>0, <1>5, <2>1, <2>2, <2>3
<1>12. LackUpTo(f, p) + Lack(f, p) <= Cardinality(Unused(f))
  <2>1. A \cup B \in SUBSET AllLack(f)
    BY <1>6, <1>7 DEF A
  <2>2. Cardinality(A \cup B) <= Cardinality(AllLack(f))
    BY <2>1, EnoughUnused, FS_Subset
  <2>3. Cardinality(AllLack(f)) \in Nat /\ Cardinality(Unused(f)) \in Nat
        /\ Cardinality(AllLack(f)) <= Cardinality(Unused(f))
    BY EnoughUnused
  <2> QED BY <1>0, <1>10, <1>11, <2>2, <2>3
<1>13. ASSUME NEW q \in Params, Order[p] < Order[q]
       PROVE  LackUpTo(f, p) + Lack(f, p) <= LackUpTo(f, q)
  <2>1. A \subseteq LackSet(f, q)
    <3>1. \A r \in Params : Order[r] < Order[p] => Order[r] < Order[q]
      BY <1>0, <1>13
    <3> QED BY <1>2, <3>1 DEF A
  <2>2. B \subseteq LackSet(f, q)
    <3>1. \A k \in 1..Lack(f, p) : k \in 1..PartSectors /\ k <= Lack(f, p)
      BY <1>0, <1>1
    <3> QED BY <1>2, <1>3, <1>13, <3>1
  <2>3. A \cup B \in SUBSET LackSet(f, q)
    BY <2>1, <2>2
  <2>4. Cardinality(A \cup B) <= Cardinality(LackSet(f, q))
    BY <1>10, <2>3, FS_Subset
  <2> QED BY <1>9, <1>11, <2>4
<1> QED BY <1>10, <1>12, <1>13

(* Nth finds a sector for each, and no sector is found twice.               *)
LEMMA GivenIs ==
    ASSUME NEW f, InvOff(f), NEW p \in Params, NEW k \in 1..Lack(f, p)
    PROVE  /\ Given(f, p, k) \in Unused(f)
           /\ Ranks(Unused(f))[Given(f, p, k)] = (LackUpTo(f, p) + k) - 1
<1> DEFINE S == Unused(f)
           n == Cardinality(Unused(f))
           h == Ranks(Unused(f))
           j == LackUpTo(f, p) + k
           g == Given(f, p, k)
<1>1. IsFiniteSet(S) /\ S \in SUBSET Int
  BY UnusedIs
<1> HIDE DEF S
<1>2. Numbers(Ranks(S), S, Cardinality(S)) /\ Cardinality(S) \in Nat
      /\ \A s, t \in S : s < t <=> Ranks(S)[s] < Ranks(S)[t]
  BY <1>1, RanksNumber
<1>3. j \in 1..n
  <2>1. LackUpTo(f, p) \in Nat /\ LackUpTo(f, p) + Lack(f, p) <= n /\ Lack(f, p) \in Nat
    BY LackSets, LackIs
  <2>2. n \in Nat
    BY <1>2 DEF S
  <2> HIDE DEF n
  <2> QED BY <2>1, <2>2
<1>4. g = CHOOSE x \in S : Cardinality({t \in S : t < x}) = j - 1
  BY DEF Given, Nth, S
<1>5. \A x \in S : {t \in S : t < x} = Lower(h, S, x)
  BY <1>2 DEF Lower, S
<1>6. g = CHOOSE x \in S : Cardinality(Lower(h, S, x)) = j - 1
  BY <1>4, <1>5
<1>7. /\ \E s \in S : Cardinality(Lower(h, S, s)) = j - 1
      /\ \A s \in S : Cardinality(Lower(h, S, s)) = j - 1 => h[s] = j - 1
  <2>1. Numbers(h, S, n) /\ n \in Nat
    BY <1>2 DEF S
  <2> HIDE DEF h, n, j
  <2> QED BY <1>3, <2>1, NumberedIsChosen
<1>8. g \in S /\ Cardinality(Lower(h, S, g)) = j - 1
  <2> HIDE DEF g, h, j
  <2> QED BY <1>6, <1>7, Zenon
<1>9. h[g] = j - 1
  BY <1>7, <1>8
<1>10. g \in Unused(f)
  BY <1>8 DEF S
<1>11. Ranks(Unused(f))[g] = (LackUpTo(f, p) + k) - 1
  BY <1>9
<1> HIDE DEF S, n, h
<1> QED BY <1>10, <1>11

LEMMA GivenApart ==
    ASSUME NEW f, InvOff(f), NEW p \in Params, NEW k \in 1..Lack(f, p),
           NEW q \in Params, NEW l \in 1..Lack(f, q),
           Given(f, p, k) = Given(f, q, l)
    PROVE  p = q /\ k = l
<1>1. (LackUpTo(f, p) + k) - 1 = (LackUpTo(f, q) + l) - 1
  <2>1. Ranks(Unused(f))[Given(f, p, k)] = (LackUpTo(f, p) + k) - 1
    BY GivenIs
  <2>2. Ranks(Unused(f))[Given(f, q, l)] = (LackUpTo(f, q) + l) - 1
    BY GivenIs
  <2> QED BY <2>1, <2>2
<1>2. /\ LackUpTo(f, p) \in Nat /\ LackUpTo(f, q) \in Nat
      /\ Lack(f, p) \in Nat /\ Lack(f, q) \in Nat
      /\ Order[p] < Order[q] => LackUpTo(f, p) + Lack(f, p) <= LackUpTo(f, q)
      /\ Order[q] < Order[p] => LackUpTo(f, q) + Lack(f, q) <= LackUpTo(f, p)
  BY LackSets, LackIs
<1>3. Order[p] \in Nat /\ Order[q] \in Nat /\ (Order[p] = Order[q] => p = q)
  BY ParamsAssumption
<1>4. ~(Order[p] < Order[q]) /\ ~(Order[q] < Order[p])
  BY <1>1, <1>2
<1>5. p = q
  BY <1>3, <1>4
<1> QED BY <1>1, <1>2, <1>5
-----------------------------------------------------------------------------
(* What flash_param_init builds *)

LEMMA BackIs ==
    ASSUME NEW p \in Params, NEW v \in 1..SecTabSize[p], NEW k \in 1..SecTabSize[p]
    PROVE  /\ Back(p, v, k) = IF k <= v THEN v - k ELSE (v - k) + SecTabSize[p]
           /\ Back(p, v, k) \in 0..(SecTabSize[p] - 1)
<1> DEFINE N == SecTabSize[p]
<1>1. N \in Nat \ {0} /\ v \in 1..N /\ k \in 1..N
  BY TabSizes
<1>2. Back(p, v, k) = (v - k) % N
  BY DEF Back
<1> HIDE DEF N
<1>3. CASE k <= v
  <2>1. v - k \in 0..(N - 1)
    BY <1>1, <1>3
  <2> QED BY <1>1, <1>2, <1>3, <2>1, ModSmall DEF N
<1>4. CASE ~(k <= v)
  <2>1. (v - k) + N \in 0..(N - 1) /\ N * (0 - 1) + ((v - k) + N) = v - k
    BY <1>1, <1>4
  <2>2. (v - k) % N = (v - k) + N
    BY <1>1, <2>1, ModUnique
  <2> QED BY <1>2, <1>4, <2>1, <2>2 DEF N
<1> QED BY <1>3, <1>4

(* The k-th of a table with m sectors in use. *)
SortedEntry(f, p, c, m, k) ==
    LET e == SortedTab(f, p)[k]
    IN  /\ e \in Entries
        /\ IF k <= m
           THEN /\ e.sector \in Found(f, p) /\ Age(f, e.sector, c) = m - k
                /\ e.num = search_data_num(f, e.sector) /\ e.num \in 1..Slots
                /\ e.index = f[Addr(e.sector, 0)].index
           ELSE /\ k - m \in 1..Lack(f, p)
                /\ e.sector = Given(f, p, k - m) /\ e.num = 0

LEMMA SortedIs ==
    ASSUME NEW f, InvOff(f), NEW p \in Params
    PROVE  /\ Cardinality(Found(f, p)) \in 0..SecTabSize[p]
           /\ SaveSector(f, p) = IF Cardinality(Found(f, p)) = 0 THEN 1
                                 ELSE Cardinality(Found(f, p))
           /\ \E c : /\ Held(f, p, Found(f, p), c, Cardinality(Found(f, p)))
                     /\ \A k \in 1..SecTabSize[p] :
                          SortedEntry(f, p, c, Cardinality(Found(f, p)), k)
<1> DEFINE m == Cardinality(Found(f, p))
           T == SortedTab(f, p)
<1>1. FlashInv(f, p)
  BY DEF InvOff
<1>2. PICK c : Held(f, p, Found(f, p), c, m)
  BY <1>1, AllAreFound
<1>3. /\ Found(f, p) = Usable(f, p) /\ IsFiniteSet(Found(f, p))
      /\ m \in 0..SecTabSize[p] /\ m \in Nat
  BY <1>1, AllAreFound, TabSizes
<1>4. SaveSector(f, p) = IF m = 0 THEN 1 ELSE m
  BY <1>3, FS_EmptySet DEF SaveSector
<1>5. Len(Filled(f, p)) = m
  BY <1>3 DEF Filled
<1>6. T = [k \in 1..SecTabSize[p] |->
             IF k <= m THEN Filled(f, p)[k]
             ELSE [sector |-> Given(f, p, k - m), num |-> 0, index |-> 0]]
  BY <1>5 DEF SortedTab
<1>7. ASSUME NEW k \in 1..SecTabSize[p]
      PROVE  SortedEntry(f, p, c, m, k)
  <2>0. Slots \in Nat /\ IndexMod \in Nat \ {0} /\ k \in Nat
    BY ParamSizes
  <2>1. CASE k <= m
    <3> DEFINE s == Filled(f, p)[k].sector
    <3>1. k \in 1..m
      BY <1>3, <2>0, <2>1
    <3>2. /\ s \in Found(f, p) /\ Age(f, s, c) = m - k
          /\ Filled(f, p)[k] = [sector |-> s, num |-> search_data_num(f, s),
                                index |-> f[Addr(s, 0)].index]
      <4> HIDE DEF m
      <4> QED BY <1>2, <1>3, <3>1, FilledIs
    <3>3. T[k] = Filled(f, p)[k]
      BY <1>6, <2>1
    <3>4. s \in Own(f, p) /\ s \in Sectors /\ f[Addr(s, 0)].param = p
      BY <3>2, FoundIsOwn
    <3>5. f[Addr(s, 0)].index \in 0..(IndexMod - 1)
      BY <3>4, OwnIs
    <3>6. HasValue(f, s)
      BY <1>3, <3>2, UsableIs
    <3>7. search_data_num(f, s) \in 0..Slots /\ search_data_num(f, s) # 0
      BY <3>4, <3>6, DataNumIs
    <3>8. search_data_num(f, s) \in 1..Slots
      BY <2>0, <3>7
    <3> HIDE DEF s, T
    <3> DEFINE d == search_data_num(f, s)
               i == f[Addr(s, 0)].index
    <3>9. T[k] = [sector |-> s, num |-> d, index |-> i]
      BY <3>2, <3>3
    <3>10. d \in 1..Slots /\ d \in 0..Slots /\ i \in 0..(IndexMod - 1)
      BY <3>5, <3>7, <3>8
    <3> HIDE DEF d, i
    <3>11. T[k] \in Entries /\ T[k].sector = s /\ T[k].num = d /\ T[k].index = i
      BY <3>4, <3>9, <3>10 DEF Entries
    <3> QED BY <2>1, <3>2, <3>10, <3>11 DEF SortedEntry, T, d, i
  <2>2. CASE ~(k <= m)
    <3> DEFINE g == Given(f, p, k - m)
    <3>1. k - m \in 1..Lack(f, p)
      BY <1>3, <2>0, <2>2, LackIs
    <3>2. g \in Sectors
      BY <3>1, GivenIs, UnusedIs
    <3>3. T[k] = [sector |-> g, num |-> 0, index |-> 0]
      BY <1>6, <2>2
    <3> HIDE DEF g, T
    <3>4. 0 \in 0..Slots /\ 0 \in 0..(IndexMod - 1)
      BY <2>0
    <3>5. T[k] \in Entries /\ T[k].sector = g /\ T[k].num = 0
      BY <3>2, <3>3, <3>4 DEF Entries
    <3> QED BY <2>2, <3>1, <3>5 DEF SortedEntry, T, g
  <2> QED BY <2>1, <2>2
<1> HIDE DEF m
<1>8. \E d : Held(f, p, Found(f, p), d, m)
             /\ \A k \in 1..SecTabSize[p] : SortedEntry(f, p, d, m, k)
  BY <1>2, <1>7
<1> QED BY <1>3, <1>4, <1>8 DEF m

(* The tables' sectors are all different. *)
LEMMA SortedApart ==
    ASSUME NEW f, InvOff(f), NEW p \in Params, NEW i \in 1..SecTabSize[p],
           NEW q \in Params, NEW j \in 1..SecTabSize[q],
           SortedTab(f, p)[i].sector = SortedTab(f, q)[j].sector
    PROVE  p = q /\ i = j
<1> DEFINE s == SortedTab(f, p)[i].sector
           m == Cardinality(Found(f, p))
           n == Cardinality(Found(f, q))
<1>1. PICK c : Held(f, p, Found(f, p), c, m)
               /\ \A k \in 1..SecTabSize[p] : SortedEntry(f, p, c, m, k)
  BY SortedIs
<1>2. \E d : /\ \A k \in 1..SecTabSize[q] : SortedEntry(f, q, d, n, k)
             /\ p = q => d = c
  <2>1. PICK d : \A k \in 1..SecTabSize[q] : SortedEntry(f, q, d, n, k)
    BY SortedIs
  <2> QED BY <1>1, <2>1
<1>3. PICK d : /\ \A k \in 1..SecTabSize[q] : SortedEntry(f, q, d, n, k)
               /\ p = q => d = c
  BY <1>2
<1>4. m \in Nat /\ n \in Nat /\ i \in Nat /\ j \in Nat
      /\ SecTabSize[p] \in Nat /\ SecTabSize[q] \in Nat
  <2>1. m \in 0..SecTabSize[p] /\ n \in 0..SecTabSize[q]
    BY SortedIs
  <2> HIDE DEF m, n
  <2> QED BY <2>1, TabSizes
<1>5. /\ i <= m => s \in Found(f, p) /\ Age(f, s, c) = m - i
      /\ ~(i <= m) => i - m \in 1..Lack(f, p) /\ s = Given(f, p, i - m)
  <2> HIDE DEF m, n
  <2> QED BY <1>1 DEF SortedEntry
<1>6. /\ j <= n => s \in Found(f, q) /\ Age(f, s, d) = n - j
      /\ ~(j <= n) => j - n \in 1..Lack(f, q) /\ s = Given(f, q, j - n)
  <2> HIDE DEF m, n
  <2> QED BY <1>3 DEF SortedEntry
<1>7. \A r \in Params : s \in Found(f, r) => s \notin Unused(f)
  BY UnusedIs DEF FoundAll
<1> HIDE DEF s
<1>8. CASE i <= m /\ j <= n
  <2>1. p = q
    BY <1>5, <1>6, <1>8, FoundIsOwn
  <2>2. m = n /\ c = d
    BY <1>3, <2>1
  <2>3. m - i = m - j
    BY <1>5, <1>6, <1>8, <2>2
  <2> HIDE DEF m, n
  <2> QED BY <1>4, <2>1, <2>3
<1>9. CASE i <= m /\ ~(j <= n)
  BY <1>5, <1>6, <1>7, <1>9, GivenIs
<1>10. CASE ~(i <= m) /\ j <= n
  BY <1>5, <1>6, <1>7, <1>10, GivenIs
<1>11. CASE ~(i <= m) /\ ~(j <= n)
  <2>1. p = q /\ i - m = j - n
    <3> HIDE DEF m, n
    <3> QED BY <1>5, <1>6, <1>11, GivenApart
  <2>2. m = n
    BY <2>1
  <2> HIDE DEF m, n
  <2> QED BY <1>4, <2>1, <2>2
<1> QED BY <1>8, <1>9, <1>10, <1>11

(* Erasing the others leaves the sectors that were found as they are. *)
LEMMA AfterSweep ==
    ASSUME NEW f \in Flash, InvOff(f), NEW g, g = SweptPart(f, Swept(f))
    PROVE  /\ g \in Flash
           /\ \A p \in Params : Own(g, p) = Found(f, p)
           /\ \A p \in Params : \A s \in Found(f, p) : \A k \in 0..Slots :
                g[Addr(s, k)] = f[Addr(s, k)]
<1>1. Swept(f) \in SUBSET Sectors
  BY UnusedIs
<1>2. /\ g \in Flash
      /\ \A t \in Sectors, l \in 0..Slots :
           g[Addr(t, l)] = IF t \in Swept(f) THEN Erased ELSE f[Addr(t, l)]
  BY <1>1, SweepIs
<1>3. 0 \in 0..Slots
  BY ParamSizes
<1>4. ASSUME NEW p \in Params, NEW s \in Found(f, p)
      PROVE  /\ s \in Own(g, p)
             /\ \A k \in 0..Slots : g[Addr(s, k)] = f[Addr(s, k)]
  <2>1. s \in Sectors /\ s \notin Swept(f)
    BY FoundIsOwn, UnusedIs DEF FoundAll
  <2>2. \A k \in 0..Slots : g[Addr(s, k)] = f[Addr(s, k)]
    BY <1>2, <2>1
  <2>3. read_info(f, s) /\ f[Addr(s, 0)].param = p
    BY FoundIsOwn
  <2> QED BY <1>3, <2>1, <2>2, <2>3 DEF Own, read_info
<1>5. ASSUME NEW p \in Params, NEW s \in Own(g, p)
      PROVE  s \in Found(f, p)
  <2>1. s \in Sectors /\ g[Addr(s, 0)] \in Headers /\ g[Addr(s, 0)].param = p
    BY DEF Own, read_info
  <2>2. s \notin Swept(f)
    BY <1>2, <1>3, <2>1, CellsApart
  <2>3. f[Addr(s, 0)] \in Headers /\ f[Addr(s, 0)].param = p
    BY <1>2, <1>3, <2>1, <2>2
  <2>4. s \in FoundAll(f)
    BY <2>1, <2>2, <2>3, UnusedIs DEF read_info
  <2>5. PICK q \in Params : s \in Found(f, q)
    BY <2>4 DEF FoundAll
  <2> QED BY <2>3, <2>5, FoundIsOwn
<1> QED BY <1>2, <1>4, <1>5

LEMMA SortedTabInv ==
    ASSUME NEW f \in Flash, InvOff(f), NEW g, g = SweptPart(f, Swept(f)),
           NEW p \in Params
    PROVE  TabInv(g, p, SortedTab(f, p), SaveSector(f, p))
<1> DEFINE S == Found(f, p)
           m == Cardinality(S)
           T == SortedTab(f, p)
           v == SaveSector(f, p)
           N == SecTabSize[p]
<1>1. PICK c : Held(f, p, S, c, m) /\ \A k \in 1..N : SortedEntry(f, p, c, m, k)
  BY SortedIs
<1>2. /\ m \in 0..N /\ m \in Nat /\ N \in Nat /\ N >= 2 /\ c \in Int /\ v \in 1..N
      /\ v = IF m = 0 THEN 1 ELSE m
  <2>1. m \in 0..N /\ v = IF m = 0 THEN 1 ELSE m
    BY SortedIs
  <2>2. N \in Nat /\ N >= 2 /\ c \in Int
    BY <1>1, TabSizes DEF Held
  <2> HIDE DEF m, v, N
  <2> QED BY <2>1, <2>2
<1>3. /\ Own(g, p) = S
      /\ \A s \in S : \A k \in 0..Slots : g[Addr(s, k)] = f[Addr(s, k)]
  BY AfterSweep
<1>4. S = Usable(f, p)
  BY AllAreFound DEF InvOff
<1>5. 0 \in 0..Slots /\ 1 \in 0..Slots /\ Slots \in Nat
  BY ParamSizes
<1>6. \A k \in 1..N :
        k <= m => /\ T[k].sector \in S /\ Age(f, T[k].sector, c) = m - k
                  /\ T[k].num = search_data_num(f, T[k].sector)
                  /\ T[k].num \in 1..Slots
                  /\ T[k].index = f[Addr(T[k].sector, 0)].index
  <2> HIDE DEF m, S
  <2> QED BY <1>1 DEF SortedEntry, S
<1>7. \A k \in 1..N : ~(k <= m) => T[k].num = 0
  <2> HIDE DEF m, S
  <2> QED BY <1>1 DEF SortedEntry
<1> HIDE DEF S, m, T, v, N
<1>8. ASSUME NEW k \in 1..N
      PROVE  /\ k <= m => Back(p, v, k) = m - k /\ Back(p, v, k) < m
             /\ ~(k <= m) => ~(Back(p, v, k) < m)
  <2>1. /\ Back(p, v, k) = IF k <= v THEN v - k ELSE (v - k) + N
        /\ Back(p, v, k) \in 0..(N - 1)
    BY <1>2, BackIs DEF N
  <2> QED BY <1>2, <2>1
<1>9. ASSUME NEW k \in 1..N, k <= m
      PROVE  EntryInv(g, p, T[k], Back(p, v, k), c)
  <2> DEFINE e == T[k]
             s == T[k].sector
  <2>1. s \in S /\ Age(f, s, c) = m - k /\ e.num \in 1..Slots
        /\ e.index = f[Addr(s, 0)].index
    BY <1>6, <1>9
  <2>2. s \in Own(f, p) /\ HasValue(f, s)
    BY <1>4, <2>1, UsableIs
  <2>3. f[Addr(s, 0)] = [param |-> p, index |-> e.index] /\ e.index \in 0..(IndexMod - 1)
    BY <2>1, <2>2, OwnIs
  <2>4. g[Addr(s, 0)] = f[Addr(s, 0)] /\ g[Addr(s, 1)] = f[Addr(s, 1)]
    BY <1>3, <1>5, <2>1
  <2>5. Back(p, v, k) = (c - e.index) % IndexMod
    BY <1>8, <1>9, <2>1 DEF Age
  <2>6. (c - ((c - e.index) % IndexMod)) % IndexMod = e.index
    BY <1>2, <2>3, IndexOfAge
  <2>7. HasValue(g, s)
    BY <2>2, <2>4 DEF HasValue, read_data
  <2> QED BY <2>1, <2>3, <2>4, <2>5, <2>6, <2>7 DEF EntryInv
<1>10. ASSUME NEW s \in Own(g, p)
       PROVE  \E k \in 1..N : Back(p, v, k) < m /\ T[k].sector = s
  <2>1. s \in S
    BY <1>3
  <2>2. Age(f, s, c) \in 0..(m - 1)
    BY <1>1, <2>1 DEF Held, Chain
  <2> DEFINE k == m - Age(f, s, c)
  <2>3. k \in 1..N /\ k <= m /\ Age(f, s, c) = m - k
    BY <1>2, <2>2
  <2>4. T[k].sector \in S /\ Age(f, T[k].sector, c) = m - k
    BY <1>6, <2>3
  <2>5. T[k].sector = s
    BY <1>1, <2>1, <2>3, <2>4 DEF Held, Chain
  <2> HIDE DEF k
  <2> QED BY <1>8, <2>3, <2>5
<1>11. ASSUME m > 0
       PROVE  AppendsFit(g, p, T[v])
  <2> DEFINE s == T[v].sector
  <2>1. v = m /\ v \in 1..N /\ v <= m /\ m - m = 0
    BY <1>2, <1>11
  <2>2. s \in S /\ Age(f, s, c) = 0 /\ T[v].num = search_data_num(f, s)
    BY <1>6, <2>1
  <2>3. Clean(f, p, s)
    BY <1>1, <2>2 DEF Held
  <2>4. ASSUME p \notin Normal, NEW j \in 0..Slots, Filling(f, s, j)
        PROVE  Filling(g, s, T[v].num)
    <3>1. f[Addr(s, 0)].param = p
      BY <2>2, FoundIsOwn DEF S
    <3>2. T[v].num = j
      BY <2>2, <2>4, <3>1, DataNumIs
    <3>3. \A k \in 1..Slots : g[Addr(s, k)] = f[Addr(s, k)]
      BY <1>3, <1>5, <2>2
    <3> QED BY <2>4, <3>2, <3>3 DEF Filling, read_data
  <2> QED BY <2>3, <2>4 DEF Clean, AppendsFit
<1>12. TabIs(g, p, T, v, c, m)
  <2>1. ASSUME NEW k \in 1..N
        PROVE  IF Back(p, v, k) < m THEN EntryInv(g, p, T[k], Back(p, v, k), c)
               ELSE T[k].num = 0
    BY <1>7, <1>8, <1>9
  <2> QED BY <1>10, <1>11, <2>1 DEF TabIs, N
<1>13. c \in 0..(IndexMod - 1) /\ m \in 0..SecTabSize[p]
  BY <1>1 DEF Held
<1>14. TabInv(g, p, T, v)
  BY <1>12, <1>13 DEF TabInv
<1> QED BY <1>14 DEF T, v
-----------------------------------------------------------------------------
(* A save *)

OnInv ==
    /\ TypeOK /\ on /\ SectorsApart
    /\ \A p \in Params : TabInv(part, p, tab[p], save[p])

LEMMA CurrentIs ==
    ASSUME OnInv, NEW p \in Params
    PROVE  /\ part \in Flash /\ tab[p] \in [1..SecTabSize[p] -> Entries]
           /\ save[p] \in 1..SecTabSize[p] /\ NextSave(p) \in 1..SecTabSize[p]
           /\ NextSave(p) # save[p]
           /\ Current(p) \in Entries
           /\ \A k \in 1..SecTabSize[p] :
                Back(p, NextSave(p), k) = IF k = NextSave(p) THEN 0
                                          ELSE Back(p, save[p], k) + 1
           /\ \A k \in 1..SecTabSize[p] :
                k # NextSave(p) => Back(p, save[p], k) + 1 < SecTabSize[p]
           /\ Back(p, save[p], NextSave(p)) = SecTabSize[p] - 1
           /\ Back(p, save[p], save[p]) = 0
<1> DEFINE N == SecTabSize[p]
           v == save[p]
           w == NextSave(p)
<1>1. /\ part \in Flash /\ tab[p] \in [1..N -> Entries] /\ v \in 1..N
  BY DEF OnInv, TypeOK, Flash, Cells
<1>2. N \in Nat /\ N >= 2 /\ N \in Nat \ {0}
  BY TabSizes
<1>3. w = (v % N) + 1
  BY DEF NextSave
<1> HIDE DEF N, v, w
<1>4. w = IF v = N THEN 1 ELSE v + 1
  <2>1. CASE v = N
    <3>1. N * 1 + 0 = v /\ 0 \in 0..(N - 1)
      BY <1>2, <2>1
    <3>2. v % N = 0
      BY <1>2, <3>1, ModUnique
    <3> QED BY <1>3, <2>1, <3>2
  <2>2. CASE v # N
    <3>1. v \in 0..(N - 1)
      BY <1>1, <1>2, <2>2
    <3>2. v % N = v
      BY <1>2, <3>1, ModSmall
    <3> QED BY <1>3, <2>2, <3>2
  <2> QED BY <2>1, <2>2
<1>5. w \in 1..N /\ w # v
  BY <1>1, <1>2, <1>4
<1>6. \A k \in 1..N : /\ Back(p, v, k) = IF k <= v THEN v - k ELSE (v - k) + N
                      /\ Back(p, w, k) = IF k <= w THEN w - k ELSE (w - k) + N
  BY <1>1, <1>5, BackIs DEF N
<1>7. \A k \in 1..N : Back(p, w, k) = IF k = w THEN 0 ELSE Back(p, v, k) + 1
  BY <1>1, <1>2, <1>4, <1>5, <1>6
<1>8. \A k \in 1..N : k # w => Back(p, v, k) + 1 < N
  BY <1>1, <1>2, <1>4, <1>5, <1>6
<1>9. Back(p, v, w) = N - 1 /\ Back(p, v, v) = 0
  BY <1>1, <1>2, <1>4, <1>5, <1>6
<1>10. Current(p) \in Entries
  BY <1>1 DEF Current, N, v
<1> QED BY <1>1, <1>5, <1>7, <1>8, <1>9, <1>10 DEF N, v, w

(* The entry a save writes. *)
SaveAt(p) == IF Moves(p) THEN NextSave(p) ELSE save[p]

TargetFits(p) ==
    /\ Target(p) \in Entries /\ Target(p).num \in 1..Slots
    /\ Target(p).sector = tab[p][SaveAt(p)].sector
    /\ Target(p).sector \in Sectors
    /\ Target(p).index \in 0..(IndexMod - 1)
    /\ Moves(p) => /\ Target(p).num = 1
                   /\ Target(p).index = (Current(p).index + 1) % IndexMod
    /\ Starts(p) => Target(p).num = 1 /\ Target(p).index = 0
    /\ Appends(p) => /\ Target(p).num = Current(p).num + 1
                     /\ Target(p).index = Current(p).index
                     /\ Target(p).sector = Current(p).sector
                     /\ p \notin Normal /\ Current(p).num \in 1..Slots

LEMMA TargetIs ==
    ASSUME OnInv, NEW p \in Params
    PROVE  SaveAt(p) \in 1..SecTabSize[p] /\ TargetFits(p)
<1> DEFINE C == Current(p)
           E == tab[p][NextSave(p)]
           T == Target(p)
<1>1. /\ SaveAt(p) \in 1..SecTabSize[p]
      /\ C \in Entries /\ E \in Entries
      /\ tab[p][save[p]] = C
  BY CurrentIs DEF SaveAt, Current
<1>2. Slots \in Nat \ {0} /\ IndexMod \in Nat \ {0}
  BY ParamSizes
<1>3. /\ T = IF Moves(p) THEN [sector |-> E.sector, num |-> 1,
                               index |-> (C.index + 1) % IndexMod]
             ELSE IF Starts(p) THEN [C EXCEPT !.num = 1, !.index = 0]
             ELSE [C EXCEPT !.num = @ + 1]
      /\ Starts(p) <=> C.num = 0
      /\ Moves(p) => C.num # 0
      /\ Moves(p) <=> C.num # 0 /\ (p \in Normal \/ C.num + 1 > Slots)
      /\ Appends(p) <=> ~Moves(p) /\ ~Starts(p)
      /\ SaveAt(p) = IF Moves(p) THEN NextSave(p) ELSE save[p]
  BY DEF Target, Moves, Starts, Appends, SaveAt
<1> HIDE DEF C, E, T
<1>4. C.sector \in Sectors /\ E.sector \in Sectors /\ C.num \in 0..Slots
      /\ C.index \in 0..(IndexMod - 1)
      /\ C = [sector |-> C.sector, num |-> C.num, index |-> C.index]
  BY <1>1 DEF Entries
<1>5. (C.index + 1) % IndexMod \in 0..(IndexMod - 1) /\ 0 \in 0..(IndexMod - 1)
      /\ 1 \in 0..Slots /\ 1 \in 1..Slots
  BY <1>2, <1>4, DivMod
<1>6. CASE Moves(p)
  <2> DEFINE i == (C.index + 1) % IndexMod
  <2>1. T = [sector |-> E.sector, num |-> 1, index |-> i]
    BY <1>3, <1>6
  <2>2. i \in 0..(IndexMod - 1) /\ 1 \in 0..Slots
    BY <1>5
  <2> HIDE DEF i
  <2>3. T \in Entries /\ T.sector = E.sector /\ T.num = 1 /\ T.index = i
    BY <1>4, <2>1, <2>2 DEF Entries
  <2>4. ~Starts(p) /\ ~Appends(p) /\ SaveAt(p) = NextSave(p)
    BY <1>3, <1>6
  <2> QED BY <1>1, <1>4, <1>5, <1>6, <2>2, <2>3, <2>4 DEF TargetFits, T, C, E, i
<1>7. CASE Starts(p)
  <2>1. ~Moves(p) /\ ~Appends(p) /\ SaveAt(p) = save[p]
    BY <1>3, <1>7
  <2>2. T = [sector |-> C.sector, num |-> 1, index |-> 0]
    BY <1>3, <1>4, <1>7, <2>1
  <2>3. T \in Entries /\ T.sector = C.sector /\ T.num = 1 /\ T.index = 0
    BY <1>4, <1>5, <2>2 DEF Entries
  <2> QED BY <1>1, <1>4, <1>5, <1>7, <2>1, <2>3 DEF TargetFits, T, C
<1>8. CASE Appends(p)
  <2>1. ~Moves(p) /\ ~Starts(p) /\ SaveAt(p) = save[p]
    BY <1>3, <1>8
  <2>2. p \notin Normal /\ C.num # 0 /\ ~(C.num + 1 > Slots)
    BY <1>3, <2>1
  <2>3. C.num \in 1..Slots /\ C.num + 1 \in 1..Slots /\ C.num + 1 \in 0..Slots
    BY <1>2, <1>4, <2>2
  <2> DEFINE n == C.num + 1
  <2>4. T = [sector |-> C.sector, num |-> n, index |-> C.index]
    BY <1>3, <1>4, <2>1
  <2> HIDE DEF n
  <2>5. T \in Entries /\ T.sector = C.sector /\ T.num = n /\ T.index = C.index
    BY <1>4, <2>3, <2>4 DEF Entries, n
  <2> QED BY <1>1, <1>4, <1>8, <2>1, <2>2, <2>3, <2>5 DEF TargetFits, T, C, n
<1> QED BY <1>1, <1>3, <1>6, <1>7, <1>8

(* The sector before the value is written to it. *)
LEMMA PreparedIs ==
    ASSUME OnInv, NEW p \in Params, NEW g, g = Prepared(p)
    PROVE  /\ g \in Flash
           /\ \A t \in Sectors, l \in 0..Slots :
                g[Addr(t, l)] = IF t = Target(p).sector /\ ~Appends(p)
                                THEN IF l = 0 THEN HeaderOf(p) ELSE Erased
                                ELSE part[Addr(t, l)]
           /\ HeaderOf(p) \in Headers
<1> DEFINE s == Target(p).sector
           e == flash_part_erase_len(part, Addr(s, 0), SectorUnits)
<1>1. s \in Sectors /\ Target(p).index \in 0..(IndexMod - 1) /\ part \in Flash
      /\ 0 \in 0..Slots
  BY TargetIs, CurrentIs, ParamSizes DEF TargetFits
<1>2. HeaderOf(p) \in Headers
  BY <1>1 DEF HeaderOf, Headers
<1>3. CASE Appends(p)
  <2>1. g = part
    BY <1>3 DEF Prepared
  <2> QED BY <1>1, <1>2, <1>3, <2>1
<1>4. CASE ~Appends(p)
  <2>1. g = Put(e, s, 0, HeaderOf(p))
    BY <1>4 DEF Prepared
  <2> HIDE DEF s
  <2>2. /\ e \in Flash
        /\ \A t \in Sectors, l \in 0..Slots :
             e[Addr(t, l)] = IF t = s THEN Erased ELSE part[Addr(t, l)]
    BY <1>1, EraseIs
  <2> HIDE DEF e
  <2>3. HeaderOf(p) \in Cells
    BY <1>2, CellsApart
  <2>4. /\ g \in Flash
        /\ \A t \in Sectors, l \in 0..Slots :
             g[Addr(t, l)] = IF t = s /\ l = 0 THEN Program(e[Addr(s, 0)], HeaderOf(p))
                             ELSE e[Addr(t, l)]
    BY <1>1, <2>1, <2>2, <2>3, PutIs
  <2>5. Program(e[Addr(s, 0)], HeaderOf(p)) = HeaderOf(p)
    BY <1>1, <2>2 DEF Program
  <2> QED BY <1>2, <1>4, <2>2, <2>4, <2>5 DEF s
<1> QED BY <1>3, <1>4

(* And after. *)
Written(p, v) == Put(Prepared(p), Target(p).sector, Target(p).num, v)

LEMMA WrittenIs ==
    ASSUME OnInv, NEW p \in Params, NEW v \in Values, NEW g, g = Written(p, v)
    PROVE  /\ g \in Flash
           /\ \A t \in Sectors \ {Target(p).sector}, l \in 0..Slots :
                g[Addr(t, l)] = part[Addr(t, l)]
           /\ \A l \in 0..Slots :
                g[Addr(Target(p).sector, l)] =
                    IF l = Target(p).num
                    THEN IF Appends(p) THEN Program(part[Addr(Target(p).sector, l)], v)
                         ELSE v
                    ELSE IF Appends(p) THEN part[Addr(Target(p).sector, l)]
                    ELSE IF l = 0 THEN HeaderOf(p) ELSE Erased
           /\ HeaderOf(p) \in Headers
<1> DEFINE s == Target(p).sector
           n == Target(p).num
           f == Prepared(p)
<1>1. s \in Sectors /\ n \in 1..Slots /\ n \in 0..Slots /\ v \in Cells /\ n # 0
      /\ 0 \in 0..Slots
  BY TargetIs, CellsApart, ParamSizes DEF TargetFits
<1>2. /\ f \in Flash /\ HeaderOf(p) \in Headers
      /\ \A t \in Sectors, l \in 0..Slots :
           f[Addr(t, l)] = IF t = s /\ ~Appends(p)
                           THEN IF l = 0 THEN HeaderOf(p) ELSE Erased
                           ELSE part[Addr(t, l)]
  BY PreparedIs
<1>3. g = Put(f, s, n, v)
  BY DEF Written
<1> HIDE DEF s, n, f
<1>4. /\ g \in Flash
      /\ \A t \in Sectors, l \in 0..Slots :
           g[Addr(t, l)] = IF t = s /\ l = n THEN Program(f[Addr(s, n)], v)
                           ELSE f[Addr(t, l)]
  BY <1>1, <1>2, <1>3, PutIs
<1>5. \A t \in Sectors \ {s}, l \in 0..Slots : g[Addr(t, l)] = part[Addr(t, l)]
  BY <1>2, <1>4
<1>6. ASSUME NEW l \in 0..Slots
      PROVE  g[Addr(s, l)] =
               IF l = n THEN IF Appends(p) THEN Program(part[Addr(s, l)], v) ELSE v
               ELSE IF Appends(p) THEN part[Addr(s, l)]
               ELSE IF l = 0 THEN HeaderOf(p) ELSE Erased
  <2>1. CASE l = n
    <3>1. g[Addr(s, l)] = Program(f[Addr(s, l)], v)
      BY <1>1, <1>4, <2>1
    <3>2. ~Appends(p) => f[Addr(s, l)] = Erased
      BY <1>1, <1>2, <2>1
    <3>3. Appends(p) => f[Addr(s, l)] = part[Addr(s, l)]
      BY <1>1, <1>2
    <3>4. Program(Erased, v) = v
      BY DEF Program
    <3> QED BY <2>1, <3>1, <3>2, <3>3, <3>4
  <2>2. CASE l # n
    BY <1>1, <1>2, <1>4, <2>2
  <2> QED BY <2>1, <2>2
<1> QED BY <1>2, <1>4, <1>5, <1>6 DEF s, n
-----------------------------------------------------------------------------
(* What a save does to the tables *)

(* f and g agree outside of sector s. *)
SameBut(f, g, s) ==
    \A t \in Sectors \ {s}, l \in 0..Slots : g[Addr(t, l)] = f[Addr(t, l)]

LEMMA SameButOwn ==
    ASSUME NEW f, NEW g, NEW s \in Sectors, SameBut(f, g, s), NEW p
    PROVE  /\ \A t : t # s => (t \in Own(g, p) <=> t \in Own(f, p))
           /\ \A t \in Sectors : t # s =>
                /\ g[Addr(t, 0)] = f[Addr(t, 0)]
                /\ HasValue(g, t) <=> HasValue(f, t)
                /\ \A n : Filling(g, t, n) <=> Filling(f, t, n)
                /\ Clean(g, p, t) <=> Clean(f, p, t)
                /\ \A c : Age(g, t, c) = Age(f, t, c)
<1>1. 0 \in 0..Slots /\ 1 \in 0..Slots /\ \A k \in 1..Slots : k \in 0..Slots
  BY ParamSizes
<1>2. \A t \in Sectors : t # s => \A l \in 0..Slots : g[Addr(t, l)] = f[Addr(t, l)]
  BY DEF SameBut
<1>3. \A t : t # s => (t \in Own(g, p) <=> t \in Own(f, p))
  BY <1>1, <1>2 DEF Own, read_info
<1>4. ASSUME NEW t \in Sectors, t # s
      PROVE  /\ g[Addr(t, 0)] = f[Addr(t, 0)]
             /\ HasValue(g, t) <=> HasValue(f, t)
             /\ \A n : Filling(g, t, n) <=> Filling(f, t, n)
             /\ \A c : Age(g, t, c) = Age(f, t, c)
  <2>1. g[Addr(t, 0)] = f[Addr(t, 0)] /\ g[Addr(t, 1)] = f[Addr(t, 1)]
        /\ \A k \in 1..Slots : g[Addr(t, k)] = f[Addr(t, k)]
    BY <1>1, <1>2, <1>4
  <2>2. \A n : Filling(g, t, n) <=> Filling(f, t, n)
    BY <2>1 DEF Filling, read_data
  <2> QED BY <2>1, <2>2 DEF HasValue, read_data, Age
<1>5. \A t \in Sectors : t # s => (Clean(g, p, t) <=> Clean(f, p, t))
  BY <1>4 DEF Clean
<1> QED BY <1>3, <1>4, <1>5

LEMMA TabFrame ==
    ASSUME NEW f, NEW g, NEW s \in Sectors, SameBut(f, g, s),
           NEW p \in Params, NEW t \in [1..SecTabSize[p] -> Entries],
           NEW v \in 1..SecTabSize[p], TabInv(f, p, t, v),
           \A k \in 1..SecTabSize[p] : t[k].sector # s,
           s \notin Own(g, p)
    PROVE  TabInv(g, p, t, v)
<1>1. PICK c \in 0..(IndexMod - 1), n \in 0..SecTabSize[p] : TabIs(f, p, t, v, c, n)
  BY DEF TabInv
<1>2. \A k \in 1..SecTabSize[p] : t[k].sector \in Sectors /\ t[k].sector # s
  BY DEF Entries
<1>3. ASSUME NEW k \in 1..SecTabSize[p], NEW a, EntryInv(f, p, t[k], a, c)
      PROVE  EntryInv(g, p, t[k], a, c)
  <2>1. /\ g[Addr(t[k].sector, 0)] = f[Addr(t[k].sector, 0)]
        /\ HasValue(g, t[k].sector) <=> HasValue(f, t[k].sector)
    BY <1>2, SameButOwn
  <2> QED BY <1>3, <2>1 DEF EntryInv
<1>4. \A k \in 1..SecTabSize[p] :
         IF Back(p, v, k) < n THEN EntryInv(g, p, t[k], Back(p, v, k), c)
         ELSE t[k].num = 0
  BY <1>1, <1>3 DEF TabIs
<1>5. \A u \in Own(g, p) :
         \E k \in 1..SecTabSize[p] : Back(p, v, k) < n /\ t[k].sector = u
  <2>1. \A u \in Own(g, p) : u \in Own(f, p)
    BY SameButOwn
  <2> QED BY <1>1, <2>1 DEF TabIs
<1>6. n > 0 => AppendsFit(g, p, t[v])
  <2>1. Filling(g, t[v].sector, t[v].num) <=> Filling(f, t[v].sector, t[v].num)
    BY <1>2, SameButOwn
  <2> QED BY <1>1, <2>1 DEF TabIs, AppendsFit
<1>7. TabIs(g, p, t, v, c, n)
  BY <1>4, <1>5, <1>6 DEF TabIs
<1> QED BY <1>7 DEF TabInv

(* No other parameter has the sector that is written, in its table or with  *)
(* its header.                                                              *)
LEMMA OthersApart ==
    ASSUME OnInv, NEW p \in Params, NEW q \in Params, q # p
    PROVE  /\ \A k \in 1..SecTabSize[q] : tab[q][k].sector # Target(p).sector
           /\ Target(p).sector \notin Own(part, q)
<1>1. SaveAt(p) \in 1..SecTabSize[p]
      /\ Target(p).sector = tab[p][SaveAt(p)].sector
  BY TargetIs DEF TargetFits
<1>2. \A k \in 1..SecTabSize[q] : tab[q][k].sector # Target(p).sector
  BY <1>1 DEF OnInv, SectorsApart
<1>3. \A s \in Own(part, q) : \E k \in 1..SecTabSize[q] : tab[q][k].sector = s
  BY DEF OnInv, TabInv, TabIs
<1> QED BY <1>2, <1>3

LEMMA SaveKeepsOthers ==
    ASSUME OnInv, NEW p \in Params, NEW val \in Values,
           NEW g, g = Written(p, val), NEW q \in Params, q # p
    PROVE  TabInv(g, q, tab[q], save[q])
<1> DEFINE s == Target(p).sector
<1>1. s \in Sectors
  BY TargetIs DEF TargetFits
<1>2. SameBut(part, g, s)
  BY WrittenIs DEF SameBut
<1>3. s \notin Own(g, q)
  <2>1. 0 \in 0..Slots /\ Target(p).num # 0
    BY TargetIs, ParamSizes DEF TargetFits
  <2>2. g[Addr(s, 0)] = IF Appends(p) THEN part[Addr(s, 0)] ELSE HeaderOf(p)
    BY <2>1, WrittenIs
  <2>3. s \notin Own(part, q)
    BY OthersApart
  <2>4. HeaderOf(p).param # q
    BY DEF HeaderOf
  <2> QED BY <2>2, <2>3, <2>4 DEF Own, read_info
<1>4. \A k \in 1..SecTabSize[q] : tab[q][k].sector # s
  BY OthersApart
<1>5. tab[q] \in [1..SecTabSize[q] -> Entries] /\ save[q] \in 1..SecTabSize[q]
  BY CurrentIs
<1>6. TabInv(part, q, tab[q], save[q])
  BY DEF OnInv
<1> HIDE DEF s
<1> QED BY <1>1, <1>2, <1>3, <1>4, <1>5, <1>6, TabFrame

(* The parameter's own table. *)
NewTab(p) == [tab[p] EXCEPT ![SaveAt(p)] = Target(p)]

LEMMA NewTabIs ==
    ASSUME OnInv, NEW p \in Params
    PROVE  /\ NewTab(p) \in [1..SecTabSize[p] -> Entries]
           /\ NewTab(p)[SaveAt(p)] = Target(p)
           /\ \A k \in 1..SecTabSize[p] :
                /\ k # SaveAt(p) => /\ NewTab(p)[k] = tab[p][k]
                                    /\ tab[p][k].sector # Target(p).sector
                                    /\ tab[p][k].sector \in Sectors
                /\ NewTab(p)[k].sector = tab[p][k].sector
<1>1. tab[p] \in [1..SecTabSize[p] -> Entries] /\ SaveAt(p) \in 1..SecTabSize[p]
      /\ Target(p) \in Entries /\ Target(p).sector = tab[p][SaveAt(p)].sector
  BY CurrentIs, TargetIs DEF TargetFits
<1>2. \A k \in 1..SecTabSize[p] : k # SaveAt(p) => tab[p][k].sector # Target(p).sector
  BY <1>1 DEF OnInv, SectorsApart
<1>3. \A k \in 1..SecTabSize[p] : tab[p][k].sector \in Sectors
  BY <1>1 DEF Entries
<1> QED BY <1>1, <1>2, <1>3 DEF NewTab

LEMMA MoveKeepsTab ==
    ASSUME OnInv, NEW p \in Params, NEW val \in Values,
           NEW g, g = Written(p, val), Moves(p)
    PROVE  TabInv(g, p, NewTab(p), SaveAt(p))
<1> DEFINE N == SecTabSize[p]
           v == save[p]
           w == NextSave(p)
           t == tab[p]
           s == Target(p).sector
<1>1. PICK c \in 0..(IndexMod - 1), n \in 0..N : TabIs(part, p, t, v, c, n)
  BY DEF OnInv, TabInv
<1>2. /\ N \in Nat /\ N >= 2 /\ N < IndexMod /\ IndexMod \in Nat \ {0} /\ n \in Nat
      /\ c \in Int /\ n <= N
  BY <1>1, TabSizes
<1>3. /\ v \in 1..N /\ w \in 1..N /\ w # v /\ SaveAt(p) = w
      /\ \A k \in 1..N : Back(p, w, k) = IF k = w THEN 0 ELSE Back(p, v, k) + 1
      /\ \A k \in 1..N : k # w => Back(p, v, k) + 1 < N
      /\ \A k \in 1..N : Back(p, v, k) \in 0..(N - 1)
      /\ Back(p, v, v) = 0
  BY CurrentIs, BackIs DEF SaveAt
<1>4. /\ s \in Sectors /\ Target(p).num = 1
      /\ Target(p).index = (Current(p).index + 1) % IndexMod
      /\ Current(p) = t[v] /\ t[v].num # 0 /\ ~Appends(p)
  BY TargetIs DEF TargetFits, Current, Moves, Appends
<1>5. /\ NewTab(p)[w] = Target(p)
      /\ \A k \in 1..N : k # w => NewTab(p)[k] = t[k] /\ t[k].sector # s
                                  /\ t[k].sector \in Sectors
      /\ \A k \in 1..N : NewTab(p)[k].sector = t[k].sector
  BY <1>3, NewTabIs
<1> DEFINE d == (c + 1) % IndexMod
           m == IF n = N THEN N ELSE n + 1
<1>6. d \in 0..(IndexMod - 1) /\ m \in 0..N /\ m > 0
  <2>1. c + 1 \in Int
    BY <1>2
  <2>2. d \in 0..(IndexMod - 1)
    BY <1>2, <2>1, DivMod
  <2>3. m \in 0..N /\ m > 0
    BY <1>2
  <2> QED BY <2>2, <2>3
<1>7. SameBut(part, g, s)
  BY WrittenIs DEF SameBut
<1>8. /\ g[Addr(s, 0)] = HeaderOf(p) /\ g[Addr(s, 1)] = val
      /\ \A k \in 1..Slots : k # 1 => g[Addr(s, k)] = Erased
  <2>1. 0 \in 0..Slots /\ 1 \in 0..Slots
        /\ \A k \in 1..Slots : k \in 0..Slots /\ k # 0
    BY ParamSizes
  <2> QED BY <1>4, <2>1, WrittenIs
<1>9. \A k \in 1..N :
         IF Back(p, v, k) < n THEN EntryInv(part, p, t[k], Back(p, v, k), c)
         ELSE t[k].num = 0
  BY <1>1 DEF TabIs
<1>10. Back(p, v, v) < n /\ t[v].index = c
  <2>1. Back(p, v, v) < n
    BY <1>3, <1>4, <1>9
  <2>2. t[v].index = (c - 0) % IndexMod
    BY <1>3, <1>9, <2>1 DEF EntryInv
  <2>3. c - 0 = c /\ c % IndexMod = c
    BY <1>1, <1>2, ModSmall
  <2> QED BY <2>1, <2>2, <2>3
<1> HIDE DEF N, v, w, t, s
<1>11. ASSUME NEW k \in 1..N, k # w
       PROVE  IF Back(p, w, k) < m
              THEN EntryInv(g, p, NewTab(p)[k], Back(p, w, k), d)
              ELSE NewTab(p)[k].num = 0
  <2> DEFINE b == Back(p, v, k)
  <2>1. Back(p, w, k) = b + 1 /\ b \in 0..(N - 1) /\ b + 1 < N
    BY <1>3, <1>11
  <2>2. NewTab(p)[k] = t[k] /\ t[k].sector # s /\ t[k].sector \in Sectors
    BY <1>5, <1>11
  <2>3. Back(p, w, k) < m <=> b < n
    BY <1>2, <2>1
  <2>4. CASE b < n
    <3>1. EntryInv(part, p, t[k], b, c)
      BY <1>9, <2>4
    <3>2. (c - b) % IndexMod = (d - (b + 1)) % IndexMod
      <4> DEFINE j == 0 - (b + 1)
                 e == c + 1
      <4>1. e \in Int /\ j \in Int
        BY <1>2, <2>1
      <4>2. d = e % IndexMod /\ d \in Int
        BY <1>6
      <4> HIDE DEF d, e, j
      <4>3. ((e % IndexMod) + j) % IndexMod = (e + j) % IndexMod
        BY <1>2, <4>1, ModAdd
      <4>4. e + j = c - b /\ d + j = d - (b + 1)
        BY <1>2, <2>1, <4>2 DEF e, j
      <4> QED BY <4>2, <4>3, <4>4
    <3>3. g[Addr(t[k].sector, 0)] = part[Addr(t[k].sector, 0)]
          /\ (HasValue(g, t[k].sector) <=> HasValue(part, t[k].sector))
      BY <1>4, <1>7, <2>2, SameButOwn
    <3>4. EntryInv(g, p, t[k], b + 1, d)
      <4> HIDE DEF b, d
      <4> QED BY <3>1, <3>2, <3>3 DEF EntryInv
    <3> QED BY <2>1, <2>2, <2>3, <2>4, <3>4
  <2>5. CASE ~(b < n)
    BY <1>9, <2>2, <2>3, <2>5
  <2> QED BY <2>4, <2>5
<1>12. Back(p, w, w) = 0
  BY <1>3
<1>13. EntryInv(g, p, NewTab(p)[w], Back(p, w, w), d)
  <2>1. Target(p).index = d
    BY <1>4, <1>10
  <2>2. (d - 0) % IndexMod = d
    <3>1. d - 0 = d
      BY <1>6
    <3> HIDE DEF d
    <3> QED BY <1>2, <1>6, <3>1, ModSmall
  <2>3. HeaderOf(p) = [param |-> p, index |-> Target(p).index]
    BY DEF HeaderOf
  <2>4. HasValue(g, s)
    BY <1>8 DEF HasValue, read_data
  <2>5. 1 \in 1..Slots
    BY ParamSizes
  <2> HIDE DEF d
  <2> QED BY <1>4, <1>5, <1>8, <1>12, <2>1, <2>2, <2>3, <2>4, <2>5 DEF EntryInv, s
<1>14. ASSUME NEW u \in Own(g, p)
       PROVE  \E k \in 1..N : Back(p, w, k) < m /\ NewTab(p)[k].sector = u
  <2>1. CASE u = s
    <3>1. Back(p, w, w) < m /\ NewTab(p)[w].sector = s
      BY <1>5, <1>6, <1>12 DEF s
    <3> QED BY <1>3, <2>1, <3>1
  <2>2. CASE u # s
    <3>1. u \in Own(part, p)
      BY <1>4, <1>7, <2>2, SameButOwn
    <3>2. PICK k \in 1..N : Back(p, v, k) < n /\ t[k].sector = u
      BY <1>1, <3>1 DEF TabIs, N
    <3>3. NewTab(p)[k].sector = u /\ Back(p, v, k) \in 0..(N - 1)
      BY <1>3, <1>5, <3>2
    <3>4. t[w].sector = s
      BY <1>3, TargetIs DEF TargetFits, s, t
    <3>5. k # w
      BY <2>2, <3>2, <3>4
    <3>6. Back(p, w, k) < m
      BY <1>2, <1>3, <3>2, <3>3, <3>5
    <3> QED BY <3>3, <3>6
  <2> QED BY <2>1, <2>2
<1>15. AppendsFit(g, p, NewTab(p)[w])
  <2>1. \A k \in 1..Slots : IF k <= 1 THEN read_data(g, s, k) ELSE g[Addr(s, k)] = Erased
    <3>1. \A k \in 1..Slots : k <= 1 <=> k = 1
      BY ParamSizes
    <3> QED BY <1>8, <3>1 DEF read_data
  <2> QED BY <1>4, <1>5, <2>1 DEF AppendsFit, Filling, s
<1>16. TabIs(g, p, NewTab(p), w, d, m)
  <2>1. ASSUME NEW k \in 1..N
        PROVE  IF Back(p, w, k) < m
               THEN EntryInv(g, p, NewTab(p)[k], Back(p, w, k), d)
               ELSE NewTab(p)[k].num = 0
    <3>1. CASE k = w
      BY <1>6, <1>12, <1>13, <3>1
    <3>2. CASE k # w
      BY <1>11, <3>2
    <3> QED BY <3>1, <3>2
  <2> HIDE DEF d, m
  <2> QED BY <1>14, <1>15, <2>1 DEF TabIs, N
<1> HIDE DEF d, m
<1> QED BY <1>3, <1>6, <1>16 DEF TabInv, N

LEMMA StartKeepsTab ==
    ASSUME OnInv, NEW p \in Params, NEW val \in Values,
           NEW g, g = Written(p, val), Starts(p)
    PROVE  TabInv(g, p, NewTab(p), SaveAt(p)) /\ Own(part, p) = {}
<1> DEFINE N == SecTabSize[p]
           v == save[p]
           t == tab[p]
           s == Target(p).sector
<1>1. PICK c \in 0..(IndexMod - 1), n \in 0..N : TabIs(part, p, t, v, c, n)
  BY DEF OnInv, TabInv
<1>2. /\ N \in Nat /\ N >= 2 /\ IndexMod \in Nat \ {0} /\ n \in Nat
  BY <1>1, TabSizes
<1>3. /\ v \in 1..N /\ SaveAt(p) = v
      /\ \A k \in 1..N : /\ Back(p, v, k) = IF k <= v THEN v - k ELSE (v - k) + N
                         /\ Back(p, v, k) \in 0..(N - 1)
      /\ Back(p, v, v) = 0
  BY CurrentIs, BackIs DEF SaveAt, Starts, Moves
<1>4. /\ s \in Sectors /\ Target(p).num = 1 /\ Target(p).index = 0
      /\ t[v].num = 0 /\ ~Appends(p)
  BY TargetIs DEF TargetFits, Current, Starts, Appends
<1>5. /\ NewTab(p)[v] = Target(p)
      /\ \A k \in 1..N : k # v => NewTab(p)[k] = t[k]
  BY <1>3, NewTabIs
<1>6. SameBut(part, g, s)
  BY WrittenIs DEF SameBut
<1>7. /\ g[Addr(s, 0)] = HeaderOf(p) /\ g[Addr(s, 1)] = val
      /\ \A k \in 1..Slots : k # 1 => g[Addr(s, k)] = Erased
  <2>1. 0 \in 0..Slots /\ 1 \in 0..Slots
        /\ \A k \in 1..Slots : k \in 0..Slots /\ k # 0
    BY ParamSizes
  <2> QED BY <1>4, <2>1, WrittenIs
<1>8. n = 0
  <2>1. ~(Back(p, v, v) < n)
    <3>1. Back(p, v, v) < n => EntryInv(part, p, t[v], Back(p, v, v), c)
      BY <1>1, <1>3 DEF TabIs
    <3>2. ~(0 \in 1..Slots)
      BY ParamSizes
    <3> QED BY <1>4, <3>1, <3>2 DEF EntryInv
  <2> QED BY <1>2, <1>3, <2>1
<1> HIDE DEF N, v, t, s
<1>9. \A k \in 1..N : ~(Back(p, v, k) < n)
  BY <1>3, <1>8
<1>10. Own(part, p) = {}
  BY <1>1, <1>9 DEF TabIs, N
<1>11. \A k \in 1..N : t[k].num = 0
  BY <1>1, <1>9 DEF TabIs, N
<1>12. \A k \in 1..N : Back(p, v, k) < 1 <=> k = v
  BY <1>2, <1>3
<1>13. EntryInv(g, p, NewTab(p)[v], Back(p, v, v), 0)
  <2>1. (0 - 0) % IndexMod = 0
    <3>1. 0 \in 0..(IndexMod - 1) /\ 0 - 0 = 0
      BY <1>2
    <3> QED BY <1>2, <3>1, ModSmall
  <2>2. HeaderOf(p) = [param |-> p, index |-> Target(p).index]
    BY DEF HeaderOf
  <2>3. HasValue(g, s)
    BY <1>7 DEF HasValue, read_data
  <2>4. 1 \in 1..Slots
    BY ParamSizes
  <2> QED BY <1>3, <1>4, <1>5, <1>7, <2>1, <2>2, <2>3, <2>4 DEF EntryInv, s
<1>14. \A u \in Own(g, p) :
         \E k \in 1..N : Back(p, v, k) < 1 /\ NewTab(p)[k].sector = u
  <2>1. \A u \in Own(g, p) : u = s
    BY <1>4, <1>6, <1>10, SameButOwn
  <2>2. NewTab(p)[v].sector = s
    BY <1>5 DEF s
  <2> QED BY <1>3, <1>12, <2>1, <2>2
<1>15. AppendsFit(g, p, NewTab(p)[v])
  <2>1. \A k \in 1..Slots : IF k <= 1 THEN read_data(g, s, k) ELSE g[Addr(s, k)] = Erased
    <3>1. \A k \in 1..Slots : k <= 1 <=> k = 1
      BY ParamSizes
    <3> QED BY <1>7, <3>1 DEF read_data
  <2> QED BY <1>4, <1>5, <2>1 DEF AppendsFit, Filling, s
<1>16. TabIs(g, p, NewTab(p), v, 0, 1)
  <2>1. \A k \in 1..N : IF Back(p, v, k) < 1
                        THEN EntryInv(g, p, NewTab(p)[k], Back(p, v, k), 0)
                        ELSE NewTab(p)[k].num = 0
    BY <1>5, <1>11, <1>12, <1>13
  <2> QED BY <1>14, <1>15, <2>1 DEF TabIs, N
<1>17. 0 \in 0..(IndexMod - 1) /\ 1 \in 0..SecTabSize[p]
  BY <1>2 DEF N
<1> QED BY <1>3, <1>10, <1>16, <1>17 DEF TabInv

LEMMA AppendKeepsTab ==
    ASSUME OnInv, NEW p \in Params, NEW val \in Values,
           NEW g, g = Written(p, val), Appends(p)
    PROVE  /\ TabInv(g, p, NewTab(p), SaveAt(p))
           /\ AppendTears \/ part[Addr(Target(p).sector, Target(p).num)] = Erased
<1> DEFINE N == SecTabSize[p]
           v == save[p]
           t == tab[p]
           s == Target(p).sector
           j == Target(p).num
<1>1. PICK c \in 0..(IndexMod - 1), n \in 0..N : TabIs(part, p, t, v, c, n)
  BY DEF OnInv, TabInv
<1>2. /\ N \in Nat /\ N >= 2 /\ IndexMod \in Nat \ {0} /\ n \in Nat
      /\ 0 \in 0..Slots /\ 1 \in 0..Slots /\ Slots \in Nat
      /\ \A k \in 1..Slots : k \in 0..Slots /\ k # 0
  BY <1>1, TabSizes, ParamSizes
<1>3. /\ v \in 1..N /\ SaveAt(p) = v
      /\ \A k \in 1..N : Back(p, v, k) \in 0..(N - 1)
      /\ Back(p, v, v) = 0
  BY CurrentIs, BackIs DEF SaveAt, Appends
<1>4. /\ s \in Sectors /\ j \in 1..Slots /\ j = t[v].num + 1
      /\ Target(p).index = t[v].index /\ s = t[v].sector
      /\ t[v].num \in 1..Slots /\ p \notin Normal
  BY TargetIs DEF TargetFits, Current
<1>5. /\ NewTab(p)[v] = Target(p)
      /\ \A k \in 1..N : k # v => NewTab(p)[k] = t[k] /\ t[k].sector # s
                                  /\ t[k].sector \in Sectors
      /\ \A k \in 1..N : NewTab(p)[k].sector = t[k].sector
  BY <1>3, NewTabIs
<1>6. SameBut(part, g, s)
  BY WrittenIs DEF SameBut
<1>7. \A l \in 0..Slots : g[Addr(s, l)] = IF l = j THEN Program(part[Addr(s, l)], val)
                                          ELSE part[Addr(s, l)]
  BY WrittenIs
<1>8. j # 0 /\ j # 1 /\ j \in 0..Slots
  BY <1>2, <1>4
<1>9. \A k \in 1..N :
         IF Back(p, v, k) < n THEN EntryInv(part, p, t[k], Back(p, v, k), c)
         ELSE t[k].num = 0
  BY <1>1 DEF TabIs
<1>10. Back(p, v, v) < n /\ n > 0
  <2>1. t[v].num # 0
    BY <1>4
  <2> QED BY <1>2, <1>3, <1>9, <2>1
<1>11. AppendTears \/ Filling(part, s, t[v].num)
  BY <1>1, <1>4, <1>10 DEF TabIs, AppendsFit
<1>12. AppendTears \/ part[Addr(s, j)] = Erased
  <2>1. ~(j <= t[v].num)
    BY <1>4
  <2> QED BY <1>4, <1>11, <2>1 DEF Filling
<1> HIDE DEF N, v, t, s, j
<1>13. EntryInv(g, p, NewTab(p)[v], Back(p, v, v), c)
  <2>1. EntryInv(part, p, t[v], Back(p, v, v), c)
    BY <1>3, <1>9, <1>10
  <2>2. g[Addr(s, 0)] = part[Addr(s, 0)] /\ g[Addr(s, 1)] = part[Addr(s, 1)]
    BY <1>2, <1>7, <1>8
  <2>3. HasValue(g, s) <=> HasValue(part, s)
    BY <2>2 DEF HasValue, read_data
  <2> QED BY <1>4, <1>5, <2>1, <2>2, <2>3 DEF EntryInv, s, j
<1>14. ASSUME NEW k \in 1..N, k # v
       PROVE  IF Back(p, v, k) < n
              THEN EntryInv(g, p, NewTab(p)[k], Back(p, v, k), c)
              ELSE NewTab(p)[k].num = 0
  <2>1. NewTab(p)[k] = t[k] /\ t[k].sector # s /\ t[k].sector \in Sectors
    BY <1>5, <1>14
  <2>2. g[Addr(t[k].sector, 0)] = part[Addr(t[k].sector, 0)]
        /\ (HasValue(g, t[k].sector) <=> HasValue(part, t[k].sector))
    BY <1>4, <1>6, <2>1, SameButOwn
  <2> QED BY <1>9, <2>1, <2>2 DEF EntryInv
<1>15. ASSUME NEW u \in Own(g, p)
       PROVE  \E k \in 1..N : Back(p, v, k) < n /\ NewTab(p)[k].sector = u
  <2>1. g[Addr(s, 0)] = part[Addr(s, 0)]
    BY <1>2, <1>7, <1>8
  <2>2. u \in Own(part, p)
    <3>1. CASE u = s
      BY <2>1, <3>1 DEF Own, read_info
    <3>2. CASE u # s
      BY <1>4, <1>6, <3>2, SameButOwn
    <3> QED BY <3>1, <3>2
  <2>3. PICK k \in 1..N : Back(p, v, k) < n /\ t[k].sector = u
    BY <1>1, <2>2 DEF TabIs, N
  <2> QED BY <1>5, <2>3
<1>16. AppendsFit(g, p, NewTab(p)[v])
  <2>1. ASSUME ~AppendTears
        PROVE  Filling(g, s, j)
    <3> SUFFICES ASSUME NEW k \in 1..Slots
                 PROVE  IF k <= j THEN read_data(g, s, k) ELSE g[Addr(s, k)] = Erased
      BY DEF Filling
    <3>1. IF k <= t[v].num THEN read_data(part, s, k) ELSE part[Addr(s, k)] = Erased
      BY <1>11, <2>1 DEF Filling
    <3>2. CASE k = j
      <4>1. g[Addr(s, k)] = Program(Erased, val)
        BY <1>2, <1>7, <1>12, <2>1, <3>2
      <4>2. Program(Erased, val) = val /\ k <= j
        BY <1>4, <3>2 DEF Program
      <4> QED BY <4>1, <4>2 DEF read_data
    <3>3. CASE k # j
      <4>1. g[Addr(s, k)] = part[Addr(s, k)]
        BY <1>2, <1>7, <3>3
      <4>2. k <= j <=> k <= t[v].num
        BY <1>4, <3>3
      <4> QED BY <3>1, <4>1, <4>2 DEF read_data
    <3> QED BY <3>2, <3>3
  <2> QED BY <1>4, <1>5, <2>1 DEF AppendsFit, s, j
<1>17. TabIs(g, p, NewTab(p), v, c, n)
  <2>1. \A k \in 1..N : IF Back(p, v, k) < n
                        THEN EntryInv(g, p, NewTab(p)[k], Back(p, v, k), c)
                        ELSE NewTab(p)[k].num = 0
    BY <1>10, <1>13, <1>14
  <2> QED BY <1>15, <1>16, <2>1 DEF TabIs, N
<1> QED BY <1>3, <1>12, <1>17 DEF TabInv, N, s, j

LEMMA OneOfThree ==
    ASSUME NEW p
    PROVE  Moves(p) \/ Starts(p) \/ Appends(p)
BY DEF Appends
-----------------------------------------------------------------------------
(* What a power failure leaves *)

(* All sectors of p hold values. *)
Whole(f, p, c, n) ==
    /\ c \in 0..(IndexMod - 1) /\ n \in 0..SecTabSize[p]
    /\ Chain(f, Own(f, p), c, n)
    /\ \A s \in Own(f, p) : HasValue(f, s)
    /\ \A s \in Own(f, p) : Age(f, s, c) = 0 => Clean(f, p, s)

LEMMA TabGivesChain ==
    ASSUME NEW f, NEW p \in Params, NEW t \in [1..SecTabSize[p] -> Entries],
           NEW v \in 1..SecTabSize[p],
           \A i, j \in 1..SecTabSize[p] : t[i].sector = t[j].sector => i = j,
           NEW c \in 0..(IndexMod - 1), NEW n \in 0..SecTabSize[p],
           TabIs(f, p, t, v, c, n)
    PROVE  /\ Whole(f, p, c, n)
           /\ \A k \in 1..SecTabSize[p] :
                IF Back(p, v, k) < n
                THEN /\ t[k].sector \in Own(f, p)
                     /\ Age(f, t[k].sector, c) = Back(p, v, k)
                ELSE t[k].sector \notin Own(f, p)
<1> DEFINE N == SecTabSize[p]
<1>1. /\ N \in Nat /\ N >= 2 /\ N < IndexMod /\ n \in Nat /\ n <= N /\ c \in Int
      /\ IndexMod \in Nat \ {0} /\ v \in 1..N
  BY TabSizes
<1>2. /\ \A k \in 1..N :
           IF Back(p, v, k) < n THEN EntryInv(f, p, t[k], Back(p, v, k), c)
           ELSE t[k].num = 0
      /\ \A s \in Own(f, p) :
           \E k \in 1..N : Back(p, v, k) < n /\ t[k].sector = s
      /\ n > 0 => AppendsFit(f, p, t[v])
  BY DEF TabIs
<1>3. \A k \in 1..N : /\ Back(p, v, k) = IF k <= v THEN v - k ELSE (v - k) + N
                      /\ Back(p, v, k) \in 0..(N - 1)
  BY BackIs
<1>4. \A k \in 1..N : t[k].sector \in Sectors /\ t[k].num \in 0..Slots
                      /\ t[k].index \in 0..(IndexMod - 1)
  BY DEF Entries
<1>0. \A i, j \in 1..N : t[i].sector = t[j].sector => i = j
  OBVIOUS
<1> HIDE DEF N
<1>5. ASSUME NEW k \in 1..N, Back(p, v, k) < n
      PROVE  /\ t[k].sector \in Own(f, p) /\ HasValue(f, t[k].sector)
             /\ Age(f, t[k].sector, c) = Back(p, v, k)
  <2> DEFINE b == Back(p, v, k)
             i == t[k].index
             h == f[Addr(t[k].sector, 0)]
  <2>1. /\ i = (c - b) % IndexMod /\ h = [param |-> p, index |-> i]
        /\ HasValue(f, t[k].sector)
    BY <1>2, <1>5 DEF EntryInv
  <2>2. i \in 0..(IndexMod - 1) /\ t[k].sector \in Sectors
    BY <1>4
  <2>3. b \in 0..(IndexMod - 1)
    <3>1. b \in 0..(N - 1)
      BY <1>3
    <3> HIDE DEF b, i, h
    <3> QED BY <1>1, <3>1
  <2> HIDE DEF b, i, h
  <2>4. h \in Headers /\ h.param = p /\ h.index = i
    BY <2>1, <2>2 DEF Headers
  <2>5. (c - ((c - b) % IndexMod)) % IndexMod = b
    BY <1>1, <2>3, IndexOfAge, Zenon
  <2>6. (c - h.index) % IndexMod = b
    BY <2>1, <2>4, <2>5
  <2> QED BY <2>1, <2>2, <2>4, <2>6 DEF Own, read_info, Age, b, h
<1>6. ASSUME NEW k \in 1..N, ~(Back(p, v, k) < n)
      PROVE  t[k].sector \notin Own(f, p)
  <2> SUFFICES ASSUME t[k].sector \in Own(f, p)
               PROVE  FALSE
    OBVIOUS
  <2>1. PICK j \in 1..N : Back(p, v, j) < n /\ t[j].sector = t[k].sector
    BY <1>2
  <2>2. j = k
    BY <1>0, <2>1
  <2> QED BY <1>6, <2>1, <2>2
<1>7. ASSUME NEW i \in 1..N, NEW j \in 1..N, Back(p, v, i) = Back(p, v, j)
      PROVE  i = j
  <2> DEFINE a == Back(p, v, i)
             b == Back(p, v, j)
  <2>1. /\ a = IF i <= v THEN v - i ELSE (v - i) + N
        /\ b = IF j <= v THEN v - j ELSE (v - j) + N
        /\ a = b
    BY <1>3, <1>7
  <2> HIDE DEF a, b
  <2> QED BY <1>1, <2>1
<1>8. Chain(f, Own(f, p), c, n)
  <2>1. \A s \in Own(f, p) : Age(f, s, c) \in 0..(n - 1)
    <3> SUFFICES ASSUME NEW s \in Own(f, p)
                 PROVE  Age(f, s, c) \in 0..(n - 1)
      OBVIOUS
    <3>1. PICK k \in 1..N : Back(p, v, k) < n /\ t[k].sector = s
      BY <1>2
    <3>2. Age(f, s, c) = Back(p, v, k)
      BY <1>5, <3>1
    <3> QED BY <1>1, <1>3, <3>1, <3>2
  <2>2. ASSUME NEW s \in Own(f, p), NEW u \in Own(f, p), Age(f, s, c) = Age(f, u, c)
        PROVE  s = u
    <3>1. PICK i \in 1..N : Back(p, v, i) < n /\ t[i].sector = s
      BY <1>2
    <3>2. PICK j \in 1..N : Back(p, v, j) < n /\ t[j].sector = u
      BY <1>2
    <3>3. Back(p, v, i) = Back(p, v, j)
      BY <1>5, <2>2, <3>1, <3>2
    <3> QED BY <1>7, <3>1, <3>2, <3>3
  <2>3. ASSUME NEW a \in 0..(n - 1)
        PROVE  \E s \in Own(f, p) : Age(f, s, c) = a
    <3> DEFINE k == IF a < v THEN v - a ELSE (v - a) + N
    <3>1. k \in 1..N /\ (IF k <= v THEN v - k ELSE (v - k) + N) = a
      BY <1>1
    <3> HIDE DEF k
    <3>2. Back(p, v, k) = a /\ a < n
      BY <1>1, <1>3, <3>1
    <3> QED BY <1>5, <3>1, <3>2
  <2> QED BY <2>1, <2>2, <2>3 DEF Chain
<1>9. \A s \in Own(f, p) : HasValue(f, s)
  BY <1>2, <1>5
<1>10. ASSUME NEW s \in Own(f, p), Age(f, s, c) = 0
       PROVE  Clean(f, p, s)
  <2>1. PICK k \in 1..N : Back(p, v, k) < n /\ t[k].sector = s
    BY <1>2
  <2>2. Back(p, v, k) = 0 /\ Back(p, v, v) = 0
    BY <1>1, <1>3, <1>5, <1>10, <2>1
  <2>3. k = v
    BY <1>1, <1>7, <2>2
  <2>4. n > 0
    BY <1>1, <2>1, <2>2
  <2> QED BY <1>1, <1>2, <1>4, <2>1, <2>3, <2>4 DEF AppendsFit, Clean
<1>11. Whole(f, p, c, n)
  BY <1>8, <1>9, <1>10 DEF Whole
<1> QED BY <1>5, <1>6, <1>11 DEF N

LEMMA WholeGives ==
    ASSUME NEW f, NEW p \in Params, NEW c, NEW n, Whole(f, p, c, n)
    PROVE  FlashInv(f, p)
<1>1. OneIsEmpty(f, p, c, n)
  BY DEF Whole, OneIsEmpty
<1>2. ASSUME NEW s \in Own(f, p),
             \A t \in Own(f, p) : HasValue(f, t) => Age(f, s, c) <= Age(f, t, c)
      PROVE  Clean(f, p, s)
  <2>1. n \in Nat /\ Age(f, s, c) \in 0..(n - 1)
    BY TabSizes DEF Whole, Chain
  <2>2. 0 \in 0..(n - 1)
    BY <2>1
  <2>3. PICK t \in Own(f, p) : Age(f, t, c) = 0
    BY <2>2 DEF Whole, Chain
  <2>4. Age(f, s, c) <= 0
    BY <1>2, <2>3 DEF Whole
  <2>5. Age(f, s, c) = 0
    BY <2>1, <2>4
  <2> QED BY <2>5 DEF Whole
<1>3. NewestIsClean(f, p, c)
  BY <1>2 DEF NewestIsClean
<1> QED BY <1>1, <1>3 DEF Whole, FlashInv

(* In a sector that is not the parameter's, before and after. *)
LEMMA LossElsewhere ==
    ASSUME NEW f, NEW g, NEW s \in Sectors, SameBut(f, g, s),
           NEW p \in Params, NEW c, NEW n, Whole(f, p, c, n),
           s \notin Own(f, p), s \notin Own(g, p)
    PROVE  FlashInv(g, p)
<1>1. Own(g, p) = Own(f, p)
  <2>1. \A t : t # s => (t \in Own(g, p) <=> t \in Own(f, p))
    BY SameButOwn
  <2> QED BY <2>1
<1>2. \A t \in Own(f, p) : /\ HasValue(g, t) <=> HasValue(f, t)
                           /\ Clean(g, p, t) <=> Clean(f, p, t)
                           /\ \A d : Age(g, t, d) = Age(f, t, d)
  <2>1. \A t \in Own(f, p) : t \in Sectors /\ t # s
    BY DEF Own
  <2> QED BY <2>1, SameButOwn
<1>3. Chain(g, Own(g, p), c, n)
  BY <1>1, <1>2 DEF Whole, Chain
<1>4. Whole(g, p, c, n)
  BY <1>1, <1>2, <1>3 DEF Whole
<1> QED BY <1>4, WholeGives

(* The oldest sector loses its header. *)
LEMMA LossOfHeader ==
    ASSUME NEW f, NEW g, NEW s \in Sectors, SameBut(f, g, s),
           NEW p \in Params, NEW c, NEW n, Whole(f, p, c, n),
           s \in Own(f, p), Age(f, s, c) = n - 1, s \notin Own(g, p)
    PROVE  FlashInv(g, p)
<1>0. n \in 0..SecTabSize[p] /\ SecTabSize[p] \in Nat /\ Chain(f, Own(f, p), c, n)
  BY TabSizes DEF Whole
<1>1. n \in Nat /\ n - 1 \in 0..SecTabSize[p]
  <2>1. Age(f, s, c) \in 0..(n - 1)
    BY <1>0 DEF Chain
  <2> QED BY <1>0, <2>1
<1>2. \A t : t \in Own(g, p) <=> t \in Own(f, p) /\ t # s
  BY SameButOwn
<1>3. \A t \in Own(g, p) : /\ t \in Own(f, p) /\ t # s
                           /\ HasValue(g, t) <=> HasValue(f, t)
                           /\ Clean(g, p, t) <=> Clean(f, p, t)
                           /\ \A d : Age(g, t, d) = Age(f, t, d)
  <2>1. \A t \in Own(g, p) : t \in Sectors
    BY DEF Own
  <2> QED BY <1>2, <2>1, SameButOwn
<1>4. \A t \in Own(f, p) : t # s <=> Age(f, t, c) # n - 1
  BY <1>0 DEF Chain
<1>5. Chain(g, Own(g, p), c, n - 1)
  <2>1. ASSUME NEW t \in Own(g, p)
        PROVE  Age(g, t, c) \in 0..((n - 1) - 1)
    <3>1. Age(g, t, c) = Age(f, t, c) /\ t \in Own(f, p) /\ Age(f, t, c) # n - 1
      BY <1>3, <1>4
    <3>2. Age(f, t, c) \in 0..(n - 1)
      BY <1>0, <3>1 DEF Chain
    <3> QED BY <1>1, <3>1, <3>2
  <2>2. \A t, u \in Own(g, p) : Age(g, t, c) = Age(g, u, c) => t = u
    BY <1>0, <1>3 DEF Chain
  <2>3. ASSUME NEW a \in 0..((n - 1) - 1)
        PROVE  \E t \in Own(g, p) : Age(g, t, c) = a
    <3>1. a \in 0..(n - 1) /\ a # n - 1
      BY <1>1
    <3>2. PICK t \in Own(f, p) : Age(f, t, c) = a
      BY <1>0, <3>1 DEF Chain
    <3>3. t \in Own(g, p)
      BY <1>2, <1>4, <3>1, <3>2
    <3> QED BY <1>3, <3>2, <3>3
  <2> QED BY <2>1, <2>2, <2>3 DEF Chain
<1>6. Whole(g, p, c, n - 1)
  BY <1>1, <1>3, <1>5 DEF Whole
<1> QED BY <1>6, WholeGives

(* The oldest sector keeps its header, and may have lost its values. *)
LEMMA LossInErase ==
    ASSUME NEW f, NEW g, NEW s \in Sectors, SameBut(f, g, s),
           NEW p \in Params, NEW c, NEW n, Whole(f, p, c, n),
           s \in Own(f, p), Age(f, s, c) = n - 1, n >= 2,
           g[Addr(s, 0)] = f[Addr(s, 0)]
    PROVE  FlashInv(g, p)
<1>0. n \in 0..SecTabSize[p] /\ SecTabSize[p] \in Nat /\ n \in Nat
      /\ Chain(f, Own(f, p), c, n)
  BY TabSizes DEF Whole
<1>1. Own(g, p) = Own(f, p)
  <2>1. \A t : t # s => (t \in Own(g, p) <=> t \in Own(f, p))
    BY SameButOwn
  <2>2. s \in Own(g, p)
    BY DEF Own, read_info
  <2> QED BY <2>1, <2>2
<1>2. \A t \in Own(f, p) : Age(g, t, c) = Age(f, t, c)
  <2>1. Age(g, s, c) = Age(f, s, c)
    BY DEF Age
  <2>2. \A t \in Own(f, p) : t \in Sectors
    BY DEF Own
  <2> QED BY <2>1, <2>2, SameButOwn
<1>3. \A t \in Own(f, p) : t # s => /\ HasValue(g, t) <=> HasValue(f, t)
                                    /\ Clean(g, p, t) <=> Clean(f, p, t)
  <2>1. \A t \in Own(f, p) : t \in Sectors
    BY DEF Own
  <2> QED BY <2>1, SameButOwn
<1>4. Chain(g, Own(g, p), c, n)
  BY <1>0, <1>1, <1>2 DEF Chain
<1>5. OneIsEmpty(g, p, c, n)
  <2>1. \A t \in Own(f, p) : Age(f, t, c) < n - 1 => t # s
    BY <1>0
  <2>2. \A t \in Own(g, p) : Age(g, t, c) < n - 1 => HasValue(g, t)
    BY <1>1, <1>2, <1>3, <2>1 DEF Whole
  <2> QED BY <2>2 DEF OneIsEmpty
<1>6. ASSUME NEW t \in Own(g, p),
             \A u \in Own(g, p) : HasValue(g, u) => Age(g, t, c) <= Age(g, u, c)
      PROVE  Clean(g, p, t)
  <2>1. 0 \in 0..(n - 1)
    BY <1>0
  <2>2. PICK u \in Own(f, p) : Age(f, u, c) = 0
    BY <1>0, <2>1 DEF Chain
  <2>3. u # s
    BY <1>0, <2>2
  <2>4. HasValue(g, u) /\ Age(g, u, c) = 0
    BY <1>2, <1>3, <2>2, <2>3 DEF Whole
  <2>5. Age(g, t, c) <= 0 /\ Age(g, t, c) = Age(f, t, c) /\ Age(f, t, c) \in 0..(n - 1)
    BY <1>0, <1>1, <1>2, <1>6, <2>2, <2>4 DEF Chain
  <2>6. Age(f, t, c) = 0
    BY <1>0, <2>5
  <2>7. t # s
    BY <1>0, <2>6
  <2> QED BY <1>1, <1>3, <2>6, <2>7 DEF Whole
<1>7. NewestIsClean(g, p, c)
  BY <1>6 DEF NewestIsClean
<1> QED BY <1>0, <1>4, <1>5, <1>7 DEF FlashInv, Whole

(* The sector goes to a new header, which has no value behind it yet; the  *)
(* others, k of them, are whole.                                           *)
Rest(f, p, s, c, k) ==
    /\ c \in 0..(IndexMod - 1) /\ k \in 0..(SecTabSize[p] - 1)
    /\ Chain(f, Own(f, p) \ {s}, c, k)
    /\ \A t \in Own(f, p) \ {s} : HasValue(f, t)
    /\ \A t \in Own(f, p) \ {s} : Age(f, t, c) = 0 => Clean(f, p, t)

LEMMA OldestLeaves ==
    ASSUME NEW f, NEW p \in Params, NEW s, NEW c, NEW n,
           Whole(f, p, c, n), s \in Own(f, p), Age(f, s, c) = n - 1
    PROVE  Rest(f, p, s, c, n - 1) /\ n \in Nat /\ n >= 1
<1> DEFINE S == Own(f, p)
<1>0. n \in 0..SecTabSize[p] /\ SecTabSize[p] \in Nat /\ Chain(f, S, c, n)
  BY TabSizes DEF Whole
<1>1. n \in Nat /\ n >= 1 /\ n - 1 \in 0..(SecTabSize[p] - 1)
  <2>1. Age(f, s, c) \in 0..(n - 1)
    BY <1>0 DEF Chain
  <2> QED BY <1>0, <2>1
<1>2. \A t \in S : /\ t # s <=> Age(f, t, c) # n - 1
                   /\ Age(f, t, c) \in 0..(n - 1)
  BY <1>0 DEF Chain
<1>3. Chain(f, S \ {s}, c, n - 1)
  <2>1. ASSUME NEW t \in S \ {s}
        PROVE  Age(f, t, c) \in 0..((n - 1) - 1)
    <3>1. Age(f, t, c) \in 0..(n - 1) /\ Age(f, t, c) # n - 1
      BY <1>2
    <3> QED BY <1>1, <3>1
  <2>2. \A t, u \in S \ {s} : Age(f, t, c) = Age(f, u, c) => t = u
    BY <1>0 DEF Chain
  <2>3. ASSUME NEW a \in 0..((n - 1) - 1)
        PROVE  \E t \in S \ {s} : Age(f, t, c) = a
    <3>1. a \in 0..(n - 1) /\ a # n - 1
      BY <1>1
    <3>2. PICK t \in S : Age(f, t, c) = a
      BY <1>0, <3>1 DEF Chain
    <3> QED BY <1>2, <3>1, <3>2
  <2> QED BY <2>1, <2>2, <2>3 DEF Chain
<1> QED BY <1>1, <1>3 DEF Whole, Rest

LEMMA LossAfterHeader ==
    ASSUME NEW f, NEW g, NEW s \in Sectors, SameBut(f, g, s),
           NEW p \in Params, NEW c, NEW k, Rest(f, p, s, c, k), k >= 1,
           g[Addr(s, 0)] = [param |-> p, index |-> (c + 1) % IndexMod],
           ~HasValue(g, s)
    PROVE  FlashInv(g, p)
<1> DEFINE d == (c + 1) % IndexMod
           S == Own(f, p) \ {s}
           T == Own(g, p)
<1>0. /\ c \in Int /\ k \in Nat /\ k >= 1 /\ k + 1 <= SecTabSize[p]
      /\ SecTabSize[p] \in Nat /\ SecTabSize[p] < IndexMod /\ IndexMod \in Nat \ {0}
  BY TabSizes DEF Rest
<1>1. d \in 0..(IndexMod - 1) /\ k + 1 \in 0..SecTabSize[p]
  <2>1. c + 1 \in Int
    BY <1>0
  <2> QED BY <1>0, <2>1, DivMod
<1>2. g[Addr(s, 0)] = [param |-> p, index |-> d]
  OBVIOUS
<1>3. \A t : t \in T <=> t = s \/ t \in S
  <2>1. s \in T
    <3> HIDE DEF d
    <3>1. g[Addr(s, 0)] \in Headers /\ g[Addr(s, 0)].param = p
      BY <1>1, <1>2 DEF Headers
    <3> QED BY <3>1 DEF Own, read_info
  <2>2. \A t : t # s => (t \in Own(g, p) <=> t \in Own(f, p))
    BY SameButOwn
  <2> QED BY <2>1, <2>2
<1>4. Age(g, s, d) = 0
  <2> HIDE DEF d
  <2>1. d - d = 0 /\ 0 \in 0..(IndexMod - 1) /\ g[Addr(s, 0)].index = d
    BY <1>0, <1>1, <1>2
  <2>2. 0 % IndexMod = 0
    BY <1>0, <2>1, ModSmall
  <2> QED BY <2>1, <2>2 DEF Age
<1>5. ASSUME NEW t \in S
      PROVE  /\ Age(f, t, c) \in 0..(k - 1) /\ Age(g, t, d) = Age(f, t, c) + 1
             /\ HasValue(g, t) /\ (Clean(g, p, t) <=> Clean(f, p, t))
  <2>1. t \in Sectors /\ t # s /\ f[Addr(t, 0)].index \in 0..(IndexMod - 1)
    BY OwnIs
  <2>2. Age(f, t, c) \in 0..(k - 1) /\ HasValue(f, t)
    BY DEF Rest, Chain
  <2>3. /\ Age(g, t, d) = Age(f, t, d) /\ HasValue(g, t)
        /\ Clean(g, p, t) <=> Clean(f, p, t)
    BY <2>1, <2>2, SameButOwn
  <2>4. Age(f, t, d) = Age(f, t, c) + 1
    <3> DEFINE i == f[Addr(t, 0)].index
    <3>1. i \in Int /\ ((c - i) % IndexMod) \in 0..(k - 1)
      BY <2>1, <2>2 DEF Age
    <3> HIDE DEF i
    <3>2. ((c - i) % IndexMod) + 1 \in 0..(IndexMod - 1)
      BY <1>0, <3>1
    <3>3. (((c + 1) % IndexMod) - i) % IndexMod = ((c - i) % IndexMod) + 1
      BY <1>0, <3>1, <3>2, AgeMoved
    <3> QED BY <3>3 DEF Age, i
  <2> QED BY <2>2, <2>3, <2>4
<1> HIDE DEF d, T
<1>6. Chain(g, T, d, k + 1)
  <2>1. ASSUME NEW t \in T
        PROVE  Age(g, t, d) \in 0..((k + 1) - 1)
    <3>1. CASE t = s
      BY <1>0, <1>4, <3>1
    <3>2. CASE t # s
      BY <1>0, <1>3, <1>5, <3>2
    <3> QED BY <3>1, <3>2
  <2>2. ASSUME NEW t \in T, NEW u \in T, Age(g, t, d) = Age(g, u, d)
        PROVE  t = u
    <3>1. \A x \in S : Age(g, x, d) # 0 /\ Age(f, x, c) \in Int
                       /\ Age(g, x, d) = Age(f, x, c) + 1
      BY <1>0, <1>5
    <3>2. CASE t = s \/ u = s
      BY <1>3, <1>4, <2>2, <3>1, <3>2
    <3>3. CASE t # s /\ u # s
      <4>1. Age(f, t, c) = Age(f, u, c)
        BY <1>3, <2>2, <3>1, <3>3
      <4> QED BY <1>3, <3>3, <4>1 DEF Rest, Chain
    <3> QED BY <3>2, <3>3
  <2>3. ASSUME NEW a \in 0..((k + 1) - 1)
        PROVE  \E t \in T : Age(g, t, d) = a
    <3>1. CASE a = 0
      BY <1>3, <1>4, <3>1
    <3>2. CASE a # 0
      <4>1. a - 1 \in 0..(k - 1)
        BY <1>0, <3>2
      <4>2. PICK t \in S : Age(f, t, c) = a - 1
        BY <4>1 DEF Rest, Chain
      <4>3. Age(g, t, d) = a
        BY <1>0, <1>5, <4>2
      <4> QED BY <1>3, <4>3
    <3> QED BY <3>1, <3>2
  <2> QED BY <2>1, <2>2, <2>3 DEF Chain
<1>7. OneIsEmpty(g, p, d, k + 1)
  <2>1. \A t \in T : Age(g, t, d) # 0 => HasValue(g, t)
    BY <1>3, <1>4, <1>5
  <2> QED BY <2>1 DEF OneIsEmpty, T
<1>8. ASSUME NEW t \in T, HasValue(g, t),
             \A u \in T : HasValue(g, u) => Age(g, t, d) <= Age(g, u, d)
      PROVE  Clean(g, p, t)
  <2>1. t \in S
    BY <1>3, <1>8
  <2>2. 0 \in 0..(k - 1)
    BY <1>0
  <2>3. PICK u \in S : Age(f, u, c) = 0
    BY <2>2 DEF Rest, Chain
  <2>4. Age(g, u, d) = 1 /\ HasValue(g, u) /\ u \in T
    BY <1>3, <1>5, <2>3
  <2>5. Age(f, t, c) = 0
    <3>1. Age(g, t, d) <= Age(g, u, d)
      BY <1>8, <2>4
    <3> QED BY <1>0, <1>5, <2>1, <2>4, <3>1
  <2> QED BY <1>5, <2>1, <2>5 DEF Rest
<1>9. NewestIsClean(g, p, d)
  BY <1>8 DEF NewestIsClean, T
<1> QED BY <1>1, <1>6, <1>7, <1>9 DEF FlashInv, T

LEMMA LossInStart ==
    ASSUME NEW f, NEW g, NEW s \in Sectors, SameBut(f, g, s),
           NEW p \in Params, Own(f, p) = {},
           g[Addr(s, 0)] = [param |-> p, index |-> 0], ~HasValue(g, s)
    PROVE  FlashInv(g, p)
<1>0. /\ SecTabSize[p] \in Nat /\ SecTabSize[p] >= 2 /\ IndexMod \in Nat \ {0}
      /\ 0 \in 0..(IndexMod - 1) /\ 1 \in 0..SecTabSize[p]
  BY TabSizes
<1>1. Own(g, p) = {s}
  <2>1. g[Addr(s, 0)] \in Headers /\ g[Addr(s, 0)].param = p
    BY <1>0 DEF Headers
  <2>2. s \in Own(g, p)
    BY <2>1 DEF Own, read_info
  <2>3. \A t : t # s => (t \in Own(g, p) <=> t \in Own(f, p))
    BY SameButOwn
  <2> QED BY <2>2, <2>3
<1>2. Age(g, s, 0) = 0
  <2>1. 0 - 0 = 0 /\ g[Addr(s, 0)].index = 0
    OBVIOUS
  <2>2. 0 % IndexMod = 0
    BY <1>0, ModSmall
  <2> QED BY <2>1, <2>2 DEF Age
<1>3. Chain(g, Own(g, p), 0, 1)
  <2>1. 0..(1 - 1) = {0}
    OBVIOUS
  <2> QED BY <1>1, <1>2, <2>1 DEF Chain
<1>4. OneIsEmpty(g, p, 0, 1)
  BY <1>1, <1>2 DEF OneIsEmpty
<1>5. NewestIsClean(g, p, 0)
  BY <1>1 DEF NewestIsClean
<1> QED BY <1>0, <1>3, <1>4, <1>5 DEF FlashInv

(* Erasing the sector without a value: it goes or stays. *)
LEMMA LossOfEmpty ==
    ASSUME NEW f, NEW g, NEW p \in Params, FlashInv(f, p),
           \A t \in Own(g, p) :
              /\ t \in Own(f, p) /\ g[Addr(t, 0)] = f[Addr(t, 0)]
              /\ HasValue(g, t) <=> HasValue(f, t)
              /\ HasValue(f, t) => (Clean(g, p, t) <=> Clean(f, p, t)),
           \A t \in Own(f, p) : HasValue(f, t) => t \in Own(g, p)
    PROVE  FlashInv(g, p)
<1> DEFINE S == Own(f, p)
           T == Own(g, p)
<1>1. PICK c \in 0..(IndexMod - 1), n \in 0..SecTabSize[p] :
         /\ Chain(f, S, c, n)
         /\ OneIsEmpty(f, p, c, n)
         /\ NewestIsClean(f, p, c)
  BY DEF FlashInv
<1>2. /\ SecTabSize[p] \in Nat /\ SecTabSize[p] < IndexMod /\ IndexMod \in Nat \ {0}
      /\ n \in Nat /\ n <= SecTabSize[p] /\ c \in Int
  BY TabSizes
<1>3. /\ \A t \in T : t \in S
      /\ \A t \in T : HasValue(g, t) <=> HasValue(f, t)
      /\ \A t \in T : \A d : Age(g, t, d) = Age(f, t, d)
      /\ \A t \in T : HasValue(f, t) => (Clean(g, p, t) <=> Clean(f, p, t))
      /\ \A t \in S : HasValue(f, t) => t \in T
  BY DEF Age
<1>4. /\ \A t \in S : Age(f, t, c) \in 0..(n - 1)
      /\ \A t, u \in S : Age(f, t, c) = Age(f, u, c) => t = u
      /\ \A a \in 0..(n - 1) : \E t \in S : Age(f, t, c) = a
  BY <1>1 DEF Chain
<1>5. CASE \A t \in S : t \in T
  <2>1. Own(g, p) = Own(f, p)
    BY <1>3, <1>5
  <2>2. Chain(g, Own(g, p), c, n)
    BY <1>1, <1>3, <2>1 DEF Chain
  <2>3. OneIsEmpty(g, p, c, n)
    BY <1>1, <1>3, <2>1 DEF OneIsEmpty
  <2>4. NewestIsClean(g, p, c)
    BY <1>1, <1>3, <2>1 DEF NewestIsClean
  <2> QED BY <2>2, <2>3, <2>4 DEF FlashInv
<1>6. ASSUME NEW x \in S, x \notin T
      PROVE  FlashInv(g, p)
  <2>1. ~HasValue(f, x)
    BY <1>3, <1>6
  <2>2. \/ Age(f, x, c) = n - 1 /\ n >= 2
        \/ Age(f, x, c) = 0 /\ n >= 1
    <3>1. Age(f, x, c) \in 0..(n - 1)
      BY <1>4
    <3>2. CASE n >= 2 /\ ~(Age(f, x, c) < n - 1)
      BY <1>2, <3>1, <3>2
    <3>3. CASE ~(Age(f, x, c) # 0)
      BY <1>2, <3>1, <3>3
    <3> QED BY <1>1, <2>1, <3>2, <3>3 DEF OneIsEmpty
  <2>3. \A t \in S : t # x => HasValue(f, t)
    <3>1. ASSUME NEW t \in S, ~HasValue(f, t)
          PROVE  t = x
      <4>1. Age(f, x, c) \in 0..(n - 1) /\ Age(f, t, c) \in 0..(n - 1)
        BY <1>4
      <4>2. CASE \A s \in S : Age(f, s, c) < n - 1 => HasValue(f, s)
        <5>1. ~(Age(f, t, c) < n - 1) /\ ~(Age(f, x, c) < n - 1)
          BY <2>1, <3>1, <4>2
        <5>2. Age(f, t, c) = Age(f, x, c)
          BY <1>2, <4>1, <5>1
        <5> QED BY <1>4, <5>2
      <4>3. CASE \A s \in S : Age(f, s, c) # 0 => HasValue(f, s)
        <5>1. Age(f, t, c) = Age(f, x, c)
          BY <2>1, <3>1, <4>3
        <5> QED BY <1>4, <5>1
      <4> QED BY <1>1, <4>2, <4>3 DEF OneIsEmpty
    <3> QED BY <3>1
  <2>4. \A t : t \in T <=> t \in S /\ t # x
    BY <1>3, <1>6, <2>3
  <2>5. \A t \in T : HasValue(g, t)
    BY <1>3, <2>3, <2>4
  <2>6. ASSUME NEW t \in T, \A u \in T : Age(f, t, c) <= Age(f, u, c)
        PROVE  Clean(g, p, t)
    <3>1. t \in S /\ HasValue(f, t)
      BY <1>3, <2>3, <2>4
    <3>2. Clean(f, p, t)
      BY <1>1, <1>3, <2>6, <3>1 DEF NewestIsClean
    <3> QED BY <1>3, <3>1, <3>2
  <2>7. ASSUME NEW d \in 0..(IndexMod - 1), NEW b \in Int, n >= 1,
               \A t \in T : /\ Age(g, t, d) = Age(f, t, c) - b
                            /\ Age(f, t, c) - b \in 0..(n - 2),
               \A a \in 0..(n - 2) : a + b \in 0..(n - 1) /\ a + b # Age(f, x, c)
        PROVE  FlashInv(g, p)
    <3>1. n - 1 \in 0..SecTabSize[p] /\ (n - 1) - 1 = n - 2
      BY <1>2, <2>7
    <3>2. \A t, u \in T : Age(g, t, d) = Age(g, u, d) => t = u
      <4> SUFFICES ASSUME NEW t \in T, NEW u \in T, Age(g, t, d) = Age(g, u, d)
                   PROVE  t = u
        OBVIOUS
      <4>1. Age(f, t, c) - b = Age(f, u, c) - b
        BY <2>7
      <4>2. Age(f, t, c) \in Int /\ Age(f, u, c) \in Int
        BY <1>2, <1>3, <1>4
      <4>3. Age(f, t, c) = Age(f, u, c)
        BY <4>1, <4>2
      <4> QED BY <1>3, <1>4, <4>3
    <3>3. ASSUME NEW a \in 0..(n - 2)
          PROVE  \E t \in T : Age(g, t, d) = a
      <4>1. PICK t \in S : Age(f, t, c) = a + b
        BY <1>4, <2>7
      <4>2. t \in T
        BY <2>4, <2>7, <4>1
      <4>3. (a + b) - b = a
        BY <1>2
      <4> QED BY <2>7, <4>1, <4>2, <4>3
    <3>4. Chain(g, Own(g, p), d, n - 1)
      BY <2>7, <3>1, <3>2, <3>3 DEF Chain
    <3>5. ASSUME NEW t \in T, Age(g, t, d) = 0
          PROVE  Clean(g, p, t)
      <4>1. ASSUME NEW u \in T
            PROVE  Age(f, t, c) <= Age(f, u, c)
        <5>1. Age(f, t, c) - b = 0 /\ Age(f, u, c) - b >= 0
          BY <1>2, <2>7, <3>5
        <5>2. Age(f, t, c) \in Int /\ Age(f, u, c) \in Int
          BY <1>2, <1>3, <1>4
        <5> QED BY <5>1, <5>2
      <4> QED BY <2>6, <4>1
    <3>6. Whole(g, p, d, n - 1)
      BY <2>5, <2>7, <3>1, <3>4, <3>5 DEF Whole
    <3> QED BY <3>6, WholeGives
  <2>8. CASE Age(f, x, c) = n - 1 /\ n >= 2
    <3>1. \A t \in T : Age(g, t, c) = Age(f, t, c) - 0
                       /\ Age(f, t, c) - 0 \in 0..(n - 2)
      <4> SUFFICES ASSUME NEW t \in T
                   PROVE  Age(g, t, c) = Age(f, t, c) - 0
                          /\ Age(f, t, c) - 0 \in 0..(n - 2)
        OBVIOUS
      <4>1. Age(f, t, c) \in 0..(n - 1) /\ Age(f, t, c) # n - 1
            /\ Age(g, t, c) = Age(f, t, c)
        BY <1>3, <1>4, <2>4, <2>8
      <4> QED BY <1>2, <4>1
    <3>2. \A a \in 0..(n - 2) : a + 0 \in 0..(n - 1) /\ a + 0 # Age(f, x, c)
      BY <1>2, <2>8
    <3>3. n >= 1 /\ 0 \in Int
      BY <1>2, <2>8
    <3> QED BY <2>7, <3>1, <3>2, <3>3
  <2>9. CASE Age(f, x, c) = 0 /\ n >= 1
    <3> DEFINE d == (c + (0 - 1)) % IndexMod
    <3>1. d \in 0..(IndexMod - 1)
      <4>1. c + (0 - 1) \in Int
        BY <1>2
      <4> QED BY <1>2, <4>1, DivMod
    <3>2. ASSUME NEW t \in T
          PROVE  Age(g, t, d) = Age(f, t, c) - 1 /\ Age(f, t, c) - 1 \in 0..(n - 2)
      <4> DEFINE i == f[Addr(t, 0)].index
      <4>1. Age(f, t, c) \in 0..(n - 1) /\ Age(f, t, c) # 0
            /\ Age(g, t, d) = Age(f, t, d)
        BY <1>3, <1>4, <2>4, <2>9
      <4>2. i \in Int /\ Age(f, t, c) = (c - i) % IndexMod
        <5>1. i \in 0..(IndexMod - 1)
          BY <1>3, OwnIs
        <5> QED BY <5>1 DEF Age
      <4>3. Age(f, t, d) = (((c + (0 - 1)) % IndexMod) - i) % IndexMod
        BY DEF Age
      <4> HIDE DEF i, d
      <4>4. ((c - i) % IndexMod) + (0 - 1) \in 0..(IndexMod - 1) /\ 0 - 1 \in Int
        BY <1>2, <4>1, <4>2
      <4>5. Age(f, t, d) = ((c - i) % IndexMod) + (0 - 1)
        BY <1>2, <4>2, <4>3, <4>4, AgeMoved
      <4> QED BY <1>2, <4>1, <4>2, <4>5
    <3>3. \A a \in 0..(n - 2) : a + 1 \in 0..(n - 1) /\ a + 1 # Age(f, x, c)
      BY <1>2, <2>9
    <3> HIDE DEF d
    <3>4. 1 \in Int /\ n >= 1
      BY <2>9
    <3> QED BY <2>7, <3>1, <3>2, <3>3, <3>4
  <2> QED BY <2>2, <2>8, <2>9
<1> QED BY <1>5, <1>6
-----------------------------------------------------------------------------
(* Power fails during a save *)

(* What is in flash when a save of p begins. *)
LEMMA BeforeSave ==
    ASSUME OnInv, NEW p \in Params
    PROVE  \E c, n :
             /\ Whole(part, p, c, n) /\ c \in Int /\ n \in Nat
             /\ Starts(p) => Own(part, p) = {}
             /\ Moves(p) => n >= 1 /\ Current(p).index = c
             /\ Moves(p) => IF Target(p).sector \in Own(part, p)
                            THEN Age(part, Target(p).sector, c) = n - 1 /\ n >= 2
                            ELSE n < SecTabSize[p]
             /\ Appends(p) => Target(p).sector \in Own(part, p)
<1> DEFINE N == SecTabSize[p]
           v == save[p]
           w == NextSave(p)
           t == tab[p]
<1>1. PICK c \in 0..(IndexMod - 1), n \in 0..SecTabSize[p] :
         TabIs(part, p, tab[p], save[p], c, n)
  BY DEF OnInv, TabInv
<1>2. /\ N \in Nat /\ N >= 2 /\ n \in Nat /\ n <= N /\ c \in Int
      /\ IndexMod \in Nat \ {0}
  BY TabSizes
<1>3. /\ t \in [1..N -> Entries] /\ v \in 1..N /\ w \in 1..N
      /\ Back(p, v, v) = 0 /\ Back(p, v, w) = N - 1
      /\ Current(p) = t[v]
  BY CurrentIs DEF Current
<1>4. \A i, j \in 1..N : t[i].sector = t[j].sector => i = j
  BY DEF OnInv, SectorsApart
<1>5. /\ Whole(part, p, c, n)
      /\ \A k \in 1..N :
           IF Back(p, v, k) < n
           THEN t[k].sector \in Own(part, p) /\ Age(part, t[k].sector, c) = Back(p, v, k)
           ELSE t[k].sector \notin Own(part, p)
  <2> DEFINE f == part
  <2> HIDE DEF f, t, v
  <2>1. /\ TabIs(f, p, t, v, c, n) /\ t \in [1..N -> Entries] /\ v \in 1..N
        /\ c \in 0..(IndexMod - 1) /\ n \in 0..N
    BY <1>1, <1>3 DEF f, t, v
  <2> QED BY <1>4, <2>1, TabGivesChain DEF f
<1>6. /\ 0 < n => Current(p).index = (c - 0) % IndexMod /\ Current(p).num \in 1..Slots
      /\ ~(0 < n) => Current(p).num = 0 /\ Own(part, p) = {}
  <2>1. IF 0 < n THEN EntryInv(part, p, t[v], 0, c) ELSE t[v].num = 0
    BY <1>1, <1>3 DEF TabIs
  <2>2. ASSUME ~(0 < n)
        PROVE  Own(part, p) = {}
    <3>1. \A k \in 1..N : ~(Back(p, v, k) < n)
      <4>1. \A k \in 1..N : Back(p, v, k) \in 0..(N - 1)
        BY <1>3, BackIs
      <4> QED BY <1>2, <2>2, <4>1
    <3> QED BY <1>1, <3>1 DEF TabIs
  <2> QED BY <1>3, <2>1, <2>2 DEF EntryInv
<1>7. (c - 0) % IndexMod = c
  <2>1. c - 0 = c
    BY <1>2
  <2> QED BY <1>2, <2>1, ModSmall
<1>8. Starts(p) <=> ~(0 < n)
  BY <1>6, ParamSizes DEF Starts
<1>9. /\ Target(p).sector = t[IF Moves(p) THEN w ELSE v].sector
      /\ Moves(p) => ~Starts(p)
      /\ Appends(p) => ~Starts(p) /\ ~Moves(p)
  <2>1. Target(p).sector = tab[p][SaveAt(p)].sector
    BY TargetIs DEF TargetFits
  <2> QED BY <2>1 DEF SaveAt, Moves, Starts, Appends
<1> HIDE DEF N, v, w, t
<1>10. Moves(p) => IF Target(p).sector \in Own(part, p)
                   THEN Age(part, Target(p).sector, c) = n - 1 /\ n >= 2
                   ELSE n < N
  <2>1. CASE N - 1 < n
    <3>1. n = N
      BY <1>2, <2>1
    <3> QED BY <1>2, <1>3, <1>5, <1>9, <2>1, <3>1
  <2>2. CASE ~(N - 1 < n)
    <3>1. n < N
      BY <1>2, <2>2
    <3> QED BY <1>3, <1>5, <1>9, <2>2, <3>1
  <2> QED BY <2>1, <2>2
<1>11. Appends(p) => Target(p).sector \in Own(part, p)
  BY <1>3, <1>5, <1>8, <1>9
<1> QED BY <1>2, <1>5, <1>6, <1>7, <1>8, <1>9, <1>10, <1>11 DEF N

(* The other parameters do not notice. *)
LEMMA OthersStay ==
    ASSUME OnInv, NEW p \in Params, NEW g, SameBut(part, g, Target(p).sector),
           g[Addr(Target(p).sector, 0)] \in
               {part[Addr(Target(p).sector, 0)], Junk, HeaderOf(p)},
           NEW q \in Params, q # p
    PROVE  FlashInv(g, q)
<1> DEFINE s == Target(p).sector
<1>1. s \in Sectors /\ s \notin Own(part, q)
  BY OthersApart, TargetIs DEF TargetFits
<1>2. s \notin Own(g, q)
  <2>1. Junk \notin Headers
    BY CellsApart
  <2>2. HeaderOf(p).param = p
    BY DEF HeaderOf
  <2> QED BY <1>1, <2>1, <2>2 DEF Own, read_info
<1>3. \E c, n : Whole(part, q, c, n)
  BY BeforeSave
<1> HIDE DEF s
<1>4. SameBut(part, g, s)
  BY DEF s
<1> QED BY <1>1, <1>2, <1>3, <1>4, LossElsewhere

LEMMA LossInHeader ==
    ASSUME OnInv, NEW p \in Params, ~Appends(p),
           NEW g, SameBut(part, g, Target(p).sector),
           ~read_info(g, Target(p).sector)
    PROVE  FlashInv(g, p)
<1> DEFINE s == Target(p).sector
<1>1. PICK c, n :
         /\ Whole(part, p, c, n)
         /\ Starts(p) => Own(part, p) = {}
         /\ Moves(p) => IF s \in Own(part, p)
                        THEN Age(part, s, c) = n - 1 /\ n >= 2
                        ELSE n < SecTabSize[p]
  BY BeforeSave
<1>2. s \in Sectors /\ s \notin Own(g, p) /\ SameBut(part, g, s)
  BY TargetIs DEF TargetFits, Own
<1>3. Moves(p) \/ Starts(p)
  BY OneOfThree
<1> HIDE DEF s
<1>4. CASE s \in Own(part, p)
  <2>1. Age(part, s, c) = n - 1
    BY <1>1, <1>3, <1>4
  <2> QED BY <1>1, <1>2, <1>4, <2>1, LossOfHeader
<1>5. CASE s \notin Own(part, p)
  BY <1>1, <1>2, <1>5, LossElsewhere
<1> QED BY <1>4, <1>5

LEMMA LossWithOldHeader ==
    ASSUME OnInv, NEW p \in Params, ~Appends(p),
           NEW g, SameBut(part, g, Target(p).sector),
           g[Addr(Target(p).sector, 0)] = part[Addr(Target(p).sector, 0)]
    PROVE  FlashInv(g, p)
<1> DEFINE s == Target(p).sector
<1>1. PICK c, n :
         /\ Whole(part, p, c, n)
         /\ Starts(p) => Own(part, p) = {}
         /\ Moves(p) => IF s \in Own(part, p)
                        THEN Age(part, s, c) = n - 1 /\ n >= 2
                        ELSE n < SecTabSize[p]
  BY BeforeSave
<1>2. s \in Sectors /\ SameBut(part, g, s) /\ g[Addr(s, 0)] = part[Addr(s, 0)]
  BY TargetIs DEF TargetFits
<1>3. Moves(p) \/ Starts(p)
  BY OneOfThree
<1> HIDE DEF s
<1>4. CASE s \in Own(part, p)
  <2>1. Age(part, s, c) = n - 1 /\ n >= 2
    BY <1>1, <1>3, <1>4
  <2> QED BY <1>1, <1>2, <1>4, <2>1, LossInErase
<1>5. CASE s \notin Own(part, p)
  <2>1. s \notin Own(g, p)
    BY <1>2, <1>5 DEF Own, read_info
  <2> QED BY <1>1, <1>2, <1>5, <2>1, LossElsewhere
<1> QED BY <1>4, <1>5

LEMMA LossWithNewHeader ==
    ASSUME OnInv, NEW p \in Params, ~Appends(p),
           NEW g, SameBut(part, g, Target(p).sector),
           g[Addr(Target(p).sector, 0)] = HeaderOf(p),
           ~HasValue(g, Target(p).sector)
    PROVE  FlashInv(g, p)
<1> DEFINE s == Target(p).sector
<1>1. PICK c, n :
         /\ Whole(part, p, c, n) /\ c \in Int /\ n \in Nat
         /\ Starts(p) => Own(part, p) = {}
         /\ Moves(p) => n >= 1 /\ Current(p).index = c
         /\ Moves(p) => IF s \in Own(part, p)
                        THEN Age(part, s, c) = n - 1 /\ n >= 2
                        ELSE n < SecTabSize[p]
  BY BeforeSave
<1>2. /\ s \in Sectors /\ SameBut(part, g, s) /\ ~HasValue(g, s)
      /\ g[Addr(s, 0)] = [param |-> p, index |-> Target(p).index]
      /\ Moves(p) => Target(p).index = (Current(p).index + 1) % IndexMod
      /\ Starts(p) => Target(p).index = 0
  BY TargetIs DEF TargetFits, HeaderOf
<1> HIDE DEF s
<1>3. CASE Starts(p)
  BY <1>1, <1>2, <1>3, LossInStart
<1>4. CASE Moves(p)
  <2>1. g[Addr(s, 0)] = [param |-> p, index |-> (c + 1) % IndexMod]
    BY <1>1, <1>2, <1>4
  <2>2. CASE s \in Own(part, p)
    <3>1. Rest(part, p, s, c, n - 1)
      BY <1>1, <1>4, <2>2, OldestLeaves
    <3>2. n - 1 >= 1
      BY <1>1, <1>4, <2>2
    <3> QED BY <1>2, <2>1, <3>1, <3>2, LossAfterHeader
  <2>3. CASE s \notin Own(part, p)
    <3>1. Own(part, p) \ {s} = Own(part, p)
      BY <2>3
    <3>2. n \in 0..(SecTabSize[p] - 1) /\ n >= 1
      BY <1>1, <1>4, <2>3, TabSizes
    <3>3. Rest(part, p, s, c, n)
      BY <1>1, <3>1, <3>2 DEF Whole, Rest
    <3> QED BY <1>2, <2>1, <3>2, <3>3, LossAfterHeader
  <2> QED BY <2>2, <2>3
<1> QED BY <1>3, <1>4, OneOfThree

(* A value that is being appended. *)
LEMMA LossInAppend ==
    ASSUME OnInv, NEW p \in Params, AppendTears,
           NEW g, SameBut(part, g, Target(p).sector),
           g[Addr(Target(p).sector, 0)] = part[Addr(Target(p).sector, 0)],
           HasValue(g, Target(p).sector) <=> HasValue(part, Target(p).sector)
    PROVE  FlashInv(g, p)
<1> DEFINE s == Target(p).sector
<1>1. PICK c, n : Whole(part, p, c, n)
  BY BeforeSave
<1>2. /\ s \in Sectors /\ SameBut(part, g, s) /\ g[Addr(s, 0)] = part[Addr(s, 0)]
      /\ HasValue(g, s) <=> HasValue(part, s)
  BY TargetIs DEF TargetFits
<1> HIDE DEF s
<1>3. Own(g, p) = Own(part, p)
  <2>1. \A t : t # s => (t \in Own(g, p) <=> t \in Own(part, p))
    BY <1>2, SameButOwn
  <2>2. s \in Own(g, p) <=> s \in Own(part, p)
    BY <1>2 DEF Own, read_info
  <2> QED BY <2>1, <2>2
<1>4. \A t \in Sectors : /\ Age(g, t, c) = Age(part, t, c)
                         /\ HasValue(g, t) <=> HasValue(part, t)
  <2>1. Age(g, s, c) = Age(part, s, c)
    BY <1>2 DEF Age
  <2> QED BY <1>2, <2>1, SameButOwn
<1>5. \A t \in Own(part, p) : t \in Sectors
  BY OwnIs
<1>6. Chain(g, Own(g, p), c, n)
  BY <1>1, <1>3, <1>4, <1>5 DEF Whole, Chain
<1>7. Whole(g, p, c, n)
  BY <1>1, <1>3, <1>4, <1>5, <1>6 DEF Whole, Clean
<1> QED BY <1>7, WholeGives

LEMMA LossInSave ==
    ASSUME OnInv, NEW p \in Params, PowerLossInSave(p)
    PROVE  part' \in Flash /\ \A q \in Params : FlashInv(part', q)
<1> DEFINE s == Target(p).sector
           old == part[Addr(s, 0)]
<1>1. /\ part \in Flash /\ s \in Sectors /\ 0 \in 0..Slots /\ 1 \in 0..Slots
      /\ Target(p).num \in 0..Slots
  BY CurrentIs, TargetIs, ParamSizes DEF TargetFits
<1>2. /\ Prepared(p) \in Flash
      /\ \A t \in Sectors, l \in 0..Slots :
           Prepared(p)[Addr(t, l)] = IF t = s /\ ~Appends(p)
                                     THEN IF l = 0 THEN HeaderOf(p) ELSE Erased
                                     ELSE part[Addr(t, l)]
  BY PreparedIs
<1>3. \/ ~Appends(p) /\ part' \in HalfErased(part, s)
      \/ ~Appends(p) /\ part' = Spoilt(Prepared(p), s, 0)
      \/ ~Appends(p) /\ part' = Prepared(p)
      \/ ~Appends(p) /\ part' = Spoilt(Prepared(p), s, 1)
      \/ Appends(p) /\ ~AppendTears /\ part' = part
      \/ Appends(p) /\ AppendTears /\ part' = Spoilt(part, s, Target(p).num)
  BY DEF PowerLossInSave, Spoilt
<1>4. \A v \in {Erased, Junk} : v \notin Values /\ v \notin Headers
  BY CellsApart
<1>5. ASSUME SameBut(part, part', s), part'[Addr(s, 0)] \in {old, Junk, HeaderOf(p)},
             FlashInv(part', p)
      PROVE  \A q \in Params : FlashInv(part', q)
  BY <1>5, OthersStay
<1> HIDE DEF s
<1>6. CASE ~Appends(p) /\ part' \in HalfErased(part, s)
  <2>1. /\ part' \in Flash
        /\ \A t \in Sectors, l \in 0..Slots :
             t # s => part'[Addr(t, l)] = part[Addr(t, l)]
        /\ part'[Addr(s, 0)] \in {old, Junk}
    BY <1>1, <1>6, HalfErasedIs
  <2>2. SameBut(part, part', s)
    BY <2>1 DEF SameBut
  <2>3. CASE part'[Addr(s, 0)] = Junk
    <3>1. ~read_info(part', s)
      BY <1>4, <2>3 DEF read_info
    <3>2. FlashInv(part', p)
      BY <1>6, <2>2, <3>1, LossInHeader DEF s
    <3> QED BY <1>5, <2>1, <2>2, <3>2
  <2>4. CASE part'[Addr(s, 0)] = old
    <3>1. FlashInv(part', p)
      BY <1>6, <2>2, <2>4, LossWithOldHeader DEF s
    <3> QED BY <1>5, <2>1, <2>2, <3>1
  <2> QED BY <2>1, <2>3, <2>4
<1>7. CASE ~Appends(p) /\ part' = Spoilt(Prepared(p), s, 0)
  <2>1. /\ part' \in Flash
        /\ \A t \in Sectors, l \in 0..Slots :
             part'[Addr(t, l)] = IF t = s /\ l = 0 THEN Junk ELSE Prepared(p)[Addr(t, l)]
    BY <1>1, <1>2, <1>7, SpoiltIs
  <2>2. SameBut(part, part', s)
    BY <1>2, <2>1 DEF SameBut
  <2>3. part'[Addr(s, 0)] = Junk
    BY <1>1, <2>1
  <2>4. ~read_info(part', s)
    BY <1>4, <2>3 DEF read_info
  <2>5. FlashInv(part', p)
    BY <1>7, <2>2, <2>4, LossInHeader DEF s
  <2> QED BY <1>5, <2>1, <2>2, <2>3, <2>5
<1>8. ASSUME ~Appends(p), part' \in Flash,
             \A t \in Sectors, l \in 0..Slots :
                t # s \/ l # 1 => part'[Addr(t, l)] = Prepared(p)[Addr(t, l)],
             part'[Addr(s, 1)] \in {Erased, Junk}
      PROVE  \A q \in Params : FlashInv(part', q)
  <2>1. SameBut(part, part', s)
    BY <1>2, <1>8 DEF SameBut
  <2>2. part'[Addr(s, 0)] = HeaderOf(p)
    <3>1. 0 # 1
      OBVIOUS
    <3> QED BY <1>1, <1>2, <1>8, <3>1
  <2>3. ~HasValue(part', s)
    BY <1>4, <1>8 DEF HasValue, read_data
  <2>4. FlashInv(part', p)
    BY <1>8, <2>1, <2>2, <2>3, LossWithNewHeader DEF s
  <2> QED BY <1>5, <2>1, <2>2, <2>4
<1>9. CASE ~Appends(p) /\ part' = Prepared(p)
  <2>1. part'[Addr(s, 1)] = Erased
    <3>1. 0 # 1
      OBVIOUS
    <3> QED BY <1>1, <1>2, <1>9, <3>1
  <2> QED BY <1>2, <1>8, <1>9, <2>1
<1>10. CASE ~Appends(p) /\ part' = Spoilt(Prepared(p), s, 1)
  <2>1. /\ part' \in Flash
        /\ \A t \in Sectors, l \in 0..Slots :
             part'[Addr(t, l)] = IF t = s /\ l = 1 THEN Junk ELSE Prepared(p)[Addr(t, l)]
    BY <1>1, <1>2, <1>10, SpoiltIs
  <2>2. part'[Addr(s, 1)] = Junk
    BY <1>1, <2>1
  <2> QED BY <1>8, <1>10, <2>1, <2>2
<1>11. CASE Appends(p) /\ ~AppendTears /\ part' = part
  <2>1. ASSUME NEW q \in Params
        PROVE  FlashInv(part, q)
    BY BeforeSave, WholeGives
  <2> QED BY <1>1, <1>11, <2>1
<1>12. CASE Appends(p) /\ AppendTears /\ part' = Spoilt(part, s, Target(p).num)
  <2> DEFINE k == Target(p).num
  <2>0. k \in 0..Slots /\ part' = Spoilt(part, s, k)
    BY <1>1, <1>12
  <2>1. k # 0 /\ k # 1
    <3>1. Current(p).num \in 1..Slots /\ k = Current(p).num + 1
      BY <1>12, TargetIs DEF TargetFits
    <3> QED BY <3>1, ParamSizes
  <2> HIDE DEF k
  <2>2. /\ part' \in Flash
        /\ \A t \in Sectors, l \in 0..Slots :
             part'[Addr(t, l)] = IF t = s /\ l = k THEN Junk ELSE part[Addr(t, l)]
    <3> DEFINE f == part
               g == part'
    <3>1. f \in Flash /\ s \in Sectors /\ k \in 0..Slots /\ g = Spoilt(f, s, k)
      BY <1>1, <2>0
    <3> HIDE DEF f, g
    <3>2. /\ g \in Flash
          /\ \A t \in Sectors, l \in 0..Slots :
               g[Addr(t, l)] = IF t = s /\ l = k THEN Junk ELSE f[Addr(t, l)]
      BY <3>1, SpoiltIs
    <3> QED BY <3>2 DEF f, g
  <2>3. SameBut(part, part', s)
    BY <2>2 DEF SameBut
  <2>4. part'[Addr(s, 0)] = part[Addr(s, 0)] /\ part'[Addr(s, 1)] = part[Addr(s, 1)]
    BY <1>1, <2>1, <2>2
  <2>5. HasValue(part', s) <=> HasValue(part, s)
    BY <2>4 DEF HasValue, read_data
  <2>6. FlashInv(part', p)
    BY <1>12, <2>3, <2>4, <2>5, LossInAppend DEF s
  <2> QED BY <1>5, <2>2, <2>3, <2>4, <2>6
<1>13. CASE Appends(p)
  BY <1>3, <1>11, <1>12, <1>13
<1>14. CASE ~Appends(p)
  BY <1>2, <1>3, <1>6, <1>7, <1>8, <1>9, <1>10, <1>14
<1> QED BY <1>13, <1>14
-----------------------------------------------------------------------------
(* Power fails during flash_param_init *)
LEMMA LossInInit ==
    ASSUME part \in Flash, InvOff(part), PowerLossInInit
    PROVE  part' \in Flash /\ \A q \in Params : FlashInv(part', q)
<1> DEFINE W == Swept(part)
<1>1. PICK s \in W : part' \in HalfErased(SweptPart(part, {t \in W : t < s}), s)
  BY DEF PowerLossInInit
<1> DEFINE V == {t \in W : t < s}
           h == SweptPart(part, V)
<1>2. /\ W \subseteq Sectors
      /\ \A t \in Sectors : t \in W <=> read_info(part, t) /\ t \notin FoundAll(part)
  BY UnusedIs
<1>3. s \in Sectors /\ V \in SUBSET Sectors /\ part' \in HalfErased(h, s)
  BY <1>1, <1>2
<1>4. /\ h \in Flash
      /\ \A t \in Sectors, l \in 0..Slots :
           h[Addr(t, l)] = IF t \in V THEN Erased ELSE part[Addr(t, l)]
  <2> HIDE DEF V
  <2> QED BY <1>3, SweepIs
<1>5. \A t \in V : t \in W
  OBVIOUS
<1> HIDE DEF h, V, W
<1>6. /\ part' \in Flash
      /\ \A t \in Sectors, l \in 0..Slots :
           t # s => part'[Addr(t, l)] = h[Addr(t, l)]
      /\ \A l \in 0..Slots : part'[Addr(s, l)] \in {h[Addr(s, l)], Junk}
  BY <1>3, <1>4, HalfErasedIs
<1>7. ASSUME NEW t \in Sectors, NEW l \in 0..Slots
      PROVE  /\ part'[Addr(t, l)] \in {part[Addr(t, l)], Erased, Junk}
             /\ t \notin W => part'[Addr(t, l)] = part[Addr(t, l)]
  BY <1>1, <1>4, <1>5, <1>6
<1>8. 0 \in 0..Slots /\ 1 \in 0..Slots /\ \A k \in 1..Slots : k \in 0..Slots
  BY ParamSizes
<1>9. \A v \in {Erased, Junk} : v \notin Values /\ v \notin Headers
  BY CellsApart
<1>10. ASSUME NEW q \in Params
       PROVE  FlashInv(part', q)
  <2>1. FlashInv(part, q)
    BY DEF InvOff
  <2>2. ASSUME NEW t \in Own(part, q), HasValue(part, t)
        PROVE  t \notin W
    <3>1. t \in Found(part, q)
      BY <2>1, <2>2, AllAreFound, UsableIs
    <3>2. t \in FoundAll(part) /\ t \in Sectors
      BY <3>1, OwnIs DEF FoundAll
    <3> QED BY <1>2, <3>2
  <2>3. ASSUME NEW t \in Own(part', q)
        PROVE  /\ t \in Own(part, q) /\ part'[Addr(t, 0)] = part[Addr(t, 0)]
               /\ HasValue(part', t) <=> HasValue(part, t)
               /\ HasValue(part, t) => (Clean(part', q, t) <=> Clean(part, q, t))
    <3>1. t \in Sectors /\ part'[Addr(t, 0)] \in Headers /\ part'[Addr(t, 0)].param = q
      BY DEF Own, read_info
    <3>2. part'[Addr(t, 0)] = part[Addr(t, 0)]
      BY <1>7, <1>8, <1>9, <3>1
    <3>3. t \in Own(part, q)
      BY <3>1, <3>2 DEF Own, read_info
    <3>4. CASE t \in W
      <4>1. ~HasValue(part, t)
        BY <2>2, <3>3, <3>4
      <4>2. ~HasValue(part', t)
        BY <1>7, <1>8, <1>9, <3>1, <4>1 DEF HasValue, read_data
      <4> QED BY <3>2, <3>3, <4>1, <4>2
    <3>5. CASE t \notin W
      <4>1. \A l \in 0..Slots : part'[Addr(t, l)] = part[Addr(t, l)]
        BY <1>7, <3>1, <3>5
      <4>2. \A n : Filling(part', t, n) <=> Filling(part, t, n)
        BY <1>8, <4>1 DEF Filling, read_data
      <4>3. HasValue(part', t) <=> HasValue(part, t)
        BY <1>8, <4>1 DEF HasValue, read_data
      <4>4. Clean(part', q, t) <=> Clean(part, q, t)
        BY <4>2 DEF Clean
      <4> QED BY <3>2, <3>3, <4>3, <4>4
    <3> QED BY <3>4, <3>5
  <2>4. ASSUME NEW t \in Own(part, q), HasValue(part, t)
        PROVE  t \in Own(part', q)
    <3>1. t \in Sectors
      BY OwnIs
    <3>2. part'[Addr(t, 0)] = part[Addr(t, 0)]
      BY <1>7, <1>8, <2>2, <2>4, <3>1
    <3> QED BY <3>2 DEF Own, read_info
  <2> QED BY <2>1, <2>3, <2>4, LossOfEmpty
<1> QED BY <1>6, <1>10
-----------------------------------------------------------------------------
(* RAM at power-up is a table of its type. *)
NoTabFits ==
    /\ DOMAIN NoTab = Params
    /\ \A p \in Params : /\ NoTab[p] \in [1..SecTabSize[p] -> Entries]
                         /\ 1 \in 1..SecTabSize[p]

LEMMA NoTabIs == NoTabFits
<1> DEFINE E == [sector |-> 0, num |-> 0, index |-> 0]
<1>1. ASSUME NEW p \in Params
      PROVE  E \in Entries /\ 1 \in 1..SecTabSize[p]
  <2>1. /\ SecTabSize[p] \in Nat /\ SecTabSize[p] >= 2 /\ SecTabSize[p] <= PartSectors
        /\ PartSectors \in Nat
    BY TabSizes, TabEntriesIs, ParamSizes
  <2>2. 0 \in Sectors /\ 0 \in 0..Slots /\ 0 \in 0..(IndexMod - 1)
        /\ 1 \in 1..SecTabSize[p]
    BY <2>1, TabSizes, ParamSizes DEF Sectors
  <2> QED BY <2>2 DEF Entries
<1>2. NoTab = [p \in Params |-> [k \in 1..SecTabSize[p] |-> E]]
  BY DEF NoTab
<1> HIDE DEF E
<1> QED BY <1>1, <1>2 DEF NoTabFits
-----------------------------------------------------------------------------
(* The steps *)

LEMMA ParamStart ==
    ASSUME Init
    PROVE  ParamInv
<1> DEFINE D == 0..(PartSectors * SectorUnits - 1)
<1>1. PICK cell \in {Erased, Junk} : part = [a \in D |-> cell]
  BY DEF Init
<1>2. cell \in Cells /\ cell \notin Headers
  BY CellsApart
<1>3. part \in Flash
  BY <1>1, <1>2 DEF Flash
<1>4. \A p \in Params : Own(part, p) = {}
  <2>1. \A s \in Sectors : part[Addr(s, 0)] = cell
    <3>1. \A s \in Sectors : Addr(s, 0) \in D
      <4>1. 0 \in 0..Slots
        BY ParamSizes
      <4> QED BY <4>1, AddrIs
    <3> QED BY <1>1, <3>1
  <2> QED BY <1>2, <2>1 DEF Own, read_info
<1>5. \A p \in Params : FlashInv(part, p)
  <2> TAKE p \in Params
  <2>1. 0 \in 0..(IndexMod - 1) /\ 0 \in 0..SecTabSize[p] /\ 0..(0 - 1) = {}
    BY TabSizes
  <2>2. Own(part, p) = {}
    BY <1>4
  <2>3. /\ Chain(part, Own(part, p), 0, 0) /\ OneIsEmpty(part, p, 0, 0)
        /\ NewestIsClean(part, p, 0)
    BY <2>1, <2>2 DEF Chain, OneIsEmpty, NewestIsClean
  <2> QED BY <2>1, <2>3 DEF FlashInv
<1>6. on = FALSE /\ tab = NoTab /\ save = [p \in Params |-> 1]
  BY DEF Init
<1>7. NoTabFits
  BY NoTabIs
<1>8. TypeOK
  BY <1>3, <1>6, <1>7 DEF TypeOK, Flash, Cells, NoTabFits
<1> QED BY <1>5, <1>6, <1>8 DEF ParamInv

LEMMA PowerIsOff ==
    ASSUME Off, part' \in Flash, \A q \in Params : FlashInv(part', q)
    PROVE  ParamInv'
<1>1. on' = FALSE /\ tab' = NoTab /\ save' = [p \in Params |-> 1]
  BY DEF Off
<1>2. NoTabFits
  BY NoTabIs
<1>3. TypeOK'
  BY <1>1, <1>2 DEF TypeOK, Flash, Cells, NoTabFits
<1> QED BY <1>1, <1>3 DEF ParamInv

LEMMA PowerLossKeeps ==
    ASSUME ParamInv, PowerLoss
    PROVE  ParamInv'
<1>1. part \in Flash
  BY DEF ParamInv, TypeOK, Flash, Cells
<1>2. \A q \in Params : FlashInv(part, q)
  <2>1. CASE on
    <3>1. OnInv
      BY <2>1 DEF ParamInv, OnInv
    <3> QED BY <3>1, BeforeSave, WholeGives
  <2>2. CASE ~on
    BY <2>2 DEF ParamInv
  <2> QED BY <2>1, <2>2
<1>3. part' = part /\ Off
  BY DEF PowerLoss
<1> QED BY <1>1, <1>2, <1>3, PowerIsOff

LEMMA InitKeeps ==
    ASSUME ParamInv, flash_param_init
    PROVE  ParamInv'
<1> DEFINE f == part
           g == part'
<1>1. /\ ~on /\ on' = TRUE /\ g = SweptPart(f, Swept(f))
      /\ tab' = [p \in Params |-> SortedTab(f, p)]
      /\ save' = [p \in Params |-> SaveSector(f, p)]
  BY DEF flash_param_init
<1>2. f \in Flash /\ InvOff(f)
  BY <1>1 DEF ParamInv, TypeOK, Flash, Cells, InvOff
<1> HIDE DEF f, g
<1>3. g \in Flash
  BY <1>1, <1>2, AfterSweep
<1>4. ASSUME NEW p \in Params
      PROVE  /\ SortedTab(f, p) \in [1..SecTabSize[p] -> Entries]
             /\ SaveSector(f, p) \in 1..SecTabSize[p]
             /\ TabInv(g, p, SortedTab(f, p), SaveSector(f, p))
  <2>1. \A k \in 1..SecTabSize[p] : SortedTab(f, p)[k] \in Entries
    BY <1>2, SortedIs DEF SortedEntry
  <2>2. SortedTab(f, p) = [k \in 1..SecTabSize[p] |-> SortedTab(f, p)[k]]
    BY DEF SortedTab
  <2>3. SortedTab(f, p) \in [1..SecTabSize[p] -> Entries]
    BY <2>1, <2>2
  <2>4. SaveSector(f, p) \in 1..SecTabSize[p]
    <3>1. /\ Cardinality(Found(f, p)) \in 0..SecTabSize[p]
          /\ SaveSector(f, p) = IF Cardinality(Found(f, p)) = 0 THEN 1
                                ELSE Cardinality(Found(f, p))
      BY <1>2, SortedIs
    <3> DEFINE m == Cardinality(Found(f, p))
    <3> HIDE DEF m
    <3> QED BY <3>1, TabSizes DEF m
  <2>5. TabInv(g, p, SortedTab(f, p), SaveSector(f, p))
    BY <1>1, <1>2, SortedTabInv
  <2> QED BY <2>3, <2>4, <2>5
<1>5. \A p, q \in Params : \A i \in 1..SecTabSize[p], j \in 1..SecTabSize[q] :
         SortedTab(f, p)[i].sector = SortedTab(f, q)[j].sector => p = q /\ i = j
  BY <1>2, SortedApart
<1>6. \A p \in Params : tab'[p] = SortedTab(f, p) /\ save'[p] = SaveSector(f, p)
  BY <1>1
<1>7. TypeOK'
  BY <1>1, <1>3, <1>4, <1>6 DEF TypeOK, Flash, Cells, g
<1>8. SectorsApart'
  BY <1>5, <1>6 DEF SectorsApart
<1>9. \A p \in Params : TabInv(part', p, tab'[p], save'[p])
  BY <1>4, <1>6 DEF g
<1> QED BY <1>1, <1>7, <1>8, <1>9 DEF ParamInv

(* What a save makes of the tables. *)
LEMMA SaveMakes ==
    ASSUME OnInv, NEW p \in Params, NEW val \in Values, Save(p, val)
    PROVE  /\ on' = TRUE /\ part' = Written(p, val)
           /\ DOMAIN tab' = Params /\ DOMAIN save' = Params
           /\ \A q \in Params : /\ tab'[q] = IF q = p THEN NewTab(p) ELSE tab[q]
                                /\ save'[q] = IF q = p THEN SaveAt(p) ELSE save[q]
<1>1. /\ on' = on /\ on
      /\ part' = Put(Prepared(p), Target(p).sector, Target(p).num, val)
      /\ save' = [save EXCEPT ![p] = SaveAt(p)]
      /\ tab' = [tab EXCEPT ![p][SaveAt(p)] = Target(p)]
  BY DEF Save, param_write, SaveAt
<1>2. DOMAIN tab = Params /\ DOMAIN save = Params
  BY DEF OnInv, TypeOK
<1>3. tab' = [tab EXCEPT ![p] = NewTab(p)]
  BY <1>1 DEF NewTab
<1> QED BY <1>1, <1>2, <1>3 DEF Written

LEMMA SaveKeeps ==
    ASSUME ParamInv, NEW p \in Params, NEW val \in Values, Save(p, val)
    PROVE  ParamInv'
<1>1. OnInv
  BY DEF ParamInv, OnInv, Save
<1>2. /\ on' = TRUE /\ part' = Written(p, val)
      /\ DOMAIN tab' = Params /\ DOMAIN save' = Params
      /\ \A q \in Params : /\ tab'[q] = IF q = p THEN NewTab(p) ELSE tab[q]
                           /\ save'[q] = IF q = p THEN SaveAt(p) ELSE save[q]
  BY <1>1, SaveMakes
<1>3. part' \in Flash
  BY <1>1, <1>2, WrittenIs
<1>4. /\ NewTab(p) \in [1..SecTabSize[p] -> Entries] /\ SaveAt(p) \in 1..SecTabSize[p]
      /\ \A k \in 1..SecTabSize[p] : NewTab(p)[k].sector = tab[p][k].sector
  BY <1>1, NewTabIs, TargetIs
<1>5. \A q \in Params : /\ tab'[q] \in [1..SecTabSize[q] -> Entries]
                        /\ save'[q] \in 1..SecTabSize[q]
                        /\ \A k \in 1..SecTabSize[q] :
                              tab'[q][k].sector = tab[q][k].sector
  BY <1>1, <1>2, <1>4, CurrentIs
<1>6. TypeOK'
  BY <1>2, <1>3, <1>5 DEF TypeOK, Flash, Cells
<1>7. SectorsApart'
  <2>1. \A a, b \in Params : \A i \in 1..SecTabSize[a], j \in 1..SecTabSize[b] :
           tab[a][i].sector = tab[b][j].sector => a = b /\ i = j
    BY <1>1 DEF OnInv, SectorsApart
  <2> QED BY <1>5, <2>1 DEF SectorsApart
<1>8. ASSUME NEW q \in Params
      PROVE  TabInv(part', q, tab'[q], save'[q])
  <2>1. CASE q # p
    <3>1. TabInv(part', q, tab[q], save[q])
      BY <1>1, <1>2, <2>1, SaveKeepsOthers
    <3> QED BY <1>2, <2>1, <3>1
  <2>2. CASE q = p
    <3>1. TabInv(part', p, NewTab(p), SaveAt(p))
      BY <1>1, <1>2, OneOfThree, MoveKeepsTab, StartKeepsTab, AppendKeepsTab
    <3> QED BY <1>2, <2>2, <3>1
  <2> QED BY <2>1, <2>2
<1> QED BY <1>2, <1>6, <1>7, <1>8 DEF ParamInv

LEMMA ParamStep ==
    ASSUME ParamInv, [Next]_vars
    PROVE  ParamInv'
<1>1. CASE flash_param_init
  BY <1>1, InitKeeps
<1>2. CASE \E p \in Params : \E v \in Values : Save(p, v)
  BY <1>2, SaveKeeps
<1>3. CASE PowerLoss
  BY <1>3, PowerLossKeeps
<1>4. CASE PowerLossInInit
  <2>1. part \in Flash /\ InvOff(part) /\ Off
    BY <1>4 DEF PowerLossInInit, ParamInv, TypeOK, Flash, Cells, InvOff
  <2> QED BY <1>4, <2>1, LossInInit, PowerIsOff
<1>5. CASE \E p \in Params : PowerLossInSave(p)
  <2>1. PICK p \in Params : PowerLossInSave(p)
    BY <1>5
  <2>2. OnInv /\ Off
    BY <2>1 DEF PowerLossInSave, ParamInv, OnInv
  <2> QED BY <2>1, <2>2, LossInSave, PowerIsOff
<1>6. CASE UNCHANGED vars
  <2>1. part' = part /\ on' = on /\ tab' = tab /\ save' = save
    BY <1>6 DEF vars
  <2>2. TypeOK' /\ (on => SectorsApart')
    BY <2>1 DEF ParamInv, TypeOK, SectorsApart
  <2> QED BY <2>1, <2>2 DEF ParamInv
<1> QED BY <1>1, <1>2, <1>3, <1>4, <1>5, <1>6 DEF Next

(* What the parameter manager's variables hold, whatever is saved and      *)
(* whenever power fails.                                                   *)
THEOREM ParamTypeCorrect == Spec => []TypeOK
<1>1. Init => ParamInv
  BY ParamStart
<1>2. ParamInv /\ [Next]_vars => ParamInv'
  BY ParamStep
<1>3. ParamInv => TypeOK
  BY DEF ParamInv
<1> QED BY <1>1, <1>2, <1>3, PTL DEF Spec

(* flash_param_init hands every sector out once: two parameters never      *)
(* write to the same one, whatever was lost before.                        *)
THEOREM NoSectorTwice == Spec => []SectorsApart
<1>1. Init => ParamInv
  BY ParamStart
<1>2. ParamInv /\ [Next]_vars => ParamInv'
  BY ParamStep
<1>3. ParamInv => SectorsApart
  BY DEF ParamInv, SectorsApart
<1> QED BY <1>1, <1>2, <1>3, PTL DEF Spec

(* What a save makes of the flash can be read back.                        *)
LEMMA SaveIsRead ==
    ASSUME AppendTears = FALSE, ParamInv,
           NEW p \in Params, NEW val \in Values, Save(p, val)
    PROVE  param_read(p)' = val
<1>1. OnInv
  BY DEF ParamInv, OnInv, Save
<1> DEFINE s == Target(p).sector
           j == Target(p).num
<1>2. /\ part' = Written(p, val)
      /\ tab'[p] = NewTab(p) /\ save'[p] = SaveAt(p)
  BY <1>1, SaveMakes
<1>3. /\ NewTab(p)[SaveAt(p)] = Target(p) /\ SaveAt(p) \in 1..SecTabSize[p]
      /\ j \in 1..Slots /\ j \in 0..Slots /\ s \in Sectors
  BY <1>1, NewTabIs, TargetIs, ParamSizes DEF TargetFits
<1>4. part'[Addr(s, j)] = IF Appends(p) THEN Program(part[Addr(s, j)], val) ELSE val
  BY <1>1, <1>2, <1>3, WrittenIs
<1>5. Appends(p) => part[Addr(s, j)] = Erased
  BY <1>1, <1>2, AppendKeepsTab
<1>6. Program(Erased, val) = val
  BY DEF Program
<1>7. part'[Addr(s, j)] = val
  BY <1>4, <1>5, <1>6
<1>8. Current(p)' = Target(p)
  BY <1>2, <1>3 DEF Current
<1>9. j # 0
  BY <1>3, ParamSizes
<1> HIDE DEF s, j
<1>10. Current(p)'.num = j /\ Current(p)'.sector = s
  BY <1>8 DEF s, j
<1>11. param_read(p)' = IF j = 0 THEN "no_data"
                        ELSE IF part'[Addr(s, j)] \in Values THEN part'[Addr(s, j)]
                        ELSE "crc_err"
  BY <1>10 DEF param_read, read_data
<1> QED BY <1>7, <1>9, <1>11

(* A save that succeeded can be read back, for every number of parameters, *)
(* sectors, slots and values, as long as appending is not torn (the        *)
(* configuration that tears appends has a run that finds the loss).        *)
THEOREM SavesAreReadable == AppendTears = FALSE => (Spec => SavedIsReadable)
<1> SUFFICES ASSUME AppendTears = FALSE
             PROVE  Spec => SavedIsReadable
  OBVIOUS
<1> DEFINE Readable ==
             \A p \in Params :
                on /\ tab'[p] # tab[p] /\ on' =>
                   \E v \in Values : Save(p, v) /\ param_read(p)' = v
<1>1. Init => ParamInv
  BY ParamStart
<1>2. ParamInv /\ [Next]_vars => ParamInv'
  BY ParamStep
<1>3. ASSUME ParamInv, [Next]_vars
      PROVE  [Readable]_vars
  <2> SUFFICES ASSUME NEW p \in Params, on, tab'[p] # tab[p], on'
               PROVE  \E v \in Values : Save(p, v) /\ param_read(p)' = v
    OBVIOUS
  <2>1. PICK q \in Params : \E v \in Values : Save(q, v)
    BY <1>3 DEF Next, vars, flash_param_init, PowerLoss, PowerLossInInit,
                PowerLossInSave, Off
  <2>2. PICK v \in Values : Save(q, v)
    BY <2>1
  <2>3. OnInv
    BY <1>3 DEF ParamInv, OnInv
  <2>4. p = q
    BY <2>2, <2>3, SaveMakes
  <2> QED BY <1>3, <2>2, <2>4, SaveIsRead
<1> HIDE DEF Readable
<1>4. Spec => [][Readable]_vars
  BY <1>1, <1>2, <1>3, PTL DEF Spec
<1> QED BY <1>4 DEF SavedIsReadable, Readable
-----------------------------------------------------------------------------
(* Histories that lose elements *)

LEMMA StoreCardinality ==
    ASSUME NEW S
    PROVE  Store!Cardinality(S) = Cardinality(S)
BY DEF Store!Cardinality, Cardinality

(* The elements at increasing positions pos[1], pos[2], ... *)
Rising(pos, m, n) ==
    /\ pos \in [1..m -> 1..n]
    /\ \A i, j \in 1..m : i < j => pos[i] < pos[j]
Positions(pos, m) == {pos[k] : k \in 1..m}

IsPicked(s, l, pos, m) == s = [k \in 1..m |-> l[pos[k]]]

LEMMA PickedIs ==
    ASSUME NEW n \in Nat, NEW m \in Nat, NEW l, NEW pos, Rising(pos, m, n)
    PROVE  /\ IsPicked(Store!Picked(l, Positions(pos, m)), l, pos, m)
           /\ Positions(pos, m) \in SUBSET (1..n)
<1> DEFINE idx == Positions(pos, m)
<1>p. idx = {pos[k] : k \in 1..m}
  BY DEF Positions
<1>r. /\ pos \in [1..m -> 1..n]
      /\ \A i, j \in 1..m : i < j => pos[i] < pos[j]
  BY DEF Rising
<1> HIDE DEF idx
<1> DEFINE h == [i \in idx |-> (CHOOSE k \in 1..m : pos[k] = i) - 1]
<1>1. \A i, j \in 1..m : pos[i] = pos[j] => i = j
  <2>1. \A i, j \in 1..m : i < j \/ i = j \/ j < i
    OBVIOUS
  <2>2. \A i \in 1..m : pos[i] \in Nat
    BY <1>r
  <2> QED BY <1>r, <2>1, <2>2
<1>2. \A k \in 1..m : pos[k] \in idx /\ h[pos[k]] = k - 1
  <2> SUFFICES ASSUME NEW k \in 1..m
               PROVE  pos[k] \in idx /\ h[pos[k]] = k - 1
    OBVIOUS
  <2>1. pos[k] \in idx
    BY <1>p
  <2>2. (CHOOSE j \in 1..m : pos[j] = pos[k]) = k
    BY <1>1
  <2> QED BY <2>1, <2>2
<1>3. \A i \in idx : \E k \in 1..m : i = pos[k]
  BY <1>p
<1> HIDE DEF h
<1>4. Numbers(h, idx, m)
  <2>1. h = [i \in idx |-> h[i]]
    BY DEF h
  <2>2. \A i \in idx : h[i] \in 0..(m - 1)
    <3> SUFFICES ASSUME NEW i \in idx
                 PROVE  h[i] \in 0..(m - 1)
      OBVIOUS
    <3>1. PICK k \in 1..m : i = pos[k]
      BY <1>3
    <3>2. h[i] = k - 1
      BY <1>2, <3>1
    <3> QED BY <3>2
  <2>3. \A i, j \in idx : h[i] = h[j] => i = j
    <3> SUFFICES ASSUME NEW i \in idx, NEW j \in idx, h[i] = h[j]
                 PROVE  i = j
      OBVIOUS
    <3>1. PICK k \in 1..m : i = pos[k]
      BY <1>3
    <3>2. PICK o \in 1..m : j = pos[o]
      BY <1>3
    <3>3. k - 1 = o - 1
      BY <1>2, <3>1, <3>2
    <3>4. k = o
      BY <3>3
    <3> QED BY <3>1, <3>2, <3>4
  <2>4. \A a \in 0..(m - 1) : \E i \in idx : h[i] = a
    <3> SUFFICES ASSUME NEW a \in 0..(m - 1)
                 PROVE  \E i \in idx : h[i] = a
      OBVIOUS
    <3>1. a + 1 \in 1..m /\ (a + 1) - 1 = a
      OBVIOUS
    <3>2. pos[a + 1] \in idx /\ h[pos[a + 1]] = a
      BY <1>2, <3>1
    <3> QED BY <3>2
  <2>5. h \in [idx -> 0..(m - 1)]
    BY <2>1, <2>2
  <2> QED BY <2>3, <2>4, <2>5 DEF Numbers
<1>5. \A i, j \in idx : j < i <=> h[j] < h[i]
  <2> SUFFICES ASSUME NEW i \in idx, NEW j \in idx
               PROVE  j < i <=> h[j] < h[i]
    OBVIOUS
  <2>1. PICK k \in 1..m : i = pos[k]
    BY <1>3
  <2>2. PICK o \in 1..m : j = pos[o]
    BY <1>3
  <2>3. h[i] = k - 1 /\ h[j] = o - 1
    BY <1>2, <2>1, <2>2
  <2>4. pos[k] \in Nat /\ pos[o] \in Nat
    BY <1>r
  <2>5. (o < k => j < i) /\ (k < o => i < j) /\ (o = k => i = j)
    BY <1>r, <2>1, <2>2
  <2> QED BY <2>1, <2>2, <2>3, <2>4, <2>5
<1>6. idx \in SUBSET (1..n)
  BY <1>p, <1>r
<1>7. \A i \in idx : Cardinality({j \in idx : j < i}) = h[i]
  <2> SUFFICES ASSUME NEW i \in idx
               PROVE  Cardinality({j \in idx : j < i}) = h[i]
    OBVIOUS
  <2>1. {j \in idx : j < i} = Lower(h, idx, i)
    BY <1>5 DEF Lower
  <2>2. Cardinality(Lower(h, idx, i)) = h[i]
    BY <1>4, HowManyLower
  <2> QED BY <2>1, <2>2
<1>8. Cardinality(idx) = m
  BY <1>4, NumberedSet, Zenon
<1> DEFINE B(i) == Cardinality({j \in idx : j < i})
<1>9. \A k \in 1..m : (CHOOSE i \in idx : B(i) = k - 1) = pos[k]
  <2> SUFFICES ASSUME NEW k \in 1..m
               PROVE  (CHOOSE i \in idx : B(i) = k - 1) = pos[k]
    OBVIOUS
  <2>1. \A i \in idx : B(i) = h[i]
    BY <1>7
  <2>2. \A i, j \in idx : h[i] = h[j] => i = j
    BY <1>4 DEF Numbers
  <2> HIDE DEF B
  <2>3. pos[k] \in idx /\ h[pos[k]] = k - 1
    BY <1>2
  <2>a. B(pos[k]) = k - 1
    BY <2>1, <2>3, Zenon
  <2>4. ASSUME NEW i \in idx, B(i) = k - 1
        PROVE  i = pos[k]
    <3>1. h[i] = h[pos[k]]
      BY <2>1, <2>3, <2>4
    <3> QED BY <2>2, <2>3, <3>1
  <2> QED BY <2>3, <2>a, <2>4, Zenon
<1>10. Store!Picked(l, idx) = [k \in 1..m |-> l[CHOOSE i \in idx : B(i) = k - 1]]
  <2> DEFINE C(i) == Store!Cardinality({j \in idx : j < i})
  <2>1. Store!Cardinality(idx) = m
    BY <1>8, StoreCardinality
  <2>2. \A i \in idx : C(i) = B(i)
    BY StoreCardinality
  <2>3. Store!Picked(l, idx) = [k \in 1..m |-> l[CHOOSE i \in idx : C(i) = k - 1]]
    BY <2>1 DEF Store!Picked
  <2> HIDE DEF B, C
  <2>4. \A k \in 1..m : (CHOOSE i \in idx : C(i) = k - 1)
                         = (CHOOSE i \in idx : B(i) = k - 1)
    BY <2>2
  <2> QED BY <2>3, <2>4
<1> HIDE DEF B
<1>11. Store!Picked(l, idx) = [k \in 1..m |-> l[pos[k]]]
  BY <1>9, <1>10
<1> QED BY <1>6, <1>11 DEF idx, IsPicked

(* ... and none of the last keep positions missing. *)
LEMMA ThinnedIs ==
    ASSUME NEW n \in Nat, NEW m \in Nat, NEW l, Len(l) = n, DOMAIN l = 1..n,
           NEW pos, Rising(pos, m, n), NEW keep,
           \A j \in 1..n : j > n - keep => \E k \in 1..m : pos[k] = j,
           NEW s, IsPicked(s, l, pos, m)
    PROVE  s \in Store!Thinned(l, keep)
<1>1. IsPicked(Store!Picked(l, Positions(pos, m)), l, pos, m)
  BY PickedIs, Zenon
<1>2. Positions(pos, m) \in SUBSET (1..n)
  BY PickedIs, Zenon
<1>3. \A j \in DOMAIN l : j > Len(l) - keep => j \in Positions(pos, m)
  BY DEF Positions
<1>4. s = Store!Picked(l, Positions(pos, m))
  BY <1>1 DEF IsPicked
<1> QED BY <1>2, <1>3, <1>4 DEF Store!Thinned

(* The same for two sets whose members are numbered by age: r gives the     *)
(* place in l of each member that is left.                                  *)
Placed(r, K, i, n) ==
    /\ \A a \in K : r[a] \in 1..n
    /\ \A a, b \in K : i[a] < i[b] => r[a] < r[b]

LEMMA RankedIsThinned ==
    ASSUME NEW n \in Nat, NEW l, Len(l) = n, DOMAIN l = 1..n, NEW keep,
           NEW K, NEW m \in Nat, NEW i, Numbers(i, K, m),
           NEW s, s = [k \in 1..m |-> s[k]],
           NEW r, Placed(r, K, i, n), \A a \in K : s[i[a] + 1] = l[r[a]],
           \A j \in 1..n : j > n - keep => \E a \in K : r[a] = j
    PROVE  s \in Store!Thinned(l, keep)
<1> DEFINE e(k) == CHOOSE a \in K : i[a] = k - 1
           pos == [k \in 1..m |-> r[e(k)]]
<1>1. /\ \A a \in K : i[a] \in 0..(m - 1)
      /\ \A a, b \in K : i[a] = i[b] => a = b
      /\ \A x \in 0..(m - 1) : \E a \in K : i[a] = x
  BY DEF Numbers
<1>2. \A k \in 1..m : e(k) \in K /\ i[e(k)] = k - 1
  <2> SUFFICES ASSUME NEW k \in 1..m
               PROVE  e(k) \in K /\ i[e(k)] = k - 1
    OBVIOUS
  <2>1. k - 1 \in 0..(m - 1)
    OBVIOUS
  <2>2. \E a \in K : i[a] = k - 1
    BY <1>1, <2>1
  <2> QED BY <2>2
<1>3. \A a \in K : i[a] + 1 \in 1..m /\ e(i[a] + 1) = a
  <2> SUFFICES ASSUME NEW a \in K
               PROVE  i[a] + 1 \in 1..m /\ e(i[a] + 1) = a
    OBVIOUS
  <2>1. i[a] + 1 \in 1..m /\ (i[a] + 1) - 1 = i[a]
    BY <1>1
  <2> QED BY <1>1, <1>2, <2>1
<1> HIDE DEF e
<1>4. Rising(pos, m, n)
  <2>1. \A k \in 1..m : pos[k] \in 1..n
    BY <1>2 DEF Placed
  <2>2. \A k, o \in 1..m : k < o => pos[k] < pos[o]
    <3> SUFFICES ASSUME NEW k \in 1..m, NEW o \in 1..m, k < o
                 PROVE  pos[k] < pos[o]
      OBVIOUS
    <3>1. e(k) \in K /\ e(o) \in K /\ i[e(k)] < i[e(o)]
      BY <1>2
    <3> QED BY <3>1 DEF Placed
  <2> QED BY <2>1, <2>2 DEF Rising
<1>5. \A j \in 1..n : j > n - keep => \E k \in 1..m : pos[k] = j
  <2> SUFFICES ASSUME NEW j \in 1..n, j > n - keep
               PROVE  \E k \in 1..m : pos[k] = j
    OBVIOUS
  <2>1. PICK a \in K : r[a] = j
    OBVIOUS
  <2>2. i[a] + 1 \in 1..m /\ pos[i[a] + 1] = j
    BY <1>3, <2>1
  <2> QED BY <2>2
<1>6. IsPicked(s, l, pos, m)
  <2>1. \A k \in 1..m : s[k] = l[pos[k]]
    <3> SUFFICES ASSUME NEW k \in 1..m
                 PROVE  s[k] = l[pos[k]]
      OBVIOUS
    <3>1. e(k) \in K /\ i[e(k)] + 1 = k
      BY <1>2
    <3>2. s[i[e(k)] + 1] = l[r[e(k)]]
      BY <3>1
    <3> QED BY <3>1, <3>2
  <2> HIDE DEF pos
  <2> QED BY <2>1 DEF IsPicked
<1> HIDE DEF pos
<1> QED BY <1>4, <1>5, <1>6, ThinnedIs

(* l is what the members of L are in f, in the order of h. *)
Lists(l, f, L, h, n) ==
    /\ n \in Nat /\ Numbers(h, L, n)
    /\ l \in [1..n -> Values] /\ Len(l) = n
    /\ \A a \in L : l[h[a] + 1] = f[a]

LEMMA LessIsThinned ==
    ASSUME NEW f, NEW L, NEW h, NEW n, NEW l, Lists(l, f, L, h, n),
           NEW g, NEW K, NEW i, NEW m, NEW s, Lists(s, g, K, i, m),
           NEW keep \in Nat, K \subseteq L,
           \A a \in K : g[a] = f[a],
           \A a, b \in K : i[a] < i[b] => h[a] < h[b],
           \A a \in L \ K : h[a] < n - keep
    PROVE  s \in Store!Thinned(l, keep)
<1> DEFINE r == [a \in K |-> h[a] + 1]
<1>1. /\ n \in Nat /\ Numbers(h, L, n) /\ DOMAIN l = 1..n /\ Len(l) = n
      /\ m \in Nat /\ Numbers(i, K, m) /\ s = [k \in 1..m |-> s[k]]
      /\ \A a \in K : s[i[a] + 1] = g[a]
      /\ \A a \in L : l[h[a] + 1] = f[a]
  BY DEF Lists
<1>2. \A a \in L : h[a] \in 0..(n - 1)
  BY <1>1 DEF Numbers
<1>3. Placed(r, K, i, n)
  <2>1. \A a \in K : r[a] = h[a] + 1 /\ h[a] \in 0..(n - 1)
    BY <1>2
  <2> HIDE DEF r
  <2>2. \A a \in K : r[a] \in 1..n
    BY <1>1, <2>1
  <2>3. \A a, b \in K : i[a] < i[b] => r[a] < r[b]
    <3> SUFFICES ASSUME NEW a \in K, NEW b \in K, i[a] < i[b]
                 PROVE  r[a] < r[b]
      OBVIOUS
    <3>1. h[a] < h[b]
      OBVIOUS
    <3> QED BY <2>1, <3>1
  <2> QED BY <2>2, <2>3 DEF Placed
<1>4. \A a \in K : s[i[a] + 1] = l[r[a]]
  BY <1>1
<1>5. \A j \in 1..n : j > n - keep => \E a \in K : r[a] = j
  <2> SUFFICES ASSUME NEW j \in 1..n, j > n - keep
               PROVE  \E a \in K : r[a] = j
    OBVIOUS
  <2>1. j - 1 \in 0..(n - 1) /\ ~(j - 1 < n - keep) /\ (j - 1) + 1 = j
    BY <1>1
  <2>2. PICK a \in L : h[a] = j - 1
    BY <1>1, <2>1 DEF Numbers
  <2>3. a \in K
    BY <2>1, <2>2
  <2> QED BY <2>1, <2>2, <2>3
<1> HIDE DEF r
<1> QED BY <1>1, <1>3, <1>4, <1>5, RankedIsThinned

LEMMA MoreIsThinned ==
    ASSUME NEW f, NEW L, NEW h, NEW n, NEW l, Lists(l, f, L, h, n),
           NEW g, NEW K, NEW i, NEW m, NEW s, Lists(s, g, K, i, m),
           NEW keep \in Nat, NEW new \in K, NEW v \in Values, g[new] = v,
           K \ {new} \subseteq L,
           \A a \in K \ {new} : g[a] = f[a] /\ ~(i[new] < i[a]),
           \A a, b \in K \ {new} : i[a] < i[b] => h[a] < h[b],
           \A a \in L \ (K \ {new}) : h[a] < n - keep
    PROVE  s \in Store!Thinned(Append(l, v), keep)
<1> DEFINE r == [a \in K |-> IF a = new THEN n + 1 ELSE h[a] + 1]
           q == Append(l, v)
<1>1. /\ n \in Nat /\ Numbers(h, L, n) /\ l \in Seq(Values) /\ Len(l) = n
      /\ m \in Nat /\ Numbers(i, K, m) /\ s = [k \in 1..m |-> s[k]]
      /\ \A a \in K : s[i[a] + 1] = g[a]
      /\ \A a \in L : l[h[a] + 1] = f[a]
  BY DEF Lists
<1>2. \A a \in L : h[a] \in 0..(n - 1)
  BY <1>1 DEF Numbers
<1>q. /\ Len(q) = n + 1 /\ DOMAIN q = 1..(n + 1) /\ q[n + 1] = v
      /\ \A k \in 1..n : q[k] = l[k]
  BY <1>1
<1>3. Placed(r, K, i, n + 1)
  <2>1. /\ \A a \in K \ {new} : r[a] = h[a] + 1 /\ h[a] \in 0..(n - 1)
        /\ r[new] = n + 1
    BY <1>2
  <2> HIDE DEF r
  <2>2. \A a \in K : r[a] \in 1..(n + 1)
    BY <1>1, <2>1
  <2>3. \A a, b \in K : i[a] < i[b] => r[a] < r[b]
    <3> SUFFICES ASSUME NEW a \in K, NEW b \in K, i[a] < i[b]
                 PROVE  r[a] < r[b]
      OBVIOUS
    <3>1. i[a] \in Int /\ i[b] \in Int
      BY <1>1 DEF Numbers
    <3>2. a # new
      BY <3>1
    <3>3. CASE b = new
      BY <1>1, <2>1, <3>2, <3>3
    <3>4. CASE b # new
      <4>1. h[a] < h[b]
        BY <3>2, <3>4
      <4> QED BY <2>1, <3>2, <3>4, <4>1
    <3> QED BY <3>3, <3>4
  <2> QED BY <2>2, <2>3 DEF Placed
<1>4. \A a \in K : s[i[a] + 1] = q[r[a]]
  <2> SUFFICES ASSUME NEW a \in K
               PROVE  s[i[a] + 1] = q[r[a]]
    OBVIOUS
  <2>1. CASE a = new
    <3>1. r[a] = n + 1
      BY <2>1
    <3> HIDE DEF q, r
    <3> QED BY <1>1, <1>q, <2>1, <3>1
  <2>2. CASE a # new
    <3>1. r[a] = h[a] + 1 /\ a \in L /\ h[a] + 1 \in 1..n
      BY <1>1, <1>2, <2>2
    <3> HIDE DEF q, r
    <3> QED BY <1>1, <1>q, <2>2, <3>1
  <2> QED BY <2>1, <2>2
<1>5. \A j \in 1..(n + 1) : j > (n + 1) - keep => \E a \in K : r[a] = j
  <2> SUFFICES ASSUME NEW j \in 1..(n + 1), j > (n + 1) - keep
               PROVE  \E a \in K : r[a] = j
    OBVIOUS
  <2>1. CASE j = n + 1
    BY <2>1
  <2>2. CASE j # n + 1
    <3>1. j - 1 \in 0..(n - 1) /\ ~(j - 1 < n - keep) /\ (j - 1) + 1 = j
      BY <1>1, <2>2
    <3>2. PICK a \in L : h[a] = j - 1
      BY <1>1, <3>1 DEF Numbers
    <3>3. a \in K \ {new}
      BY <3>1, <3>2
    <3> QED BY <3>1, <3>2, <3>3
  <2> QED BY <2>1, <2>2
<1>6. n + 1 \in Nat
  BY <1>1
<1> DEFINE N == n + 1
<1>7. /\ N \in Nat /\ Len(q) = N /\ DOMAIN q = 1..N
      /\ m \in Nat /\ Numbers(i, K, m) /\ s = [k \in 1..m |-> s[k]]
      /\ Placed(r, K, i, N) /\ \A a \in K : s[i[a] + 1] = q[r[a]]
      /\ \A j \in 1..N : j > N - keep => \E a \in K : r[a] = j
  BY <1>1, <1>q, <1>3, <1>4, <1>5, <1>6
<1> HIDE DEF r, q, N
<1>8. s \in Store!Thinned(q, keep)
  BY <1>7, RankedIsThinned, SMTT(40)
<1> QED BY <1>8 DEF q
-----------------------------------------------------------------------------
(* The history in flash: Live, Before and Stored of a partition f *)

LiveOf(f, p) ==
    {a \in DOMAIN f :
        /\ f[a] \in Values
        /\ read_info(f, SectorOf(a)) /\ f[Addr(SectorOf(a), 0)].param = p
        /\ p \in Normal => a = Addr(SectorOf(a), 1)
        /\ \A b \in Addr(SectorOf(a), 1)..a : f[b] \in Values}
BeforeOf(f, a, b) ==
    IF SectorOf(a) = SectorOf(b) THEN a < b
    ELSE Younger(f[Addr(SectorOf(b), 0)].index, f[Addr(SectorOf(a), 0)].index)
Earlier(f, S, a) == {b \in S : BeforeOf(f, b, a)}
StoredOf(f, p) ==
    [k \in 1..Cardinality(LiveOf(f, p)) |->
        f[CHOOSE a \in LiveOf(f, p) :
            Cardinality(Earlier(f, LiveOf(f, p), a)) = k - 1]]

LEMMA StoredIs ==
    \A p \in Params : Stored(p) = StoredOf(part, p) /\ Stored(p)' = StoredOf(part', p)
BY DEF Stored, StoredOf, Nth, Live, LiveOf, Before, BeforeOf, Earlier, HeaderAt

LEMMA SectorUnitsAre ==
    ASSUME NEW a \in 0..(PartSectors * SectorUnits - 1)
    PROVE  /\ SectorOf(a) \in Sectors
           /\ \E k \in 0..Slots : a = Addr(SectorOf(a), k)
<1> DEFINE U == SectorUnits
           q == a \div U
           k == a % U
<1>0. U \in Nat \ {0} /\ PartSectors \in Nat /\ U = Slots + 1 /\ Slots \in Nat
  BY ParamSizes DEF SectorUnits
<1>1. a \in Int /\ 0 <= a /\ a < PartSectors * U
  BY <1>0
<1> HIDE DEF U
<1>2. k \in 0..(U - 1) /\ q \in Int /\ a = U * q + k
  BY <1>0, <1>1, DivMod
<1> HIDE DEF q, k
<1>3. q >= 0
  <2> SUFFICES ASSUME q <= -1
               PROVE  FALSE
    BY <1>2
  <2>1. U * q <= U * (-1)
    BY <1>0, <1>2
  <2> QED BY <1>0, <1>1, <1>2, <2>1
<1>4. q < PartSectors
  <2> SUFFICES ASSUME q >= PartSectors
               PROVE  FALSE
    BY <1>0, <1>2
  <2>1. U * q >= U * PartSectors /\ U * PartSectors = PartSectors * U
    BY <1>0, <1>2
  <2> QED BY <1>0, <1>1, <1>2, <2>1
<1>5. q \in Sectors /\ k \in 0..Slots /\ q * U = U * q
  BY <1>0, <1>2, <1>3, <1>4 DEF Sectors
<1>6. a = Addr(q, k)
  BY <1>2, <1>5 DEF Addr, U
<1> QED BY <1>5, <1>6 DEF SectorOf, q, U

LEMMA AddrsUpTo ==
    ASSUME NEW s \in Sectors, NEW k \in 0..Slots
    PROVE  /\ SectorOf(Addr(s, k)) = s
           /\ \A b \in 1..k : Addr(s, b) \in Addr(s, 1)..Addr(s, k)
           /\ \A a \in Addr(s, 1)..Addr(s, k) : \E b \in 1..k : a = Addr(s, b)
<1> DEFINE x == s * SectorUnits
<1>1. SectorOf(Addr(s, k)) = s
  BY AddrIs DEF SectorOf
<1>2. x \in Int /\ k \in Nat
  <2>1. s \in Int /\ SectorUnits \in Int
    BY ParamSizes DEF Sectors
  <2> QED BY <2>1, ParamSizes
<1>3. \A b : Addr(s, b) = x + b
  BY DEF Addr
<1> HIDE DEF x
<1>4. \A b \in 1..k : Addr(s, b) \in Addr(s, 1)..Addr(s, k)
  BY <1>2, <1>3
<1>5. ASSUME NEW a \in Addr(s, 1)..Addr(s, k)
      PROVE  \E b \in 1..k : a = Addr(s, b)
  <2>1. a \in (x + 1)..(x + k)
    BY <1>3
  <2>2. a - x \in 1..k /\ a = x + (a - x)
    BY <1>2, <2>1
  <2> QED BY <1>3, <2>2
<1> QED BY <1>1, <1>4, <1>5

(* The live cells of p: in each sector with values of p the first ones. *)
Num(f, s) == search_data_num(f, s)

LEMMA UsableHas ==
    ASSUME NEW f, NEW p \in Params, NEW s \in Usable(f, p)
    PROVE  /\ s \in Sectors /\ s \in Own(f, p) /\ read_info(f, s)
           /\ f[Addr(s, 0)].param = p /\ HasValue(f, s)
           /\ Num(f, s) \in 1..Slots
<1>1. s \in Own(f, p) /\ HasValue(f, s)
  BY UsableIs
<1>2. s \in Sectors /\ read_info(f, s) /\ f[Addr(s, 0)].param = p
  BY <1>1 DEF Own
<1>3. Num(f, s) \in 0..Slots /\ Num(f, s) # 0
  BY <1>1, <1>2, DataNumIs DEF Num
<1> QED BY <1>1, <1>2, <1>3, ParamSizes

LEMMA LiveHas ==
    ASSUME NEW f \in Flash, NEW p \in Params, NEW s \in Usable(f, p),
           NEW k \in 1..Num(f, s)
    PROVE  /\ Addr(s, k) \in LiveOf(f, p) /\ k \in 1..Slots
           /\ SectorOf(Addr(s, k)) = s /\ f[Addr(s, k)] \in Values
           /\ p \in Normal => k = 1
<1>1. /\ s \in Sectors /\ f[Addr(s, 0)].param = p /\ read_info(f, s)
      /\ Num(f, s) \in 1..Slots
  BY UsableHas
<1>2. k \in 1..Slots /\ k \in 0..Slots /\ k <= search_data_num(f, s)
  BY <1>1, ParamSizes DEF Num
<1>3. (p \in Normal => k = 1) /\ \A b \in 1..k : read_data(f, s, b)
  BY <1>1, <1>2, NumCounts
<1>4. /\ SectorOf(Addr(s, k)) = s
      /\ \A a \in Addr(s, 1)..Addr(s, k) : \E b \in 1..k : a = Addr(s, b)
  BY <1>1, <1>2, AddrsUpTo
<1>5. \A a \in Addr(s, 1)..Addr(s, k) : f[a] \in Values
  BY <1>3, <1>4 DEF read_data
<1>6. f[Addr(s, k)] \in Values
  <2>1. k \in 1..k
    BY <1>2
  <2> QED BY <1>3, <2>1 DEF read_data
<1>7. Addr(s, k) \in DOMAIN f
  BY <1>1, <1>2, AddrIs DEF Flash
<1> QED BY <1>1, <1>2, <1>3, <1>4, <1>5, <1>6, <1>7 DEF LiveOf

LEMMA LiveIs ==
    ASSUME NEW f \in Flash, NEW p \in Params, NEW a \in LiveOf(f, p)
    PROVE  \E s \in Usable(f, p) : \E k \in 1..Num(f, s) : a = Addr(s, k)
<1> DEFINE s == SectorOf(a)
<1>1. /\ a \in 0..(PartSectors * SectorUnits - 1) /\ f[a] \in Values
      /\ read_info(f, s) /\ f[Addr(s, 0)].param = p
      /\ p \in Normal => a = Addr(s, 1)
      /\ \A b \in Addr(s, 1)..a : f[b] \in Values
  BY DEF LiveOf, Flash
<1> HIDE DEF s
<1>2. s \in Sectors /\ \E k \in 0..Slots : a = Addr(s, k)
  BY <1>1, SectorUnitsAre DEF s
<1>3. PICK k \in 0..Slots : a = Addr(s, k)
  BY <1>2
<1>4. k # 0
  BY <1>1, <1>3, CellsApart DEF read_info
<1>5. k \in 1..Slots /\ 1 \in 1..k /\ 1 \in 0..Slots
  BY <1>3, <1>4, ParamSizes
<1>6. \A b \in 1..k : read_data(f, s, b)
  BY <1>1, <1>2, <1>3, AddrsUpTo DEF read_data
<1>7. p \in Normal => k = 1
  BY <1>1, <1>2, <1>3, <1>5, AddrDistinct
<1>8. k <= search_data_num(f, s)
  BY <1>1, <1>5, <1>6, <1>7, NumCounts
<1>9. search_data_num(f, s) \in Int
  BY <1>1, DataNumIs
<1>10. k \in 1..Num(f, s)
  BY <1>5, <1>8, <1>9 DEF Num
<1>11. s \in Usable(f, p)
  <2>1. s \in Own(f, p) /\ HasValue(f, s)
    BY <1>1, <1>2, <1>5, <1>6 DEF Own, HasValue
  <2> QED BY <2>1, UsableIs
<1> QED BY <1>3, <1>10, <1>11

(* The order of history: older sectors first, then by slot. *)
Sooner(f, c, s, k, t, l) ==
    Age(f, t, c) < Age(f, s, c) \/ (s = t /\ k < l)

LEMMA AgesOf ==
    ASSUME NEW f, NEW p \in Params, NEW c, NEW m, Held(f, p, Usable(f, p), c, m)
    PROVE  /\ c \in Int /\ m \in Nat /\ m <= SecTabSize[p] /\ m < IndexMod \div 2
           /\ \A s \in Usable(f, p) :
                /\ f[Addr(s, 0)].index \in 0..(IndexMod - 1)
                /\ Age(f, s, c) \in 0..(m - 1) /\ Age(f, s, c) \in Nat
           /\ \A s, t \in Usable(f, p) : Age(f, s, c) = Age(f, t, c) => s = t
<1>1. c \in Int /\ m \in Nat /\ m <= SecTabSize[p] /\ m < IndexMod \div 2
  <2>1. c \in 0..(IndexMod - 1) /\ m \in 0..SecTabSize[p]
    BY DEF Held
  <2>2. IndexMod \div 2 \in Int
    BY ParamSizes
  <2> QED BY <2>1, <2>2, TabSizes
<1>2. \A s \in Usable(f, p) : f[Addr(s, 0)].index \in 0..(IndexMod - 1)
  BY UsableHas, OwnIs
<1>3. Chain(f, Usable(f, p), c, m)
  BY DEF Held
<1> QED BY <1>1, <1>2, <1>3 DEF Chain

LEMMA BeforeIs ==
    ASSUME NEW f \in Flash, NEW p \in Params, NEW c, NEW m,
           Held(f, p, Usable(f, p), c, m),
           NEW s \in Usable(f, p), NEW k \in 1..Num(f, s),
           NEW t \in Usable(f, p), NEW l \in 1..Num(f, t)
    PROVE  BeforeOf(f, Addr(s, k), Addr(t, l)) <=> Sooner(f, c, s, k, t, l)
<1>1. /\ SectorOf(Addr(s, k)) = s /\ SectorOf(Addr(t, l)) = t
      /\ k \in Int /\ l \in Int
  BY LiveHas
<1>2. /\ c \in Int /\ m \in Nat /\ m < IndexMod \div 2
      /\ f[Addr(s, 0)].index \in 0..(IndexMod - 1)
      /\ f[Addr(t, 0)].index \in 0..(IndexMod - 1)
      /\ Age(f, s, c) \in 0..(m - 1) /\ Age(f, t, c) \in 0..(m - 1)
      /\ Age(f, s, c) = Age(f, t, c) => s = t
  BY AgesOf
<1>3. CASE s = t
  <2>1. BeforeOf(f, Addr(s, k), Addr(t, l)) <=> Addr(s, k) < Addr(t, l)
    BY <1>1, <1>3 DEF BeforeOf
  <2>2. s * SectorUnits \in Int
    <3>1. s \in Int /\ SectorUnits \in Int
      BY UsableHas, ParamSizes DEF Sectors
    <3> QED BY <3>1
  <2>3. Addr(s, k) < Addr(t, l) <=> k < l
    BY <1>1, <1>3, <2>2 DEF Addr
  <2> QED BY <1>2, <1>3, <2>1, <2>3 DEF Sooner
<1>4. CASE s # t
  <2>1. BeforeOf(f, Addr(s, k), Addr(t, l))
        <=> Younger(f[Addr(t, 0)].index, f[Addr(s, 0)].index)
    BY <1>1, <1>4 DEF BeforeOf
  <2>2. Older(f, s, t) <=> Age(f, t, c) < Age(f, s, c)
    BY <1>2, OlderIs
  <2> QED BY <1>4, <2>1, <2>2 DEF Older, Sooner
<1> QED BY <1>3, <1>4

(* Keys in that order, all different. *)
Key(f, c, a) == (a % SectorUnits) - Age(f, SectorOf(a), c) * SectorUnits

LEMMA KeysAre ==
    ASSUME NEW f \in Flash, NEW p \in Params, NEW c, NEW m,
           Held(f, p, Usable(f, p), c, m),
           NEW s \in Usable(f, p), NEW k \in 1..Num(f, s),
           NEW t \in Usable(f, p), NEW l \in 1..Num(f, t)
    PROVE  /\ Key(f, c, Addr(s, k)) \in Int
           /\ Key(f, c, Addr(s, k)) < Key(f, c, Addr(t, l))
                <=> Sooner(f, c, s, k, t, l)
           /\ Key(f, c, Addr(s, k)) = Key(f, c, Addr(t, l)) => s = t /\ k = l
<1> DEFINE U == SectorUnits
           a == Age(f, s, c)
           b == Age(f, t, c)
<1>1. /\ SectorOf(Addr(s, k)) = s /\ SectorOf(Addr(t, l)) = t
      /\ k \in 1..Slots /\ l \in 1..Slots
  BY LiveHas
<1>2. /\ U \in Nat /\ U = Slots + 1 /\ Slots \in Nat
      /\ a \in Nat /\ b \in Nat /\ (a = b => s = t)
  BY AgesOf, ParamSizes DEF SectorUnits
<1>3. Key(f, c, Addr(s, k)) = k - a * U /\ Key(f, c, Addr(t, l)) = l - b * U
  <2>1. s \in Sectors /\ t \in Sectors /\ k \in 0..Slots /\ l \in 0..Slots
    BY <1>1, UsableHas
  <2> QED BY <1>1, <2>1, AddrIs DEF Key
<1> HIDE DEF U, a, b
<1>4. a * U \in Int /\ b * U \in Int
  BY <1>2
<1>5. CASE a < b
  <2>1. (a + 1) * U <= b * U /\ (a + 1) * U = a * U + U
    BY <1>2, <1>5
  <2>2. a # b /\ s # t
    BY <1>2, <1>5 DEF a, b
  <2> QED BY <1>1, <1>2, <1>3, <1>4, <1>5, <2>1, <2>2 DEF Sooner, a, b
<1>6. CASE b < a
  <2>1. (b + 1) * U <= a * U /\ (b + 1) * U = b * U + U
    BY <1>2, <1>6
  <2> QED BY <1>1, <1>2, <1>3, <1>4, <1>6, <2>1 DEF Sooner, a, b
<1>7. CASE a = b
  <2>1. s = t
    BY <1>2, <1>7
  <2>2. ~(b < a)
    BY <1>2, <1>7
  <2> QED BY <1>1, <1>2, <1>3, <1>4, <1>7, <2>1, <2>2 DEF Sooner, a, b
<1> QED BY <1>2, <1>5, <1>6, <1>7

(* h numbers the live cells of p in the order of its history. *)
InOrder(h, f, p, c) ==
    \A s, t \in Usable(f, p) : \A k \in 1..Num(f, s), l \in 1..Num(f, t) :
        h[Addr(s, k)] < h[Addr(t, l)] <=> Sooner(f, c, s, k, t, l)

LEMMA HistoryIs ==
    ASSUME NEW f \in Flash, NEW p \in Params, NEW c, NEW m,
           Held(f, p, Usable(f, p), c, m)
    PROVE  \E h, n : /\ Lists(StoredOf(f, p), f, LiveOf(f, p), h, n)
                     /\ InOrder(h, f, p, c)
<1> DEFINE L == LiveOf(f, p)
           key == [a \in L |-> Key(f, c, a)]
           K == {key[a] : a \in L}
           n == Cardinality(K)
           h == [a \in L |-> Ranks(K)[key[a]]]
<1>1. \A a \in L : \E s \in Usable(f, p) : \E k \in 1..Num(f, s) : a = Addr(s, k)
  BY LiveIs
<1>2. \A s \in Usable(f, p) : \A k \in 1..Num(f, s) : Addr(s, k) \in L
  BY LiveHas
<1>3. IsFiniteSet(L)
  <2>1. L \in SUBSET (0..(PartSectors * SectorUnits - 1))
    BY DEF LiveOf, Flash
  <2>2. PartSectors * SectorUnits \in Nat
    BY ParamSizes
  <2>3. IsFiniteSet(0..(PartSectors * SectorUnits - 1))
    BY <2>2, UpToCount
  <2> QED BY <2>1, <2>3, FS_Subset
<1>4. \A a \in L : key[a] = Key(f, c, a)
  OBVIOUS
<1> HIDE DEF L
<1>5. \A a \in L : key[a] \in Int
  <2> SUFFICES ASSUME NEW a \in L
               PROVE  key[a] \in Int
    OBVIOUS
  <2>1. PICK s \in Usable(f, p) : \E k \in 1..Num(f, s) : a = Addr(s, k)
    BY <1>1
  <2>2. PICK k \in 1..Num(f, s) : a = Addr(s, k)
    BY <2>1
  <2>3. Key(f, c, a) \in Int
    BY <2>2, KeysAre
  <2> QED BY <1>4, <2>3
<1>6. \A a, b \in L : key[a] = key[b] => a = b
  <2> SUFFICES ASSUME NEW a \in L, NEW b \in L, key[a] = key[b]
               PROVE  a = b
    OBVIOUS
  <2>1. PICK s \in Usable(f, p) : \E k \in 1..Num(f, s) : a = Addr(s, k)
    BY <1>1
  <2>2. PICK k \in 1..Num(f, s) : a = Addr(s, k)
    BY <2>1
  <2>3. PICK t \in Usable(f, p) : \E l \in 1..Num(f, t) : b = Addr(t, l)
    BY <1>1
  <2>4. PICK l \in 1..Num(f, t) : b = Addr(t, l)
    BY <2>3
  <2>5. Key(f, c, Addr(s, k)) = Key(f, c, Addr(t, l))
    BY <1>4, <2>2, <2>4
  <2>6. s = t /\ k = l
    BY <2>5, KeysAre
  <2> QED BY <2>2, <2>4, <2>6
<1>7. key \in [L -> K]
  OBVIOUS
<1>8. K \in SUBSET Int /\ IsFiniteSet(K)
  <2>1. K \in SUBSET Int
    BY <1>5
  <2>2. key \in Surjection(L, K)
    BY <1>7 DEF Surjection
  <2>3. IsFiniteSet(K)
    BY <1>3, <2>2, FS_Surjection
  <2> QED BY <2>1, <2>3
<1>9. \A a \in L : key[a] \in K
  OBVIOUS
<1>a. \A x \in K : \E a \in L : key[a] = x
  OBVIOUS
<1> HIDE DEF key, K, n
<1>10. /\ n \in Nat
       /\ Ranks(K) \in [K -> 0..(n - 1)]
       /\ \A x, y \in K : Ranks(K)[x] = Ranks(K)[y] => x = y
       /\ \A i \in 0..(n - 1) : \E x \in K : Ranks(K)[x] = i
       /\ \A x, y \in K : x < y <=> Ranks(K)[x] < Ranks(K)[y]
  BY <1>8, RanksNumber DEF Numbers, n
<1>11. \A a \in L : h[a] = Ranks(K)[key[a]]
  OBVIOUS
<1>b. h = [a \in L |-> h[a]]
  OBVIOUS
<1> HIDE DEF h
<1>12. Numbers(h, L, n)
  <2>1. \A a \in L : h[a] \in 0..(n - 1)
    BY <1>9, <1>10, <1>11
  <2>2. \A a, b \in L : h[a] = h[b] => a = b
    BY <1>6, <1>9, <1>10, <1>11
  <2>3. \A i \in 0..(n - 1) : \E a \in L : h[a] = i
    <3> SUFFICES ASSUME NEW i \in 0..(n - 1)
                 PROVE  \E a \in L : h[a] = i
      OBVIOUS
    <3>1. PICK x \in K : Ranks(K)[x] = i
      BY <1>10
    <3>2. PICK a \in L : key[a] = x
      BY <1>a
    <3> QED BY <1>11, <3>1, <3>2
  <2> QED BY <1>b, <2>1, <2>2, <2>3 DEF Numbers
<1>13. \A a, b \in L : h[a] < h[b] <=> key[a] < key[b]
  BY <1>9, <1>10, <1>11
<1>14. InOrder(h, f, p, c)
  <2> SUFFICES ASSUME NEW s \in Usable(f, p), NEW t \in Usable(f, p),
                      NEW k \in 1..Num(f, s), NEW l \in 1..Num(f, t)
               PROVE  h[Addr(s, k)] < h[Addr(t, l)] <=> Sooner(f, c, s, k, t, l)
    BY DEF InOrder
  <2>1. Addr(s, k) \in L /\ Addr(t, l) \in L
    BY <1>2
  <2>2. Key(f, c, Addr(s, k)) < Key(f, c, Addr(t, l)) <=> Sooner(f, c, s, k, t, l)
    BY KeysAre
  <2>3. /\ key[Addr(s, k)] = Key(f, c, Addr(s, k))
        /\ key[Addr(t, l)] = Key(f, c, Addr(t, l))
    BY <1>4, <2>1
  <2>4. h[Addr(s, k)] < h[Addr(t, l)] <=> key[Addr(s, k)] < key[Addr(t, l)]
    BY <1>13, <2>1
  <2> QED BY <2>2, <2>3, <2>4
<1>15. \A a, b \in L : BeforeOf(f, b, a) <=> h[b] < h[a]
  <2> SUFFICES ASSUME NEW a \in L, NEW b \in L
               PROVE  BeforeOf(f, b, a) <=> h[b] < h[a]
    OBVIOUS
  <2>1. PICK s \in Usable(f, p) : \E k \in 1..Num(f, s) : a = Addr(s, k)
    BY <1>1
  <2>2. PICK k \in 1..Num(f, s) : a = Addr(s, k)
    BY <2>1
  <2>3. PICK t \in Usable(f, p) : \E l \in 1..Num(f, t) : b = Addr(t, l)
    BY <1>1
  <2>4. PICK l \in 1..Num(f, t) : b = Addr(t, l)
    BY <2>3
  <2>5. BeforeOf(f, b, a) <=> Sooner(f, c, t, l, s, k)
    BY <2>2, <2>4, BeforeIs
  <2>6. h[b] < h[a] <=> Sooner(f, c, t, l, s, k)
    BY <1>14, <2>2, <2>4 DEF InOrder
  <2> QED BY <2>5, <2>6
<1>16. \A a \in L : Cardinality(Earlier(f, L, a)) = h[a]
  <2> SUFFICES ASSUME NEW a \in L
               PROVE  Cardinality(Earlier(f, L, a)) = h[a]
    OBVIOUS
  <2>1. Earlier(f, L, a) = Lower(h, L, a)
    BY <1>15 DEF Earlier, Lower
  <2>2. Cardinality(Lower(h, L, a)) = h[a]
    BY <1>10, <1>12, HowManyLower
  <2> QED BY <2>1, <2>2
<1>17. Cardinality(L) = n
  BY <1>10, <1>12, NumberedSet
<1> DEFINE at(k) == CHOOSE a \in L : Cardinality(Earlier(f, L, a)) = k - 1
<1>18. \A a \in L : h[a] + 1 \in 1..n /\ at(h[a] + 1) = a
  <2> SUFFICES ASSUME NEW a \in L
               PROVE  h[a] + 1 \in 1..n /\ at(h[a] + 1) = a
    OBVIOUS
  <2>1. h[a] \in 0..(n - 1)
    BY <1>12 DEF Numbers
  <2>2. h[a] + 1 \in 1..n /\ (h[a] + 1) - 1 = h[a]
    BY <1>10, <2>1
  <2>3. \A b \in L : Cardinality(Earlier(f, L, b)) = h[a] => b = a
    BY <1>12, <1>16 DEF Numbers
  <2>4. Cardinality(Earlier(f, L, a)) = h[a]
    BY <1>16
  <2> QED BY <2>2, <2>3, <2>4
<1>19. \A k \in 1..n : at(k) \in L
  <2> SUFFICES ASSUME NEW k \in 1..n
               PROVE  at(k) \in L
    OBVIOUS
  <2>1. k - 1 \in 0..(n - 1)
    BY <1>10
  <2>2. PICK a \in L : h[a] = k - 1
    BY <1>12, <2>1 DEF Numbers
  <2>3. Cardinality(Earlier(f, L, a)) = k - 1
    BY <1>16, <2>2
  <2> QED BY <2>3
<1>20. StoredOf(f, p) = [k \in 1..n |-> f[at(k)]]
  BY <1>17 DEF StoredOf, L
<1>21. \A a \in L : f[a] \in Values
  BY DEF L, LiveOf
<1> HIDE DEF at
<1>22. /\ StoredOf(f, p) \in [1..n -> Values]
       /\ \A a \in L : StoredOf(f, p)[h[a] + 1] = f[a]
  <2>1. \A k \in 1..n : f[at(k)] \in Values
    BY <1>19, <1>21
  <2> QED BY <1>18, <1>20, <2>1
<1>23. Len(StoredOf(f, p)) = n
  BY <1>10, <1>22
<1>24. Lists(StoredOf(f, p), f, L, h, n)
  BY <1>10, <1>12, <1>22, <1>23 DEF Lists
<1> QED BY <1>14, <1>24 DEF L
-----------------------------------------------------------------------------
(* What the latest values need: full sectors *)

Width(p)   == IF p \in Normal THEN 1 ELSE Slots
KeepOf(p)  == IF p \in Normal THEN SecTabSize[p] - 1 ELSE (SecTabSize[p] - 1) * Slots
FullSector(f, s) == \A k \in 1..Slots : read_data(f, s, k)

(* Every sector of a queue's history is full, except the newest, and the   *)
(* oldest of a full table, whose erasure may have begun.                   *)
FullFrom(f, p, c, m) ==
    p \in Normal \/
    \A s \in Usable(f, p) :
        /\ Age(f, s, c) # 0
        /\ Age(f, s, c) = m - 1 => m < SecTabSize[p]
        => FullSector(f, s)
NewestFull(f, p, c) ==
    p \in Normal \/ \A s \in Usable(f, p) : Age(f, s, c) = 0 => FullSector(f, s)
FullInv(f, p) ==
    \E c, m : Held(f, p, Usable(f, p), c, m) /\ FullFrom(f, p, c, m)

LEMMA FullNum ==
    ASSUME NEW f, NEW p \in Params, NEW s \in Usable(f, p),
           p \in Normal \/ FullSector(f, s)
    PROVE  Num(f, s) >= Width(p) /\ Width(p) \in 1..Slots
<1>1. f[Addr(s, 0)].param = p /\ Num(f, s) \in 1..Slots /\ Slots \in Nat \ {0}
  BY UsableHas, ParamSizes
<1>2. CASE p \in Normal
  BY <1>1, <1>2 DEF Width
<1>3. CASE p \notin Normal
  <2>1. Slots \in 1..Slots
    BY <1>1
  <2>2. Slots <= search_data_num(f, s)
    BY <1>1, <1>3, <2>1, NumCounts DEF FullSector
  <2> QED BY <1>1, <1>3, <2>1, <2>2 DEF Width, Num
<1> QED BY <1>2, <1>3

(* When the oldest sector of a full table goes, the latest values stay. *)
LEMMA OldestGoes ==
    ASSUME NEW f \in Flash, NEW p \in Params, NEW c, NEW m,
           Held(f, p, Usable(f, p), c, m), m = SecTabSize[p],
           FullFrom(f, p, c, m), NewestFull(f, p, c),
           NEW s \in Usable(f, p), Age(f, s, c) = m - 1,
           NEW l, NEW h, NEW n, Lists(l, f, LiveOf(f, p), h, n), InOrder(h, f, p, c),
           NEW k \in 1..Num(f, s)
    PROVE  h[Addr(s, k)] < n - KeepOf(p)
<1> DEFINE L == LiveOf(f, p)
           M == {a \in L : SectorOf(a) # s}
           w == Width(p)
           E == (1..(m - 1)) \X (1..w)
           sec(x) == CHOOSE t \in Usable(f, p) : Age(f, t, c) = x - 1
           g == [e \in E |-> Addr(sec(e[1]), e[2])]
           b == Addr(s, k)
           B == Lower(h, L, b)
<1>1. /\ c \in Int /\ m \in Nat /\ m >= 2
      /\ \A t \in Usable(f, p) : Age(f, t, c) \in Nat /\ Age(f, t, c) <= m - 1
      /\ \A t, u \in Usable(f, p) : Age(f, t, c) = Age(f, u, c) => t = u
      /\ \A a \in 0..(m - 1) : \E t \in Usable(f, p) : Age(f, t, c) = a
  <2>1. Chain(f, Usable(f, p), c, m)
    BY DEF Held
  <2> QED BY <2>1, AgesOf, TabSizes DEF Chain
<1>2. \A x \in 1..(m - 1) :
        sec(x) \in Usable(f, p) /\ Age(f, sec(x), c) = x - 1 /\ sec(x) # s
  <2> SUFFICES ASSUME NEW x \in 1..(m - 1)
               PROVE  /\ sec(x) \in Usable(f, p) /\ Age(f, sec(x), c) = x - 1
                      /\ sec(x) # s
    OBVIOUS
  <2>1. x - 1 \in 0..(m - 1) /\ x - 1 # m - 1
    BY <1>1
  <2>2. \E t \in Usable(f, p) : Age(f, t, c) = x - 1
    BY <1>1, <2>1
  <2> QED BY <2>1, <2>2
<1> HIDE DEF sec
<1>3. \A x \in 1..(m - 1) : Num(f, sec(x)) >= w
  <2> SUFFICES ASSUME NEW x \in 1..(m - 1)
               PROVE  Num(f, sec(x)) >= w
    OBVIOUS
  <2>1. /\ sec(x) \in Usable(f, p) /\ Age(f, sec(x), c) = x - 1
        /\ Age(f, sec(x), c) # m - 1
    BY <1>1, <1>2
  <2>2. p \in Normal \/ FullSector(f, sec(x))
    BY <2>1 DEF FullFrom, NewestFull
  <2> QED BY <2>1, <2>2, FullNum
<1>4. w \in 1..Slots /\ w \in Nat /\ KeepOf(p) = (m - 1) * w /\ KeepOf(p) \in Nat
  <2>1. Slots \in Nat \ {0}
    BY ParamSizes
  <2>2. w = IF p \in Normal THEN 1 ELSE Slots
    BY DEF Width
  <2>3. w \in 1..Slots /\ w \in Nat
    BY <2>1, <2>2
  <2>4. KeepOf(p) = (m - 1) * w /\ m - 1 \in Nat
    BY <1>1, <2>1, <2>2 DEF KeepOf
  <2>5. (m - 1) * w \in Nat
    BY <2>3, <2>4
  <2> QED BY <2>3, <2>4, <2>5
<1> HIDE DEF w
<1>5. \A x \in 1..(m - 1) : \A y \in 1..w :
        /\ Addr(sec(x), y) \in M
        /\ sec(x) \in Sectors /\ y \in 0..Slots
  <2> SUFFICES ASSUME NEW x \in 1..(m - 1), NEW y \in 1..w
               PROVE  /\ Addr(sec(x), y) \in M
                      /\ sec(x) \in Sectors /\ y \in 0..Slots
    OBVIOUS
  <2>1. sec(x) \in Usable(f, p) /\ sec(x) # s /\ Num(f, sec(x)) >= w
    BY <1>2, <1>3
  <2>2. Num(f, sec(x)) \in 1..Slots /\ sec(x) \in Sectors
    BY <2>1, UsableHas
  <2>3. y \in 1..Num(f, sec(x)) /\ y \in 0..Slots
    BY <1>4, <2>1, <2>2, ParamSizes
  <2>4. Addr(sec(x), y) \in L /\ SectorOf(Addr(sec(x), y)) = sec(x)
    BY <2>1, <2>3, LiveHas
  <2> QED BY <2>1, <2>2, <2>3, <2>4
<1>6. g \in Injection(E, M)
  <2>1. g \in [E -> M]
    BY <1>5
  <2>2. \A d, e \in E : g[d] = g[e] => d = e
    <3> SUFFICES ASSUME NEW d \in E, NEW e \in E, g[d] = g[e]
                 PROVE  d = e
      OBVIOUS
    <3>1. /\ d[1] \in 1..(m - 1) /\ d[2] \in 1..w /\ d = <<d[1], d[2]>>
          /\ e[1] \in 1..(m - 1) /\ e[2] \in 1..w /\ e = <<e[1], e[2]>>
      OBVIOUS
    <3>2. Addr(sec(d[1]), d[2]) = Addr(sec(e[1]), e[2])
      OBVIOUS
    <3>3. sec(d[1]) = sec(e[1]) /\ d[2] = e[2]
      BY <1>5, <3>1, <3>2, AddrDistinct
    <3>4. d[1] - 1 = e[1] - 1
      BY <1>2, <3>1, <3>3
    <3>5. d[1] = e[1]
      BY <1>1, <3>1, <3>4
    <3> QED BY <3>1, <3>3, <3>5
  <2> HIDE DEF g, E, M
  <2> QED BY <2>1, <2>2, Fun_IsInj
<1>7. /\ n \in Nat /\ Numbers(h, L, n) /\ IsFiniteSet(L) /\ Cardinality(L) = n
      /\ \A a \in L : h[a] \in 0..(n - 1)
  <2>1. n \in Nat /\ Numbers(h, L, n)
    BY DEF Lists
  <2>2. IsFiniteSet(L) /\ Cardinality(L) = n
    <3> HIDE DEF L
    <3> QED BY <2>1, NumberedSet
  <2> QED BY <2>1, <2>2 DEF Numbers
<1>8. b \in L /\ SectorOf(b) = s
  BY LiveHas
<1>9. \A a \in B : a \in L /\ a \notin M /\ a # b
  <2> SUFFICES ASSUME NEW a \in B
               PROVE  a \in L /\ a \notin M /\ a # b
    OBVIOUS
  <2>1. a \in L /\ h[a] < h[b] /\ h[a] \in Int
    BY <1>7 DEF Lower
  <2>2. PICK t \in Usable(f, p) : \E j \in 1..Num(f, t) : a = Addr(t, j)
    BY <2>1, LiveIs
  <2>3. PICK j \in 1..Num(f, t) : a = Addr(t, j)
    BY <2>2
  <2>4. Sooner(f, c, t, j, s, k)
    BY <2>1, <2>3 DEF InOrder
  <2>5. ~(Age(f, s, c) < Age(f, t, c))
    BY <1>1
  <2>6. t = s
    BY <2>4, <2>5 DEF Sooner
  <2>7. SectorOf(a) = s
    BY <2>3, <2>6, LiveHas
  <2>8. a # b
    BY <2>1
  <2> QED BY <2>1, <2>7, <2>8
<1>10. IsFiniteSet(E) /\ Cardinality(E) = (m - 1) * w
  <2> DEFINE E1 == 1..(m - 1)
             E2 == 1..w
  <2>1. /\ IsFiniteSet(E1) /\ Cardinality(E1) = m - 1
        /\ IsFiniteSet(E2) /\ Cardinality(E2) = w
    BY <1>1, <1>4, UpToCount
  <2> HIDE DEF E1, E2
  <2>2. IsFiniteSet(E1 \X E2) /\ Cardinality(E1 \X E2) = Cardinality(E1) * Cardinality(E2)
    BY <2>1, FS_Product, Zenon
  <2> QED BY <2>1, <2>2 DEF E1, E2
<1>m. M \in SUBSET L
  OBVIOUS
<1>l. B \in SUBSET L
  BY <1>9
<1>c. Cardinality(B) = h[b]
  <2> HIDE DEF L, b
  <2> QED BY <1>7, <1>8, HowManyLower
<1>d. b \notin M /\ b \notin B
  BY <1>8, <1>9
<1> HIDE DEF L, M, E, g, b, B
<1>11. /\ IsFiniteSet(M) /\ IsFiniteSet(B)
       /\ Cardinality(M) \in Nat /\ Cardinality(B) \in Nat
  <2>1. IsFiniteSet(M) /\ IsFiniteSet(B)
    BY <1>7, <1>m, <1>l, FS_Subset
  <2> QED BY <2>1, FS_CardinalityType
<1>12. Cardinality(M) >= (m - 1) * w
  <2>1. Cardinality(E) <= Cardinality(M)
    BY <1>6, <1>11, FS_Injection
  <2> QED BY <1>10, <1>11, <2>1, <1>4
<1>13. /\ IsFiniteSet(B \cup {b})
       /\ Cardinality(B \cup {b}) = Cardinality(B) + 1
  BY <1>11, <1>d, FS_AddElement
<1>14. /\ Cardinality(M \cup (B \cup {b})) = Cardinality(M) + (Cardinality(B) + 1)
       /\ M \cup (B \cup {b}) \in SUBSET L
  <2> DEFINE C == B \cup {b}
  <2>1. M \cap C = {} /\ C \in SUBSET L
    BY <1>8, <1>9, <1>d
  <2>2. IsFiniteSet(C) /\ Cardinality(C) = Cardinality(B) + 1
    BY <1>13
  <2> HIDE DEF C
  <2>3. Cardinality(M \cup C) = Cardinality(M) + Cardinality(C) - Cardinality(M \cap C)
    BY <1>11, <2>2, FS_Union
  <2>4. Cardinality(M \cap C) = 0
    BY <2>1, FS_EmptySet
  <2>5. M \cup C \in SUBSET L
    BY <1>m, <2>1
  <2>6. Cardinality(M \cup C) = Cardinality(M) + (Cardinality(B) + 1)
    BY <1>11, <2>2, <2>3, <2>4
  <2> QED BY <2>5, <2>6 DEF C
<1>15. Cardinality(M \cup (B \cup {b})) <= n
  BY <1>7, <1>14, FS_Subset
<1>16. h[b] + 1 + (m - 1) * w <= n
  BY <1>c, <1>11, <1>12, <1>14, <1>15, <1>4, <1>7
<1>17. h[b] \in Nat
  BY <1>7, <1>8
<1> HIDE DEF KeepOf
<1> QED BY <1>4, <1>7, <1>16, <1>17 DEF b
-----------------------------------------------------------------------------
(* A history that loses its oldest sector, or some of its values *)

LEMMA SameChain ==
    ASSUME NEW f, NEW g, NEW p \in Params, NEW c, NEW m, NEW d, NEW o,
           Held(f, p, Usable(f, p), c, m), Held(g, p, Usable(g, p), d, o),
           Usable(g, p) = Usable(f, p)
    PROVE  o = m
<1> DEFINE S == Usable(f, p)
<1>1. Chain(f, S, c, m) /\ Chain(g, S, d, o)
  BY DEF Held
<1>2. m \in Nat /\ o \in Nat
  BY AgesOf
<1>3. Numbers([s \in S |-> Age(f, s, c)], S, m) /\ Numbers([s \in S |-> Age(g, s, d)], S, o)
  <2> HIDE DEF S
  <2> QED BY <1>1, ChainNumbers
<1>4. Cardinality(S) = m /\ Cardinality(S) = o
  <2> HIDE DEF S
  <2> QED BY <1>2, <1>3, NumberedSet
<1> QED BY <1>4

(* In sector s values may have gone, elsewhere nothing has changed. *)
Loses(f, g, p, s) ==
    /\ SameBut(f, g, s)
    /\ Usable(g, p) \subseteq Usable(f, p) /\ Usable(f, p) \ {s} \subseteq Usable(g, p)
    /\ s \in Usable(g, p) =>
          /\ g[Addr(s, 0)] = f[Addr(s, 0)]
          /\ \A k \in 1..Slots : read_data(g, s, k) => g[Addr(s, k)] = f[Addr(s, k)]

LEMMA LossLoses ==
    ASSUME NEW f, NEW g, NEW p \in Params, NEW s \in Sectors, Loses(f, g, p, s),
           NEW t \in Usable(g, p)
    PROVE  /\ t \in Usable(f, p) /\ g[Addr(t, 0)] = f[Addr(t, 0)]
           /\ Num(g, t) <= Num(f, t)
           /\ \A k \in 1..Num(g, t) : g[Addr(t, k)] = f[Addr(t, k)]
           /\ \A c : Age(g, t, c) = Age(f, t, c)
<1>1. t \in Usable(f, p) /\ t \in Sectors
  BY UsableHas DEF Loses
<1>2. /\ g[Addr(t, 0)] = f[Addr(t, 0)]
      /\ \A k \in 1..Slots : read_data(g, t, k) => g[Addr(t, k)] = f[Addr(t, k)]
  <2>1. CASE t = s
    BY <2>1 DEF Loses
  <2>2. CASE t # s
    <3>1. 0 \in 0..Slots /\ \A k \in 1..Slots : k \in 0..Slots
      BY ParamSizes
    <3> QED BY <1>1, <2>2, <3>1 DEF Loses, SameBut
  <2> QED BY <2>1, <2>2
<1>3. /\ g[Addr(t, 0)].param = p /\ Num(g, t) \in 1..Slots
      /\ f[Addr(t, 0)].param = p /\ Num(f, t) \in 1..Slots
  BY <1>1, UsableHas
<1>4. (p \in Normal => Num(g, t) = 1) /\ \A b \in 1..Num(g, t) : read_data(g, t, b)
  <2>1. Num(g, t) <= Num(g, t)
    BY <1>3
  <2> QED BY <1>3, <2>1, NumCounts DEF Num
<1>5. \A b \in 1..Num(g, t) : b \in 1..Slots /\ g[Addr(t, b)] = f[Addr(t, b)]
  <2>1. \A b \in 1..Num(g, t) : b \in 1..Slots
    BY <1>3, ParamSizes
  <2> QED BY <1>2, <1>4, <2>1
<1>6. \A b \in 1..Num(g, t) : read_data(f, t, b)
  BY <1>4, <1>5 DEF read_data
<1>7. Num(g, t) <= Num(f, t)
  BY <1>3, <1>4, <1>6, NumCounts DEF Num
<1> QED BY <1>1, <1>2, <1>5, <1>7 DEF Age

LEMMA LossThins ==
    ASSUME NEW f \in Flash, NEW g \in Flash, NEW p \in Params, NEW c, NEW m, NEW o,
           Held(f, p, Usable(f, p), c, m), Held(g, p, Usable(g, p), c, o),
           FullFrom(f, p, c, m), NewestFull(f, p, c),
           NEW s \in Sectors, Loses(f, g, p, s),
           s \in Usable(f, p) => Age(f, s, c) = m - 1 /\ m = SecTabSize[p]
    PROVE  /\ StoredOf(g, p) \in Store!Thinned(StoredOf(f, p), KeepOf(p))
           /\ FullFrom(g, p, c, o)
<1> DEFINE L == LiveOf(f, p)
           K == LiveOf(g, p)
<1>1. PICK h, n : Lists(StoredOf(f, p), f, L, h, n) /\ InOrder(h, f, p, c)
  BY HistoryIs
<1>2. PICK i, j : Lists(StoredOf(g, p), g, K, i, j) /\ InOrder(i, g, p, c)
  BY HistoryIs
<1>3. \A a \in K : \E t \in Usable(g, p) : \E k \in 1..Num(g, t) : a = Addr(t, k)
  BY LiveIs
<1>4. ASSUME NEW t \in Usable(g, p), NEW k \in 1..Num(g, t)
      PROVE  /\ t \in Usable(f, p) /\ k \in 1..Num(f, t) /\ Addr(t, k) \in L
             /\ g[Addr(t, k)] = f[Addr(t, k)]
  <2>1. /\ t \in Usable(f, p) /\ Num(g, t) <= Num(f, t)
        /\ g[Addr(t, k)] = f[Addr(t, k)]
    BY LossLoses
  <2>2. Num(f, t) \in Int /\ Num(g, t) \in Int
    BY <2>1, UsableHas
  <2>3. k \in 1..Num(f, t)
    BY <2>1, <2>2
  <2> QED BY <2>1, <2>3, LiveHas
<1>5. K \subseteq L /\ \A a \in K : g[a] = f[a]
  BY <1>3, <1>4
<1>6. \A a, b \in K : i[a] < i[b] => h[a] < h[b]
  <2> SUFFICES ASSUME NEW a \in K, NEW b \in K, i[a] < i[b]
               PROVE  h[a] < h[b]
    OBVIOUS
  <2>1. PICK t \in Usable(g, p) : \E k \in 1..Num(g, t) : a = Addr(t, k)
    BY <1>3
  <2>2. PICK k \in 1..Num(g, t) : a = Addr(t, k)
    BY <2>1
  <2>3. PICK u \in Usable(g, p) : \E l \in 1..Num(g, u) : b = Addr(u, l)
    BY <1>3
  <2>4. PICK l \in 1..Num(g, u) : b = Addr(u, l)
    BY <2>3
  <2>5. Sooner(g, c, t, k, u, l)
    BY <1>2, <2>2, <2>4 DEF InOrder
  <2>6. Age(g, t, c) = Age(f, t, c) /\ Age(g, u, c) = Age(f, u, c)
    BY LossLoses
  <2>7. Sooner(f, c, t, k, u, l)
    BY <2>5, <2>6 DEF Sooner
  <2>8. t \in Usable(f, p) /\ k \in 1..Num(f, t) /\ u \in Usable(f, p) /\ l \in 1..Num(f, u)
    BY <1>4
  <2> QED BY <1>1, <2>2, <2>4, <2>7, <2>8 DEF InOrder
<1>7. \A a \in L \ K : h[a] < n - KeepOf(p)
  <2> SUFFICES ASSUME NEW a \in L, a \notin K
               PROVE  h[a] < n - KeepOf(p)
    OBVIOUS
  <2>1. PICK t \in Usable(f, p) : \E k \in 1..Num(f, t) : a = Addr(t, k)
    BY LiveIs
  <2>2. PICK k \in 1..Num(f, t) : a = Addr(t, k)
    BY <2>1
  <2>3. t = s
    <3> SUFFICES ASSUME t # s
                 PROVE  a \in K
      OBVIOUS
    <3>1. t \in Usable(g, p) /\ t \in Sectors
      BY UsableHas DEF Loses
    <3>2. \A b \in 0..Slots : g[Addr(t, b)] = f[Addr(t, b)]
      BY <3>1 DEF Loses, SameBut
    <3>3. /\ f[Addr(t, 0)].param = p /\ Num(f, t) \in 1..Slots
          /\ g[Addr(t, 0)].param = p /\ Num(g, t) \in 1..Slots
      BY <3>1, UsableHas
    <3>4. k \in 1..Slots /\ k <= Num(f, t) /\ \A b \in 1..k : b \in 0..Slots
      BY <3>3, ParamSizes
    <3>5. (p \in Normal => k = 1) /\ \A b \in 1..k : read_data(f, t, b)
      BY <3>3, <3>4, NumCounts DEF Num
    <3>6. \A b \in 1..k : read_data(g, t, b)
      BY <3>2, <3>4, <3>5 DEF read_data
    <3>7. k <= Num(g, t)
      BY <3>3, <3>4, <3>5, <3>6, NumCounts DEF Num
    <3>8. k \in 1..Num(g, t)
      BY <3>3, <3>4, <3>7
    <3> QED BY <2>2, <3>1, <3>8, LiveHas
  <2>4. s \in Usable(f, p) /\ Age(f, s, c) = m - 1 /\ m = SecTabSize[p]
    BY <2>3
  <2> QED BY <1>1, <2>2, <2>3, <2>4, OldestGoes
<1>8. KeepOf(p) \in Nat
  <2>1. SecTabSize[p] - 1 \in Nat /\ Slots \in Nat
    BY TabSizes, ParamSizes
  <2>2. (SecTabSize[p] - 1) * Slots \in Nat
    BY <2>1
  <2> QED BY <2>1, <2>2 DEF KeepOf
<1>9. StoredOf(g, p) \in Store!Thinned(StoredOf(f, p), KeepOf(p))
  <2> HIDE DEF L, K
  <2> QED BY <1>1, <1>2, <1>5, <1>6, <1>7, <1>8, LessIsThinned
<1>10. FullFrom(g, p, c, o)
  <2> SUFFICES ASSUME p \notin Normal, NEW t \in Usable(g, p), Age(g, t, c) # 0,
                      Age(g, t, c) = o - 1 => o < SecTabSize[p]
               PROVE  FullSector(g, t)
    BY DEF FullFrom
  <2>1. /\ t \in Usable(f, p) /\ t \in Sectors
        /\ Age(f, t, c) = Age(g, t, c)
    BY LossLoses, UsableHas
  <2>2. /\ m \in Nat /\ m <= SecTabSize[p] /\ SecTabSize[p] \in Nat
        /\ \A x, y \in Usable(f, p) : Age(f, x, c) = Age(f, y, c) => x = y
    BY AgesOf, TabSizes
  <2>3. CASE Usable(g, p) = Usable(f, p)
    <3>1. o = m
      BY <2>3, SameChain
    <3>2. t # s
      BY <2>1, <2>2, <3>1
    <3>3. FullSector(f, t)
      BY <2>1, <3>1 DEF FullFrom
    <3>4. \A k \in 1..Slots : g[Addr(t, k)] = f[Addr(t, k)]
      <4>1. \A k \in 1..Slots : k \in 0..Slots
        BY ParamSizes
      <4> QED BY <2>1, <3>2, <4>1 DEF Loses, SameBut
    <3> QED BY <3>3, <3>4 DEF FullSector, read_data
  <2>4. CASE Usable(g, p) # Usable(f, p)
    <3>1. s \in Usable(f, p) /\ s \notin Usable(g, p)
      BY <2>4 DEF Loses
    <3>2. t # s /\ Age(f, t, c) # m - 1
      BY <2>1, <2>2, <3>1
    <3>3. FullSector(f, t)
      BY <2>1, <3>2 DEF FullFrom
    <3>4. \A k \in 1..Slots : g[Addr(t, k)] = f[Addr(t, k)]
      <4>1. \A k \in 1..Slots : k \in 0..Slots
        BY ParamSizes
      <4> QED BY <2>1, <3>2, <4>1 DEF Loses, SameBut
    <3> QED BY <3>3, <3>4 DEF FullSector, read_data
  <2> QED BY <2>3, <2>4
<1> QED BY <1>9, <1>10
-----------------------------------------------------------------------------
(* A history nothing is done to *)

LEMMA HistoryStays ==
    ASSUME NEW f \in Flash, NEW g \in Flash, NEW p \in Params, FullInv(f, p),
           Usable(g, p) = Usable(f, p),
           \A s \in Usable(f, p) : \A k \in 0..Slots : g[Addr(s, k)] = f[Addr(s, k)]
    PROVE  /\ StoredOf(g, p) = StoredOf(f, p)
           /\ FullInv(g, p)
<1> DEFINE L == LiveOf(f, p)
<1>0. 0 \in 0..Slots /\ \A k \in 1..Slots : k \in 0..Slots
  BY ParamSizes
<1>1. ASSUME NEW s \in Usable(f, p)
      PROVE  Num(g, s) = Num(f, s) /\ \A k \in 1..Num(f, s) : k \in 0..Slots
  <2>1. /\ f[Addr(s, 0)].param = p /\ Num(f, s) \in 1..Slots
        /\ g[Addr(s, 0)].param = p /\ Num(g, s) \in 1..Slots
    BY <1>1, UsableHas
  <2>2. \A k \in 1..Slots : read_data(g, s, k) <=> read_data(f, s, k)
    BY <1>0, <1>1 DEF read_data
  <2>3. ASSUME NEW k \in 1..Slots
        PROVE  k <= Num(g, s) <=> k <= Num(f, s)
    <3>1. \A b \in 1..k : b \in 1..Slots
      BY ParamSizes
    <3>2. (\A b \in 1..k : read_data(g, s, b)) <=> (\A b \in 1..k : read_data(f, s, b))
      BY <2>2, <3>1
    <3>3. k <= Num(g, s) <=> (p \in Normal => k = 1) /\ \A b \in 1..k : read_data(g, s, b)
      BY <2>1, NumCounts DEF Num
    <3>4. k <= Num(f, s) <=> (p \in Normal => k = 1) /\ \A b \in 1..k : read_data(f, s, b)
      BY <2>1, NumCounts DEF Num
    <3> QED BY <3>2, <3>3, <3>4
  <2>4. Num(g, s) <= Num(g, s) /\ Num(f, s) <= Num(f, s)
    BY <2>1
  <2>5. Num(g, s) <= Num(f, s) /\ Num(f, s) <= Num(g, s)
    BY <2>1, <2>3, <2>4
  <2> QED BY <2>1, <2>5, ParamSizes
<1>2. \A a \in L : \E s \in Usable(f, p) : \E k \in 1..Num(f, s) : a = Addr(s, k)
  BY LiveIs
<1>3. LiveOf(g, p) = L
  <2>1. ASSUME NEW a \in L
        PROVE  a \in LiveOf(g, p)
    <3>1. PICK s \in Usable(f, p) : \E k \in 1..Num(f, s) : a = Addr(s, k)
      BY <1>2
    <3>2. PICK k \in 1..Num(f, s) : a = Addr(s, k)
      BY <3>1
    <3>3. s \in Usable(g, p) /\ k \in 1..Num(g, s)
      BY <1>1
    <3> QED BY <3>2, <3>3, LiveHas
  <2>2. ASSUME NEW a \in LiveOf(g, p)
        PROVE  a \in L
    <3>1. PICK s \in Usable(g, p) : \E k \in 1..Num(g, s) : a = Addr(s, k)
      BY LiveIs
    <3>2. PICK k \in 1..Num(g, s) : a = Addr(s, k)
      BY <3>1
    <3>3. s \in Usable(f, p) /\ k \in 1..Num(f, s)
      BY <1>1
    <3> QED BY <3>2, <3>3, LiveHas
  <2> QED BY <2>1, <2>2
<1>4. ASSUME NEW a \in L
      PROVE  /\ g[a] = f[a] /\ SectorOf(a) \in Usable(f, p)
             /\ g[Addr(SectorOf(a), 0)] = f[Addr(SectorOf(a), 0)]
  <2>1. PICK s \in Usable(f, p) : \E k \in 1..Num(f, s) : a = Addr(s, k)
    BY <1>2
  <2>2. PICK k \in 1..Num(f, s) : a = Addr(s, k)
    BY <2>1
  <2>3. k \in 0..Slots /\ SectorOf(a) = s
    BY <1>1, <2>2, LiveHas
  <2> QED BY <1>0, <2>2, <2>3
<1>5. PICK c, m : Held(f, p, Usable(f, p), c, m) /\ FullFrom(f, p, c, m)
  BY DEF FullInv
<1>6. \A s \in Usable(f, p) : Age(g, s, c) = Age(f, s, c)
  BY <1>0 DEF Age
<1>7. \A s \in Usable(f, p) : \A k \in 1..Slots : g[Addr(s, k)] = f[Addr(s, k)]
  BY <1>0
<1>8. Held(g, p, Usable(g, p), c, m)
  <2>1. Chain(g, Usable(g, p), c, m)
    BY <1>5, <1>6 DEF Held, Chain
  <2>2. \A s \in Usable(f, p) : Clean(f, p, s) => Clean(g, p, s)
    BY <1>7 DEF Clean, Filling, read_data
  <2> QED BY <1>5, <1>6, <2>1, <2>2 DEF Held
<1>9. FullInv(g, p)
  <2>1. \A s \in Usable(f, p) : FullSector(f, s) => FullSector(g, s)
    BY <1>7 DEF FullSector, read_data
  <2>2. FullFrom(g, p, c, m)
    BY <1>5, <1>6, <2>1 DEF FullFrom
  <2> QED BY <1>8, <2>2 DEF FullInv
<1>10. PICK h, n : Lists(StoredOf(f, p), f, L, h, n) /\ InOrder(h, f, p, c)
  BY <1>5, HistoryIs
<1>11. PICK i, j : Lists(StoredOf(g, p), g, L, i, j) /\ InOrder(i, g, p, c)
  BY <1>3, <1>8, HistoryIs
<1>12. \A a, b \in L : h[a] < h[b] <=> i[a] < i[b]
  <2> SUFFICES ASSUME NEW a \in L, NEW b \in L
               PROVE  h[a] < h[b] <=> i[a] < i[b]
    OBVIOUS
  <2>1. PICK s \in Usable(f, p) : \E k \in 1..Num(f, s) : a = Addr(s, k)
    BY <1>2
  <2>2. PICK k \in 1..Num(f, s) : a = Addr(s, k)
    BY <2>1
  <2>3. PICK t \in Usable(f, p) : \E l \in 1..Num(f, t) : b = Addr(t, l)
    BY <1>2
  <2>4. PICK l \in 1..Num(f, t) : b = Addr(t, l)
    BY <2>3
  <2>5. h[a] < h[b] <=> Sooner(f, c, s, k, t, l)
    BY <1>10, <2>2, <2>4 DEF InOrder
  <2>6. /\ s \in Usable(g, p) /\ k \in 1..Num(g, s)
        /\ t \in Usable(g, p) /\ l \in 1..Num(g, t)
    BY <1>1
  <2>7. i[a] < i[b] <=> Sooner(g, c, s, k, t, l)
    BY <1>11, <2>2, <2>4, <2>6 DEF InOrder
  <2> QED BY <1>6, <2>5, <2>7 DEF Sooner
<1> HIDE DEF L
<1>13. /\ n \in Nat /\ Numbers(h, L, n) /\ j \in Nat /\ Numbers(i, L, j)
       /\ StoredOf(f, p) \in [1..n -> Values] /\ StoredOf(g, p) \in [1..j -> Values]
       /\ \A a \in L : StoredOf(f, p)[h[a] + 1] = f[a] /\ StoredOf(g, p)[i[a] + 1] = g[a]
  BY <1>10, <1>11 DEF Lists
<1>14. n = j /\ \A a \in L : h[a] = i[a]
  <2>1. n \in Nat /\ Numbers(h, L, n) /\ j \in Nat /\ Numbers(i, L, j)
    BY <1>13
  <2>2. \A a, b \in L : h[a] < h[b] <=> i[a] < i[b]
    BY <1>12
  <2> QED BY <2>1, <2>2, SameOrder
<1>16. \A k \in 1..n : StoredOf(g, p)[k] = StoredOf(f, p)[k]
  <2> SUFFICES ASSUME NEW k \in 1..n
               PROVE  StoredOf(g, p)[k] = StoredOf(f, p)[k]
    OBVIOUS
  <2>1. k - 1 \in 0..(n - 1) /\ (k - 1) + 1 = k
    BY <1>13
  <2>2. PICK a \in L : h[a] = k - 1
    BY <1>13, <2>1 DEF Numbers
  <2>3. h[a] + 1 = k /\ i[a] + 1 = k
    BY <1>14, <2>1, <2>2
  <2> QED BY <1>4, <1>13, <2>3
<1>17. StoredOf(g, p) = StoredOf(f, p)
  BY <1>13, <1>14, <1>16
<1> QED BY <1>9, <1>17
-----------------------------------------------------------------------------
(* A history with one more value *)

LEMMA KeepIsNat ==
    ASSUME NEW p \in Params
    PROVE  KeepOf(p) \in Nat
<1>1. SecTabSize[p] - 1 \in Nat /\ Slots \in Nat
  BY TabSizes, ParamSizes
<1>2. (SecTabSize[p] - 1) * Slots \in Nat
  BY <1>1
<1> QED BY <1>1, <1>2 DEF KeepOf

(* Cells that f and g agree on are counted alike. *)
LEMMA SameNum ==
    ASSUME NEW f, NEW g, NEW p \in Params, NEW t,
           t \in Usable(f, p), t \in Usable(g, p),
           \A k \in 1..Slots : g[Addr(t, k)] = f[Addr(t, k)]
    PROVE  Num(g, t) = Num(f, t)
<1>1. /\ f[Addr(t, 0)].param = p /\ Num(f, t) \in 1..Slots
      /\ g[Addr(t, 0)].param = p /\ Num(g, t) \in 1..Slots
  BY UsableHas
<1>2. ASSUME NEW k \in 1..Slots
      PROVE  k <= Num(g, t) <=> k <= Num(f, t)
  <2>1. \A b \in 1..k : b \in 1..Slots
    BY ParamSizes
  <2>2. (\A b \in 1..k : read_data(g, t, b)) <=> (\A b \in 1..k : read_data(f, t, b))
    BY <2>1 DEF read_data
  <2>3. k <= Num(g, t) <=> (p \in Normal => k = 1) /\ \A b \in 1..k : read_data(g, t, b)
    BY <1>1, NumCounts DEF Num
  <2>4. k <= Num(f, t) <=> (p \in Normal => k = 1) /\ \A b \in 1..k : read_data(f, t, b)
    BY <1>1, NumCounts DEF Num
  <2> QED BY <2>2, <2>3, <2>4
<1>3. Num(g, t) <= Num(f, t) /\ Num(f, t) <= Num(g, t)
  <2>1. Num(g, t) <= Num(g, t) /\ Num(f, t) <= Num(f, t)
    BY <1>1
  <2> QED BY <1>1, <1>2, <2>1
<1> QED BY <1>1, <1>3

(* The first value of a sector, in front of all others. *)
NewSector(f, g, p, s, c, d) ==
    /\ SameBut(f, g, s) /\ Usable(g, p) = Usable(f, p) \cup {s}
    /\ Age(g, s, d) = 0 /\ Num(g, s) = 1
    /\ \A t \in Usable(f, p) \ {s} : Age(g, t, d) = Age(f, t, c) + 1

LEMMA NewSectorAdds ==
    ASSUME NEW f \in Flash, NEW g \in Flash, NEW p \in Params, NEW v \in Values,
           NEW c, NEW m, Held(f, p, Usable(f, p), c, m),
           NEW d, NEW o, Held(g, p, Usable(g, p), d, o),
           FullFrom(f, p, c, m), NewestFull(f, p, c),
           NEW s \in Sectors, NewSector(f, g, p, s, c, d), g[Addr(s, 1)] = v,
           s \in Usable(f, p) => Age(f, s, c) = m - 1 /\ m = SecTabSize[p],
           \A t \in Usable(f, p) \ {s} : Age(f, t, c) = m - 1 => m < SecTabSize[p]
    PROVE  /\ StoredOf(g, p) \in Store!Thinned(Append(StoredOf(f, p), v), KeepOf(p))
           /\ FullFrom(g, p, d, o)
<1> DEFINE L == LiveOf(f, p)
           K == LiveOf(g, p)
           R == Usable(f, p) \ {s}
           new == Addr(s, 1)
<1>1. PICK h, n : Lists(StoredOf(f, p), f, L, h, n) /\ InOrder(h, f, p, c)
  BY HistoryIs
<1>2. PICK i, j : Lists(StoredOf(g, p), g, K, i, j) /\ InOrder(i, g, p, d)
  BY HistoryIs
<1>3. /\ Usable(g, p) = R \cup {s} /\ s \in Usable(g, p) /\ Num(g, s) = 1
      /\ Age(g, s, d) = 0 /\ \A t \in R : Age(g, t, d) = Age(f, t, c) + 1
  BY DEF NewSector
<1>4. ASSUME NEW t \in R
      PROVE  /\ t \in Usable(f, p) /\ t \in Usable(g, p) /\ t \in Sectors /\ t # s
             /\ \A k \in 0..Slots : g[Addr(t, k)] = f[Addr(t, k)]
             /\ Num(g, t) = Num(f, t) /\ Num(f, t) \in 1..Slots
             /\ Age(f, t, c) \in Nat
             /\ \A k \in 1..Num(f, t) : k \in 0..Slots
  <2>1. /\ t \in Usable(f, p) /\ t \in Usable(g, p) /\ t \in Sectors /\ t # s
        /\ Num(f, t) \in 1..Slots
    BY <1>3, UsableHas
  <2>2. \A k \in 0..Slots : g[Addr(t, k)] = f[Addr(t, k)]
    BY <2>1 DEF NewSector, SameBut
  <2>3. \A k \in 1..Slots : g[Addr(t, k)] = f[Addr(t, k)]
    <3>1. \A k \in 1..Slots : k \in 0..Slots
      BY ParamSizes
    <3> QED BY <2>2, <3>1
  <2>4. Num(g, t) = Num(f, t)
    BY <2>1, <2>3, SameNum
  <2> QED BY <2>1, <2>2, <2>4, AgesOf, ParamSizes
<1>5. /\ new \in K /\ SectorOf(new) = s
  <2>1. 1 \in 1..Num(g, s)
    BY <1>3
  <2> QED BY <1>3, <2>1, LiveHas
<1>6. \A a \in K \ {new} : \E t \in R : \E k \in 1..Num(f, t) : a = Addr(t, k)
  <2> SUFFICES ASSUME NEW a \in K, a # new
               PROVE  \E t \in R : \E k \in 1..Num(f, t) : a = Addr(t, k)
    OBVIOUS
  <2>1. PICK t \in Usable(g, p) : \E k \in 1..Num(g, t) : a = Addr(t, k)
    BY LiveIs
  <2>2. PICK k \in 1..Num(g, t) : a = Addr(t, k)
    BY <2>1
  <2>3. t # s
    <3> SUFFICES ASSUME t = s
                 PROVE  FALSE
      OBVIOUS
    <3>1. k = 1
      BY <1>3
    <3> QED BY <2>2, <3>1
  <2>4. t \in R
    BY <1>3, <2>3
  <2> QED BY <1>4, <2>2, <2>4
<1>7. ASSUME NEW t \in R, NEW k \in 1..Num(f, t)
      PROVE  /\ Addr(t, k) \in L /\ Addr(t, k) \in K \ {new}
             /\ g[Addr(t, k)] = f[Addr(t, k)] /\ k \in 1..Num(g, t)
  <2>1. Addr(t, k) \in L
    BY <1>4, LiveHas
  <2>2. Addr(t, k) \in K /\ SectorOf(Addr(t, k)) = t
    BY <1>4, LiveHas
  <2> QED BY <1>4, <1>5, <2>1, <2>2
<1>8. /\ K \ {new} \subseteq L
      /\ \A a \in K \ {new} : g[a] = f[a] /\ ~(i[new] < i[a])
  <2> SUFFICES ASSUME NEW a \in K \ {new}
               PROVE  a \in L /\ g[a] = f[a] /\ ~(i[new] < i[a])
    OBVIOUS
  <2>1. PICK t \in R : \E k \in 1..Num(f, t) : a = Addr(t, k)
    BY <1>6
  <2>2. PICK k \in 1..Num(f, t) : a = Addr(t, k)
    BY <2>1
  <2>3. 1 \in 1..Num(g, s) /\ k \in 1..Num(g, t)
    BY <1>3, <1>7
  <2>4. i[new] < i[a] <=> Sooner(g, d, s, 1, t, k)
    BY <1>2, <1>3, <1>4, <2>2, <2>3 DEF InOrder
  <2>5. ~Sooner(g, d, s, 1, t, k)
    BY <1>3, <1>4 DEF Sooner
  <2> QED BY <1>7, <2>2, <2>4, <2>5
<1>9. \A a, b \in K \ {new} : i[a] < i[b] => h[a] < h[b]
  <2> SUFFICES ASSUME NEW a \in K \ {new}, NEW b \in K \ {new}, i[a] < i[b]
               PROVE  h[a] < h[b]
    OBVIOUS
  <2>1. PICK t \in R : \E k \in 1..Num(f, t) : a = Addr(t, k)
    BY <1>6
  <2>2. PICK k \in 1..Num(f, t) : a = Addr(t, k)
    BY <2>1
  <2>3. PICK u \in R : \E l \in 1..Num(f, u) : b = Addr(u, l)
    BY <1>6
  <2>4. PICK l \in 1..Num(f, u) : b = Addr(u, l)
    BY <2>3
  <2>5. k \in 1..Num(g, t) /\ l \in 1..Num(g, u)
    BY <1>7
  <2>6. Sooner(g, d, t, k, u, l)
    BY <1>2, <1>4, <2>2, <2>4, <2>5 DEF InOrder
  <2>7. Age(g, t, d) = Age(f, t, c) + 1 /\ Age(g, u, d) = Age(f, u, c) + 1
    BY <1>3
  <2>8. Sooner(f, c, t, k, u, l)
    BY <1>4, <2>6, <2>7 DEF Sooner
  <2> QED BY <1>1, <1>4, <2>2, <2>4, <2>8 DEF InOrder
<1>10. \A a \in L \ (K \ {new}) : h[a] < n - KeepOf(p)
  <2> SUFFICES ASSUME NEW a \in L, a \notin K \ {new}
               PROVE  h[a] < n - KeepOf(p)
    OBVIOUS
  <2>1. PICK t \in Usable(f, p) : \E k \in 1..Num(f, t) : a = Addr(t, k)
    BY LiveIs
  <2>2. PICK k \in 1..Num(f, t) : a = Addr(t, k)
    BY <2>1
  <2>3. t = s
    BY <1>7, <2>2
  <2>4. s \in Usable(f, p) /\ Age(f, s, c) = m - 1 /\ m = SecTabSize[p]
    BY <2>3
  <2> QED BY <1>1, <2>2, <2>3, <2>4, OldestGoes
<1>11. StoredOf(g, p) \in Store!Thinned(Append(StoredOf(f, p), v), KeepOf(p))
  <2>1. g[new] = v /\ KeepOf(p) \in Nat
    BY KeepIsNat
  <2> HIDE DEF L, K, new
  <2> QED BY <1>1, <1>2, <1>5, <1>8, <1>9, <1>10, <2>1, MoreIsThinned, SMTT(40)
<1>12. FullFrom(g, p, d, o)
  <2> SUFFICES ASSUME p \notin Normal, NEW t \in Usable(g, p), Age(g, t, d) # 0
               PROVE  FullSector(g, t)
    BY DEF FullFrom
  <2>1. t \in R
    BY <1>3
  <2>2. Age(f, t, c) = m - 1 => m < SecTabSize[p]
    BY <2>1
  <2>3. FullSector(f, t)
    BY <1>4, <2>1, <2>2 DEF FullFrom, NewestFull
  <2>4. \A k \in 1..Slots : g[Addr(t, k)] = f[Addr(t, k)]
    <3>1. \A k \in 1..Slots : k \in 0..Slots
      BY ParamSizes
    <3> QED BY <1>4, <2>1, <3>1
  <2> QED BY <2>3, <2>4 DEF FullSector, read_data
<1> QED BY <1>11, <1>12
-----------------------------------------------------------------------------
(* Ages do not depend on the save index they are counted from. *)

LEMMA AgesAgree ==
    ASSUME NEW f, NEW p \in Params,
           NEW c, NEW m, Held(f, p, Usable(f, p), c, m),
           NEW d, NEW o, Held(f, p, Usable(f, p), d, o)
    PROVE  o = m /\ \A s \in Usable(f, p) : Age(f, s, d) = Age(f, s, c)
<1> DEFINE S == Usable(f, p)
           h == [s \in S |-> Age(f, s, c)]
           i == [s \in S |-> Age(f, s, d)]
<1>1. o = m
  BY SameChain
<1>2. m \in Nat /\ Numbers(h, S, m) /\ Numbers(i, S, m)
  <2>1. Chain(f, S, c, m) /\ Chain(f, S, d, m) /\ m \in Nat
    BY <1>1, AgesOf DEF Held
  <2> HIDE DEF S
  <2> QED BY <2>1, ChainNumbers
<1>3. ASSUME NEW s \in S, NEW t \in S
      PROVE  Age(f, s, c) < Age(f, t, c) <=> Age(f, s, d) < Age(f, t, d)
  <2>1. /\ c \in Int /\ d \in Int /\ m < IndexMod \div 2
        /\ f[Addr(s, 0)].index \in 0..(IndexMod - 1)
        /\ f[Addr(t, 0)].index \in 0..(IndexMod - 1)
        /\ Age(f, s, c) \in 0..(m - 1) /\ Age(f, t, c) \in 0..(m - 1)
        /\ Age(f, s, d) \in 0..(m - 1) /\ Age(f, t, d) \in 0..(m - 1)
        /\ Age(f, t, c) = Age(f, s, c) => t = s
        /\ Age(f, t, d) = Age(f, s, d) => t = s
    BY <1>1, AgesOf
  <2>2. Older(f, t, s) <=> Age(f, s, c) < Age(f, t, c)
    BY <1>2, <2>1, OlderIs
  <2>3. Older(f, t, s) <=> Age(f, s, d) < Age(f, t, d)
    BY <1>2, <2>1, OlderIs
  <2> QED BY <2>2, <2>3
<1>4. ASSUME NEW s \in S
      PROVE  Age(f, s, d) = Age(f, s, c)
  <2>1. \A x, y \in S : h[x] < h[y] <=> i[x] < i[y]
    BY <1>3
  <2>2. h[s] = i[s]
    <3> HIDE DEF h, i, S
    <3> QED BY <1>2, <2>1, SameOrder
  <2> QED BY <2>2
<1> QED BY <1>1, <1>4

LEMMA FullFor ==
    ASSUME NEW f, NEW p \in Params, FullInv(f, p),
           NEW c, NEW m, Held(f, p, Usable(f, p), c, m)
    PROVE  FullFrom(f, p, c, m)
<1>1. PICK d, o : Held(f, p, Usable(f, p), d, o) /\ FullFrom(f, p, d, o)
  BY DEF FullInv
<1>2. o = m /\ \A s \in Usable(f, p) : Age(f, s, d) = Age(f, s, c)
  BY <1>1, AgesAgree
<1> QED BY <1>1, <1>2 DEF FullFrom

(* One more value in the newest sector. *)
OneMore(f, g, p, s, c, d) ==
    /\ SameBut(f, g, s) /\ Usable(g, p) = Usable(f, p)
    /\ s \in Usable(f, p) /\ Age(f, s, c) = 0
    /\ Num(g, s) = Num(f, s) + 1
    /\ \A k \in 1..Num(f, s) : g[Addr(s, k)] = f[Addr(s, k)]
    /\ \A t \in Usable(f, p) : Age(g, t, d) = Age(f, t, c)

LEMMA OneMoreAdds ==
    ASSUME NEW f \in Flash, NEW g \in Flash, NEW p \in Params, NEW v \in Values,
           NEW c, NEW m, Held(f, p, Usable(f, p), c, m),
           NEW d, NEW o, Held(g, p, Usable(g, p), d, o),
           FullFrom(f, p, c, m), NEW s, OneMore(f, g, p, s, c, d),
           g[Addr(s, Num(g, s))] = v
    PROVE  /\ StoredOf(g, p) \in Store!Thinned(Append(StoredOf(f, p), v), KeepOf(p))
           /\ FullFrom(g, p, d, o)
<1> DEFINE L == LiveOf(f, p)
           K == LiveOf(g, p)
           q == Num(g, s)
           new == Addr(s, q)
<1>0. /\ SameBut(f, g, s) /\ Usable(g, p) = Usable(f, p)
      /\ s \in Usable(f, p) /\ Age(f, s, c) = 0 /\ q = Num(f, s) + 1
      /\ \A k \in 1..Num(f, s) : g[Addr(s, k)] = f[Addr(s, k)]
      /\ \A t \in Usable(f, p) : Age(g, t, d) = Age(f, t, c)
  BY DEF OneMore
<1>1. PICK h, n : Lists(StoredOf(f, p), f, L, h, n) /\ InOrder(h, f, p, c)
  BY HistoryIs
<1>2. PICK i, j : Lists(StoredOf(g, p), g, K, i, j) /\ InOrder(i, g, p, d)
  BY HistoryIs
<1>3. ASSUME NEW t \in Usable(f, p)
      PROVE  /\ t \in Usable(g, p) /\ t \in Sectors
             /\ Num(f, t) \in 1..Slots /\ Num(g, t) \in 1..Slots
             /\ Num(g, t) = IF t = s THEN Num(f, t) + 1 ELSE Num(f, t)
             /\ \A k \in 1..Num(f, t) : /\ g[Addr(t, k)] = f[Addr(t, k)]
                                        /\ k \in 1..Num(g, t)
             /\ Age(f, t, c) \in Nat
  <2>1. t \in Usable(g, p) /\ t \in Sectors /\ Num(f, t) \in 1..Slots
        /\ Num(g, t) \in 1..Slots
    BY <1>0, UsableHas
  <2>2. t # s => \A k \in 1..Slots : g[Addr(t, k)] = f[Addr(t, k)]
    <3>1. \A k \in 1..Slots : k \in 0..Slots
      BY ParamSizes
    <3> QED BY <1>0, <2>1, <3>1 DEF SameBut
  <2>3. t # s => Num(g, t) = Num(f, t)
    BY <2>1, <2>2, SameNum
  <2>4. Num(g, t) = IF t = s THEN Num(f, t) + 1 ELSE Num(f, t)
    BY <1>0, <2>3
  <2>5. ASSUME NEW k \in 1..Num(f, t)
        PROVE  g[Addr(t, k)] = f[Addr(t, k)] /\ k \in 1..Num(g, t)
    <3>1. k \in 1..Slots /\ k \in 1..Num(g, t)
      BY <2>1, <2>4, ParamSizes
    <3> QED BY <1>0, <2>2, <3>1
  <2> QED BY <2>1, <2>4, <2>5, AgesOf
<1>4. q \in 1..Num(g, s) /\ q \in 1..Slots /\ s \in Usable(g, p)
  BY <1>0, <1>3
<1>5. new \in K /\ SectorOf(new) = s
  BY <1>4, LiveHas
<1>6. ASSUME NEW t \in Usable(f, p), NEW k \in 1..Num(f, t)
      PROVE  /\ Addr(t, k) \in L /\ Addr(t, k) \in K \ {new}
             /\ g[Addr(t, k)] = f[Addr(t, k)] /\ k \in 1..Num(g, t)
  <2>1. Addr(t, k) \in L /\ Addr(t, k) \in K
    BY <1>3, LiveHas
  <2>2. Addr(t, k) # new
    <3> SUFFICES ASSUME Addr(t, k) = new
                 PROVE  FALSE
      OBVIOUS
    <3>1. k \in 0..Slots /\ q \in 0..Slots /\ t \in Sectors /\ s \in Sectors
      BY <1>0, <1>3, <1>4, ParamSizes
    <3>2. t = s /\ k = q
      <4> HIDE DEF q
      <4> QED BY <3>1, AddrDistinct DEF new
    <3> QED BY <1>0, <1>3, <3>2
  <2> QED BY <1>3, <2>1, <2>2
<1>7. \A a \in K \ {new} : \E t \in Usable(f, p) : \E k \in 1..Num(f, t) : a = Addr(t, k)
  <2> SUFFICES ASSUME NEW a \in K, a # new
               PROVE  \E t \in Usable(f, p) : \E k \in 1..Num(f, t) : a = Addr(t, k)
    OBVIOUS
  <2>1. PICK t \in Usable(g, p) : \E k \in 1..Num(g, t) : a = Addr(t, k)
    BY LiveIs
  <2>2. PICK k \in 1..Num(g, t) : a = Addr(t, k)
    BY <2>1
  <2>3. t \in Usable(f, p) /\ (t = s => k # q)
    BY <1>0, <2>2
  <2>4. k \in 1..Num(f, t)
    <3>1. Num(f, t) \in Nat /\ Num(g, t) = IF t = s THEN Num(f, t) + 1 ELSE Num(f, t)
      BY <1>3, <2>3
    <3> QED BY <2>3, <3>1
  <2> QED BY <2>2, <2>3, <2>4
<1>8. /\ K \ {new} \subseteq L
      /\ \A a \in K \ {new} : g[a] = f[a] /\ ~(i[new] < i[a])
  <2> SUFFICES ASSUME NEW a \in K \ {new}
               PROVE  a \in L /\ g[a] = f[a] /\ ~(i[new] < i[a])
    OBVIOUS
  <2>1. PICK t \in Usable(f, p) : \E k \in 1..Num(f, t) : a = Addr(t, k)
    BY <1>7
  <2>2. PICK k \in 1..Num(f, t) : a = Addr(t, k)
    BY <2>1
  <2>3. k \in 1..Num(g, t) /\ t \in Usable(g, p)
    BY <1>3
  <2>4. i[new] < i[a] <=> Sooner(g, d, s, q, t, k)
    BY <1>2, <1>4, <2>2, <2>3 DEF InOrder
  <2>5. ~Sooner(g, d, s, q, t, k)
    <3>1. Age(g, s, d) = 0 /\ Age(g, t, d) \in Nat
      BY <1>0, <1>3
    <3>2. s = t => ~(q < k)
      <4>1. s = t => k <= q
        BY <2>3
      <4>2. q \in Nat /\ k \in Nat
        BY <1>4, <2>3, ParamSizes
      <4> HIDE DEF q
      <4> QED BY <4>1, <4>2
    <3> QED BY <3>1, <3>2 DEF Sooner
  <2> QED BY <1>6, <2>2, <2>4, <2>5
<1>9. \A a, b \in K \ {new} : i[a] < i[b] => h[a] < h[b]
  <2> SUFFICES ASSUME NEW a \in K \ {new}, NEW b \in K \ {new}, i[a] < i[b]
               PROVE  h[a] < h[b]
    OBVIOUS
  <2>1. PICK t \in Usable(f, p) : \E k \in 1..Num(f, t) : a = Addr(t, k)
    BY <1>7
  <2>2. PICK k \in 1..Num(f, t) : a = Addr(t, k)
    BY <2>1
  <2>3. PICK u \in Usable(f, p) : \E l \in 1..Num(f, u) : b = Addr(u, l)
    BY <1>7
  <2>4. PICK l \in 1..Num(f, u) : b = Addr(u, l)
    BY <2>3
  <2>5. /\ k \in 1..Num(g, t) /\ l \in 1..Num(g, u)
        /\ t \in Usable(g, p) /\ u \in Usable(g, p)
    BY <1>3
  <2>6. Sooner(g, d, t, k, u, l)
    BY <1>2, <2>2, <2>4, <2>5 DEF InOrder
  <2>7. Age(g, t, d) = Age(f, t, c) /\ Age(g, u, d) = Age(f, u, c)
    BY <1>0
  <2>8. Sooner(f, c, t, k, u, l)
    BY <2>6, <2>7 DEF Sooner
  <2> QED BY <1>1, <2>2, <2>4, <2>8 DEF InOrder
<1>10. L \subseteq K \ {new}
  <2> SUFFICES ASSUME NEW a \in L
               PROVE  a \in K \ {new}
    OBVIOUS
  <2>1. PICK t \in Usable(f, p) : \E k \in 1..Num(f, t) : a = Addr(t, k)
    BY LiveIs
  <2>2. PICK k \in 1..Num(f, t) : a = Addr(t, k)
    BY <2>1
  <2> QED BY <1>6, <2>2
<1>11. StoredOf(g, p) \in Store!Thinned(Append(StoredOf(f, p), v), KeepOf(p))
  <2>1. g[new] = v /\ KeepOf(p) \in Nat
    BY KeepIsNat
  <2>2. \A a \in L \ (K \ {new}) : h[a] < n - KeepOf(p)
    BY <1>10
  <2> HIDE DEF L, K, new
  <2> QED BY <1>1, <1>2, <1>5, <1>8, <1>9, <2>1, <2>2, MoreIsThinned, SMTT(40)
<1>12. FullFrom(g, p, d, o)
  <2>1. o = m
    BY <1>0, SameChain
  <2> SUFFICES ASSUME p \notin Normal, NEW t \in Usable(f, p), Age(f, t, c) # 0,
                      Age(f, t, c) = m - 1 => m < SecTabSize[p]
               PROVE  FullSector(g, t)
    BY <1>0, <2>1 DEF FullFrom
  <2>2. t # s /\ t \in Sectors
    BY <1>0, <1>3
  <2>3. FullSector(f, t)
    BY DEF FullFrom
  <2>4. \A k \in 1..Slots : g[Addr(t, k)] = f[Addr(t, k)]
    <3>1. \A k \in 1..Slots : k \in 0..Slots
      BY ParamSizes
    <3> QED BY <1>0, <2>2, <3>1 DEF SameBut
  <2> QED BY <2>3, <2>4 DEF FullSector, read_data
<1> QED BY <1>11, <1>12
-----------------------------------------------------------------------------
(* The tables and the history *)

(* Going back through the table is going back in the history. *)
Tabled(f, p, t, v, c, n) ==
    /\ Held(f, p, Usable(f, p), c, n) /\ Usable(f, p) = Own(f, p)
    /\ \A k \in 1..SecTabSize[p] :
         IF Back(p, v, k) < n
         THEN /\ t[k].sector \in Usable(f, p)
              /\ Age(f, t[k].sector, c) = Back(p, v, k)
              /\ t[k].num \in 1..Slots /\ t[k].index = (c - Back(p, v, k)) % IndexMod
         ELSE t[k].sector \notin Usable(f, p) /\ t[k].num = 0
    /\ \A s \in Usable(f, p) :
         \E k \in 1..SecTabSize[p] : Back(p, v, k) < n /\ t[k].sector = s
    /\ n > 0 => AppendsFit(f, p, t[v])

LEMMA TableIs ==
    ASSUME NEW f, NEW p \in Params, NEW t \in [1..SecTabSize[p] -> Entries],
           NEW v \in 1..SecTabSize[p],
           \A i, j \in 1..SecTabSize[p] : t[i].sector = t[j].sector => i = j,
           TabInv(f, p, t, v)
    PROVE  \E c, n : Tabled(f, p, t, v, c, n)
<1>1. PICK c \in 0..(IndexMod - 1), n \in 0..SecTabSize[p] : TabIs(f, p, t, v, c, n)
  BY DEF TabInv
<1>2. /\ Whole(f, p, c, n)
      /\ \A k \in 1..SecTabSize[p] :
           IF Back(p, v, k) < n
           THEN t[k].sector \in Own(f, p) /\ Age(f, t[k].sector, c) = Back(p, v, k)
           ELSE t[k].sector \notin Own(f, p)
  BY <1>1, TabGivesChain
<1>3. Usable(f, p) = Own(f, p)
  <2>1. Usable(f, p) = {s \in Own(f, p) : HasValue(f, s)}
    BY UsableIs
  <2>2. \A s \in Own(f, p) : HasValue(f, s)
    BY <1>2 DEF Whole
  <2> QED BY <2>1, <2>2
<1>4. Held(f, p, Usable(f, p), c, n)
  BY <1>2, <1>3 DEF Held, Whole
<1>5. \A k \in 1..SecTabSize[p] :
         IF Back(p, v, k) < n
         THEN t[k].num \in 1..Slots /\ t[k].index = (c - Back(p, v, k)) % IndexMod
         ELSE t[k].num = 0
  BY <1>1 DEF TabIs, EntryInv
<1>6. /\ \A s \in Own(f, p) :
           \E k \in 1..SecTabSize[p] : Back(p, v, k) < n /\ t[k].sector = s
      /\ n > 0 => AppendsFit(f, p, t[v])
  BY <1>1 DEF TabIs
<1> QED BY <1>2, <1>3, <1>4, <1>5, <1>6 DEF Tabled

(* Before a save ... *)
LEMMA TabledBefore ==
    ASSUME OnInv, NEW p \in Params
    PROVE  \E c, n : Tabled(part, p, tab[p], save[p], c, n)
<1>1. /\ tab[p] \in [1..SecTabSize[p] -> Entries] /\ save[p] \in 1..SecTabSize[p]
      /\ TabInv(part, p, tab[p], save[p])
  BY CurrentIs DEF OnInv
<1>2. \A i, j \in 1..SecTabSize[p] : tab[p][i].sector = tab[p][j].sector => i = j
  BY DEF OnInv, SectorsApart
<1> QED BY <1>1, <1>2, TableIs

(* ... and after. *)
LEMMA TabledAfter ==
    ASSUME OnInv, NEW p \in Params, NEW val \in Values, NEW g, g = Written(p, val)
    PROVE  \E d, o : Tabled(g, p, NewTab(p), SaveAt(p), d, o)
<1>1. /\ NewTab(p) \in [1..SecTabSize[p] -> Entries] /\ SaveAt(p) \in 1..SecTabSize[p]
      /\ \A k \in 1..SecTabSize[p] : NewTab(p)[k].sector = tab[p][k].sector
  BY NewTabIs, TargetIs
<1>2. \A i, j \in 1..SecTabSize[p] : tab[p][i].sector = tab[p][j].sector => i = j
  BY DEF OnInv, SectorsApart
<1>3. \A i, j \in 1..SecTabSize[p] : NewTab(p)[i].sector = NewTab(p)[j].sector => i = j
  BY <1>1, <1>2
<1>4. TabInv(g, p, NewTab(p), SaveAt(p))
  BY OneOfThree, MoveKeepsTab, StartKeepsTab, AppendKeepsTab
<1> QED BY <1>1, <1>3, <1>4, TableIs

(* A save that begins a sector finds the newest one full, and takes the     *)
(* oldest one of a full table or one without a value.                       *)
Replaces(f, p, s, c, m) ==
    /\ s \in Usable(f, p) => Age(f, s, c) = m - 1 /\ m = SecTabSize[p]
    /\ \A t \in Usable(f, p) \ {s} : Age(f, t, c) = m - 1 => m < SecTabSize[p]

LEMMA TableReplaces ==
    ASSUME OnInv, AppendTears = FALSE, NEW p \in Params, ~Appends(p),
           NEW c, NEW n, Tabled(part, p, tab[p], save[p], c, n)
    PROVE  /\ NewestFull(part, p, c)
           /\ Replaces(part, p, Target(p).sector, c, n)
<1> DEFINE N == SecTabSize[p]
           s == Target(p).sector
           U == Usable(part, p)
<1>1. /\ N \in Nat /\ N >= 2 /\ n \in Nat /\ n <= N
      /\ \A x, y \in U : Age(part, x, c) = Age(part, y, c) => x = y
      /\ \A k \in 1..N :
           IF Back(p, save[p], k) < n
           THEN /\ tab[p][k].sector \in U
                /\ Age(part, tab[p][k].sector, c) = Back(p, save[p], k)
                /\ tab[p][k].num \in 1..Slots
           ELSE tab[p][k].sector \notin U /\ tab[p][k].num = 0
      /\ \A x \in U : \E k \in 1..N : Back(p, save[p], k) < n /\ tab[p][k].sector = x
      /\ n > 0 => AppendsFit(part, p, tab[p][save[p]])
  BY TabSizes, AgesOf DEF Tabled
<1>2. /\ save[p] \in 1..N /\ NextSave(p) \in 1..N
      /\ Back(p, save[p], NextSave(p)) = N - 1 /\ Back(p, save[p], save[p]) = 0
      /\ \A k \in 1..N : k # NextSave(p) => Back(p, save[p], k) + 1 < N
      /\ s = tab[p][SaveAt(p)].sector
  BY CurrentIs, TargetIs DEF TargetFits
<1>3. CASE n = 0
  <2>1. U = {}
    <3> SUFFICES ASSUME NEW x \in U
                 PROVE  FALSE
      OBVIOUS
    <3>1. Chain(part, U, c, n)
      BY DEF Tabled, Held
    <3>2. Age(part, x, c) \in 0..(0 - 1)
      BY <1>3, <3>1 DEF Chain
    <3> QED BY <3>2
  <2> QED BY <2>1 DEF NewestFull, Replaces
<1>4. CASE n # 0
  <2>1. n > 0 /\ Back(p, save[p], save[p]) < n
    BY <1>1, <1>2, <1>4
  <2>2. /\ Current(p).num \in 1..Slots /\ Current(p).sector \in U
        /\ Age(part, Current(p).sector, c) = 0
        /\ AppendsFit(part, p, Current(p))
    BY <1>1, <1>2, <2>1 DEF Current
  <2>3. Current(p).num # 0 /\ Moves(p) /\ SaveAt(p) = NextSave(p)
    <3>1. Current(p).num # 0
      BY <2>2, ParamSizes
    <3>2. Moves(p)
      BY <3>1, OneOfThree DEF Starts
    <3> QED BY <3>1, <3>2 DEF SaveAt
  <2>4. NewestFull(part, p, c)
    <3> SUFFICES ASSUME p \notin Normal, NEW x \in U, Age(part, x, c) = 0
                 PROVE  FullSector(part, x)
      BY DEF NewestFull
    <3>1. x = Current(p).sector
      BY <1>1, <2>2
    <3>2. Filling(part, x, Current(p).num)
      BY <2>2, <3>1 DEF AppendsFit
    <3>3. Current(p).num + 1 > Slots
      BY <2>3 DEF Moves
    <3>4. \A k \in 1..Slots : k <= Current(p).num
      BY <2>2, <3>3, ParamSizes
    <3> QED BY <3>2, <3>4 DEF Filling, FullSector
  <2>5. s = tab[p][NextSave(p)].sector
    BY <1>2, <2>3
  <2>6. s \in U => Age(part, s, c) = n - 1 /\ n = N
    <3> SUFFICES ASSUME s \in U
                 PROVE  Age(part, s, c) = n - 1 /\ n = N
      OBVIOUS
    <3>1. N - 1 < n
      BY <1>1, <1>2, <2>5
    <3>2. n = N
      BY <1>1, <3>1
    <3> QED BY <1>1, <1>2, <2>5, <3>1, <3>2
  <2>7. ASSUME NEW x \in U \ {s}, Age(part, x, c) = n - 1
        PROVE  n < N
    <3>1. PICK k \in 1..N : Back(p, save[p], k) < n /\ tab[p][k].sector = x
      BY <1>1
    <3>2. k # NextSave(p)
      BY <2>5, <3>1
    <3>3. Back(p, save[p], k) = n - 1 /\ Back(p, save[p], k) + 1 < N
      BY <1>1, <1>2, <2>7, <3>1, <3>2
    <3> QED BY <1>1, <3>3
  <2> QED BY <2>4, <2>6, <2>7 DEF Replaces
<1> QED BY <1>3, <1>4
-----------------------------------------------------------------------------
(* What a save does to the history of its parameter *)

LEMMA NewSectorNum ==
    ASSUME OnInv, NEW p \in Params, ~Appends(p), NEW val \in Values,
           NEW g, g = Written(p, val), Target(p).sector \in Usable(g, p)
    PROVE  /\ g[Addr(Target(p).sector, 1)] = val
           /\ Num(g, Target(p).sector) = 1
<1> DEFINE s == Target(p).sector
           q == Num(g, s)
<1>1. Target(p).num = 1
  BY TargetIs, OneOfThree DEF TargetFits
<1>2. /\ 1 \in 0..Slots /\ 1 # 0 /\ 2 # 0 /\ 2 # 1
      /\ \A k \in 1..Slots : k \in 0..Slots
  BY ParamSizes
<1>3. \A l \in 0..Slots : g[Addr(s, l)] = IF l = 1 THEN val
                                          ELSE IF l = 0 THEN HeaderOf(p) ELSE Erased
  BY <1>1, WrittenIs
<1>4. g[Addr(s, 1)] = val
  BY <1>2, <1>3
<1>5. q \in 1..Slots /\ g[Addr(s, 0)].param = p
  BY UsableHas
<1> HIDE DEF q
<1>6. q < 2
  <2> SUFFICES ASSUME q >= 2
               PROVE  FALSE
    BY <1>5, ParamSizes
  <2>1. 2 \in 1..q /\ 2 \in 1..Slots /\ q <= q
    BY <1>5, ParamSizes
  <2>2. read_data(g, s, 2)
    BY <1>5, <2>1, NumCounts DEF q, Num
  <2>3. g[Addr(s, 2)] = Erased
    BY <1>2, <1>3, <2>1
  <2> QED BY <2>2, <2>3, CellsApart DEF read_data
<1> QED BY <1>4, <1>5, <1>6, ParamSizes DEF q

LEMMA NewSectorSaves ==
    ASSUME OnInv, AppendTears = FALSE, NEW p \in Params, ~Appends(p),
           FullInv(part, p), NEW val \in Values, NEW g, g = Written(p, val)
    PROVE  /\ StoredOf(g, p) \in Store!Thinned(Append(StoredOf(part, p), val), KeepOf(p))
           /\ FullInv(g, p)
<1> DEFINE N == SecTabSize[p]
           s == Target(p).sector
           f == part
<1>1. PICK c, n : Tabled(f, p, tab[p], save[p], c, n)
  BY TabledBefore
<1>2. PICK d, o : Tabled(g, p, NewTab(p), SaveAt(p), d, o)
  BY TabledAfter
<1>3. /\ f \in Flash /\ g \in Flash /\ s \in Sectors /\ SameBut(f, g, s)
  BY CurrentIs, TargetIs, WrittenIs DEF TargetFits, SameBut
<1>4. /\ Held(f, p, Usable(f, p), c, n) /\ Held(g, p, Usable(g, p), d, o)
      /\ Usable(f, p) = Own(f, p) /\ Usable(g, p) = Own(g, p)
  BY <1>1, <1>2 DEF Tabled
<1>5. FullFrom(f, p, c, n) /\ NewestFull(f, p, c) /\ Replaces(f, p, s, c, n)
  BY <1>1, <1>4, FullFor, TableReplaces
<1>6. /\ SaveAt(p) \in 1..N /\ NewTab(p)[SaveAt(p)] = Target(p)
      /\ NewTab(p)[SaveAt(p)].sector = s /\ NewTab(p)[SaveAt(p)].num = 1
      /\ \A k \in 1..N : k # SaveAt(p) => NewTab(p)[k] = tab[p][k]
  BY NewTabIs, TargetIs, OneOfThree DEF TargetFits
<1>7. Back(p, SaveAt(p), SaveAt(p)) = 0
  <2>1. Back(p, NextSave(p), NextSave(p)) = 0 /\ Back(p, save[p], save[p]) = 0
    BY CurrentIs
  <2> QED BY <2>1 DEF SaveAt
<1>8. s \in Usable(g, p) /\ Age(g, s, d) = 0
  <2>1. 1 # 0
    OBVIOUS
  <2> QED BY <1>2, <1>6, <1>7, <2>1 DEF Tabled
<1>9. \A t \in Sectors : t # s => (t \in Usable(g, p) <=> t \in Usable(f, p))
  BY <1>3, <1>4, SameButOwn
<1>10. Usable(g, p) = Usable(f, p) \cup {s}
  <2>1. \A t : t \in Usable(g, p) \/ t \in Usable(f, p) => t \in Sectors
    BY UsableHas
  <2> QED BY <1>8, <1>9, <2>1
<1>11. ASSUME NEW t \in Usable(f, p) \ {s}
       PROVE  Age(g, t, d) = Age(f, t, c) + 1
  <2>1. PICK k \in 1..N : Back(p, save[p], k) < n /\ tab[p][k].sector = t
    BY <1>1 DEF Tabled
  <2>2. Age(f, t, c) = Back(p, save[p], k) /\ tab[p][k].num \in 1..Slots
    BY <1>1, <2>1 DEF Tabled
  <2>3. k # SaveAt(p)
    BY <1>6, <2>1, NewTabIs
  <2>4. NewTab(p)[k] = tab[p][k] /\ tab[p][k].num # 0
    BY <1>6, <2>2, <2>3, ParamSizes
  <2>5. Age(g, t, d) = Back(p, SaveAt(p), k)
    BY <1>2, <2>1, <2>4 DEF Tabled
  <2>6. Moves(p)
    <3> SUFFICES ASSUME ~Moves(p)
                 PROVE  FALSE
      OBVIOUS
    <3>1. Own(f, p) = {}
      BY OneOfThree, StartKeepsTab
    <3> QED BY <1>4, <3>1
  <2>7. SaveAt(p) = NextSave(p)
    BY <2>6 DEF SaveAt
  <2>8. Back(p, NextSave(p), k) = Back(p, save[p], k) + 1
    BY <2>3, <2>7, CurrentIs
  <2> QED BY <2>2, <2>5, <2>7, <2>8
<1>12. g[Addr(s, 1)] = val /\ Num(g, s) = 1
  BY <1>8, NewSectorNum
<1>13. NewSector(f, g, p, s, c, d)
  BY <1>3, <1>8, <1>10, <1>11, <1>12 DEF NewSector
<1> HIDE DEF s, f
<1>14. /\ StoredOf(g, p) \in Store!Thinned(Append(StoredOf(f, p), val), KeepOf(p))
       /\ FullFrom(g, p, d, o)
  BY <1>3, <1>4, <1>5, <1>12, <1>13, NewSectorAdds DEF Replaces
<1> QED BY <1>4, <1>14 DEF FullInv, f

LEMMA AppendSaves ==
    ASSUME OnInv, AppendTears = FALSE, NEW p \in Params, Appends(p),
           FullInv(part, p), NEW val \in Values, NEW g, g = Written(p, val)
    PROVE  /\ StoredOf(g, p) \in Store!Thinned(Append(StoredOf(part, p), val), KeepOf(p))
           /\ FullInv(g, p)
<1> DEFINE N == SecTabSize[p]
           s == Target(p).sector
           q == Target(p).num
           f == part
<1>1. PICK c, n : Tabled(f, p, tab[p], save[p], c, n)
  BY TabledBefore
<1>2. PICK d, o : Tabled(g, p, NewTab(p), SaveAt(p), d, o)
  BY TabledAfter
<1>3. /\ f \in Flash /\ g \in Flash /\ s \in Sectors /\ SameBut(f, g, s)
  BY CurrentIs, TargetIs, WrittenIs DEF TargetFits, SameBut
<1>4. /\ Held(f, p, Usable(f, p), c, n) /\ Held(g, p, Usable(g, p), d, o)
      /\ Usable(f, p) = Own(f, p) /\ Usable(g, p) = Own(g, p)
  BY <1>1, <1>2 DEF Tabled
<1>5. FullFrom(f, p, c, n)
  BY <1>4, FullFor
<1>6. /\ SaveAt(p) = save[p] /\ save[p] \in 1..N /\ Back(p, save[p], save[p]) = 0
      /\ NewTab(p)[save[p]] = Target(p) /\ tab[p][save[p]] = Current(p)
      /\ \A k \in 1..N : k # save[p] => NewTab(p)[k] = tab[p][k]
      /\ \A k \in 1..N : NewTab(p)[k].sector = tab[p][k].sector
  <2>1. SaveAt(p) = save[p]
    BY DEF SaveAt, Appends
  <2> QED BY <2>1, NewTabIs, CurrentIs DEF Current
<1>7. /\ q = Current(p).num + 1 /\ Current(p).sector = s /\ q \in 1..Slots
      /\ p \notin Normal /\ Current(p).num \in 1..Slots
  BY TargetIs DEF TargetFits
<1>8. Current(p).num # 0 /\ q # 0 /\ Current(p).num \in 0..Slots /\ q \in 0..Slots
  BY <1>7, ParamSizes
<1> HIDE DEF s, q
<1>9. /\ Back(p, save[p], save[p]) < n /\ s \in Usable(f, p) /\ Age(f, s, c) = 0
      /\ AppendsFit(f, p, Current(p))
  <2>1. Back(p, save[p], save[p]) < n
    BY <1>1, <1>6, <1>8 DEF Tabled
  <2>2. n > 0
    <3>1. n \in Nat
      BY <1>4, AgesOf
    <3> QED BY <1>6, <2>1, <3>1
  <2> QED BY <1>1, <1>6, <1>7, <2>1, <2>2 DEF Tabled
<1>10. AppendsFit(g, p, Target(p))
  <2>1. Target(p).num # 0
    BY <1>8 DEF q
  <2>2. Back(p, save[p], save[p]) < o
    BY <1>2, <1>6, <2>1 DEF Tabled
  <2>3. o \in Nat
    BY <1>4, AgesOf
  <2>4. o > 0
    BY <1>6, <2>2, <2>3
  <2> QED BY <1>2, <1>6, <2>4 DEF Tabled
<1>11. ASSUME NEW t \in Usable(f, p)
       PROVE  t \in Usable(g, p) /\ Age(g, t, d) = Age(f, t, c)
  <2>1. PICK k \in 1..N : Back(p, save[p], k) < n /\ tab[p][k].sector = t
    BY <1>1 DEF Tabled
  <2>2. Age(f, t, c) = Back(p, save[p], k) /\ tab[p][k].num \in 1..Slots
    BY <1>1, <2>1 DEF Tabled
  <2>3. NewTab(p)[k].num # 0
    <3>1. tab[p][k].num # 0 /\ Target(p).num # 0
      BY <1>8, <2>2, ParamSizes DEF q
    <3> QED BY <1>6, <3>1
  <2>4. NewTab(p)[k].sector = t
    BY <1>6, <2>1
  <2>5. t \in Usable(g, p) /\ Age(g, t, d) = Back(p, save[p], k)
    BY <1>2, <1>6, <2>3, <2>4 DEF Tabled
  <2> QED BY <2>2, <2>5
<1>12. Usable(g, p) = Usable(f, p)
  <2>1. \A t \in Usable(g, p) : t \in Sectors
    BY UsableHas
  <2>2. \A t \in Sectors : t # s => (t \in Usable(g, p) <=> t \in Usable(f, p))
    BY <1>3, <1>4, SameButOwn
  <2> QED BY <1>9, <1>11, <2>1, <2>2
<1>13. /\ Num(f, s) = Current(p).num /\ Num(g, s) = q
  <2>1. Filling(f, s, Current(p).num)
    BY <1>7, <1>9 DEF AppendsFit
  <2>2. Filling(g, s, q)
    BY <1>7, <1>10 DEF AppendsFit, s, q
  <2>3. f[Addr(s, 0)].param = p /\ g[Addr(s, 0)].param = p
    BY <1>9, <1>12, UsableHas
  <2> QED BY <1>7, <1>8, <2>1, <2>2, <2>3, DataNumIs DEF Num
<1>14. /\ g[Addr(s, q)] = val
       /\ \A k \in 1..Num(f, s) : g[Addr(s, k)] = f[Addr(s, k)]
  <2>1. \A l \in 0..Slots :
           g[Addr(s, l)] = IF l = q THEN Program(f[Addr(s, l)], val) ELSE f[Addr(s, l)]
    BY WrittenIs DEF s, q
  <2>2. f[Addr(s, q)] = Erased /\ Program(Erased, val) = val
    BY AppendKeepsTab DEF s, q, Program
  <2>3. \A k \in 1..Num(f, s) : k \in 0..Slots /\ k # q
    BY <1>7, <1>13, ParamSizes
  <2> QED BY <1>8, <2>1, <2>2, <2>3
<1>15. OneMore(f, g, p, s, c, d)
  BY <1>3, <1>7, <1>9, <1>11, <1>12, <1>13, <1>14 DEF OneMore
<1>16. g[Addr(s, Num(g, s))] = val
  BY <1>13, <1>14
<1> HIDE DEF f
<1>17. /\ StoredOf(g, p) \in Store!Thinned(Append(StoredOf(f, p), val), KeepOf(p))
       /\ FullFrom(g, p, d, o)
  BY <1>3, <1>4, <1>5, <1>15, <1>16, OneMoreAdds
<1> QED BY <1>4, <1>17 DEF FullInv, f
-----------------------------------------------------------------------------
(* Nothing but the sector that is written changes: the other parameters     *)
(* keep their histories.                                                    *)
LEMMA OthersKeep ==
    ASSUME OnInv, NEW p \in Params,
           NEW g \in Flash, SameBut(part, g, Target(p).sector),
           g[Addr(Target(p).sector, 0)] \in
               {part[Addr(Target(p).sector, 0)], Junk, HeaderOf(p)},
           NEW q \in Params, q # p, FullInv(part, q)
    PROVE  StoredOf(g, q) = StoredOf(part, q) /\ FullInv(g, q)
<1> DEFINE s == Target(p).sector
           f == part
<1>1. s \in Sectors /\ s \notin Own(f, q) /\ f \in Flash
  BY OthersApart, TargetIs, CurrentIs DEF TargetFits
<1>2. s \notin Own(g, q)
  <2>1. Junk \notin Headers
    BY CellsApart
  <2>2. HeaderOf(p).param = p
    BY DEF HeaderOf
  <2> QED BY <1>1, <2>1, <2>2 DEF Own, read_info
<1>3. SameBut(f, g, s)
  OBVIOUS
<1> HIDE DEF s, f
<1>4. /\ \A t : t # s => (t \in Own(g, q) <=> t \in Own(f, q))
      /\ \A t \in Sectors : t # s => (HasValue(g, t) <=> HasValue(f, t))
  BY <1>1, <1>3, SameButOwn
<1>5. Usable(g, q) = Usable(f, q)
  <2>1. /\ Usable(f, q) = {t \in Own(f, q) : HasValue(f, t)}
        /\ Usable(g, q) = {t \in Own(g, q) : HasValue(g, t)}
    BY UsableIs
  <2>2. \A t : t \in Own(g, q) <=> t \in Own(f, q)
    BY <1>1, <1>2, <1>4
  <2>3. \A t \in Own(f, q) : HasValue(g, t) <=> HasValue(f, t)
    BY <1>1, <1>4, OwnIs
  <2> QED BY <2>1, <2>2, <2>3
<1>6. \A t \in Usable(f, q) : \A k \in 0..Slots : g[Addr(t, k)] = f[Addr(t, k)]
  <2>1. \A t \in Usable(f, q) : t \in Sectors \ {s}
    BY <1>1, UsableHas
  <2> QED BY <1>3, <2>1 DEF SameBut
<1>7. FullInv(f, q)
  BY DEF f
<1>8. StoredOf(g, q) = StoredOf(f, q) /\ FullInv(g, q)
  BY <1>1, <1>5, <1>6, <1>7, HistoryStays
<1> QED BY <1>8 DEF f

(* A save adds one value to one history. *)
LEMMA SaveIsOne ==
    ASSUME OnInv, AppendTears = FALSE, \A q \in Params : FullInv(part, q),
           NEW p \in Params, NEW val \in Values, NEW g, g = Written(p, val)
    PROVE  /\ StoredOf(g, p) \in Store!Thinned(Append(StoredOf(part, p), val), KeepOf(p))
           /\ \A q \in Params : q # p => StoredOf(g, q) = StoredOf(part, q)
           /\ \A q \in Params : FullInv(g, q)
<1> DEFINE s == Target(p).sector
<1>1. /\ s \in Sectors /\ g \in Flash /\ SameBut(part, g, s)
      /\ 0 \in 0..Slots /\ Target(p).num # 0
  BY TargetIs, WrittenIs, ParamSizes DEF TargetFits, SameBut
<1>2. g[Addr(s, 0)] \in {part[Addr(s, 0)], Junk, HeaderOf(p)}
  <2>1. g[Addr(s, 0)] = IF Appends(p) THEN part[Addr(s, 0)] ELSE HeaderOf(p)
    BY <1>1, WrittenIs
  <2> QED BY <2>1
<1>3. \A q \in Params : q # p => StoredOf(g, q) = StoredOf(part, q) /\ FullInv(g, q)
  BY <1>1, <1>2, OthersKeep
<1>4. /\ StoredOf(g, p) \in Store!Thinned(Append(StoredOf(part, p), val), KeepOf(p))
      /\ FullInv(g, p)
  BY NewSectorSaves, AppendSaves
<1> QED BY <1>3, <1>4
-----------------------------------------------------------------------------
(* What a power failure during a save does to the history of its parameter *)

(* What is left of a chain that has lost its last sector, or nothing.       *)
LEMMA LossHeld ==
    ASSUME NEW f, NEW g, NEW p \in Params, NEW s \in Sectors, Loses(f, g, p, s),
           NEW c, NEW m, Held(f, p, Usable(f, p), c, m), Replaces(f, p, s, c, m)
    PROVE  \E o : Held(g, p, Usable(g, p), c, o)
<1> DEFINE U == Usable(f, p)
           V == Usable(g, p)
<1>1. /\ \A t \in V : t \in U /\ Age(g, t, c) = Age(f, t, c)
      /\ V \subseteq U /\ U \ {s} \subseteq V
  BY LossLoses DEF Loses
<1>2. /\ c \in 0..(IndexMod - 1) /\ m \in 0..SecTabSize[p] /\ m \in Nat
      /\ SecTabSize[p] \in Nat /\ SecTabSize[p] >= 2
      /\ Chain(f, U, c, m) /\ \A t \in U : Age(f, t, c) = 0 => Clean(f, p, t)
  BY TabSizes DEF Held
<1>3. ASSUME NEW t \in V, Age(g, t, c) = 0
      PROVE  Clean(g, p, t)
  <2>1. t \in U /\ Age(f, t, c) = 0 /\ t \in Sectors
    BY <1>1, <1>3, UsableHas
  <2>2. Clean(f, p, t)
    BY <1>2, <2>1
  <2>3. t # s
    <3> SUFFICES ASSUME t = s
                 PROVE  FALSE
      OBVIOUS
    <3>1. Age(f, s, c) = m - 1 /\ m = SecTabSize[p]
      BY <2>1 DEF Replaces
    <3> QED BY <1>2, <2>1, <3>1
  <2> QED BY <2>1, <2>2, <2>3, SameButOwn DEF Loses
<1>4. CASE V = U
  <2>1. Chain(g, V, c, m)
    BY <1>1, <1>2, <1>4 DEF Chain
  <2> QED BY <1>2, <1>3, <2>1 DEF Held
<1>5. CASE V # U
  <2>1. V = U \ {s} /\ s \in U
    BY <1>1, <1>5
  <2>2. Age(f, s, c) = m - 1 /\ m = SecTabSize[p]
    BY <2>1 DEF Replaces
  <2>3. m - 1 \in 0..SecTabSize[p]
    BY <1>2, <2>2
  <2>4. Chain(g, V, c, m - 1)
    <3>1. ASSUME NEW t \in V
          PROVE  Age(g, t, c) \in 0..((m - 1) - 1)
      <4>1. Age(f, t, c) \in 0..(m - 1) /\ Age(f, t, c) # m - 1
        <5>1. t \in U /\ t # s
          BY <2>1
        <5> QED BY <1>2, <2>1, <2>2, <5>1 DEF Chain
      <4> QED BY <1>1, <1>2, <4>1
    <3>2. \A t, u \in V : Age(g, t, c) = Age(g, u, c) => t = u
      BY <1>1, <1>2 DEF Chain
    <3>3. ASSUME NEW a \in 0..((m - 1) - 1)
          PROVE  \E t \in V : Age(g, t, c) = a
      <4>1. a \in 0..(m - 1) /\ a # m - 1
        BY <1>2
      <4>2. PICK t \in U : Age(f, t, c) = a
        BY <1>2, <4>1 DEF Chain
      <4>3. t \in V
        BY <2>1, <2>2, <4>1, <4>2
      <4> QED BY <1>1, <4>2, <4>3
    <3> QED BY <3>1, <3>2, <3>3 DEF Chain
  <2> QED BY <1>2, <1>3, <2>3, <2>4 DEF Held
<1> QED BY <1>4, <1>5

(* Cell by cell: the sector is as it was, partly erased, or it has lost its *)
(* header, or it has a new one and no value.                                *)
LossCells(g, p, s) ==
    \/ /\ g[Addr(s, 0)] = part[Addr(s, 0)]
       /\ \A k \in 1..Slots : g[Addr(s, k)] \in {part[Addr(s, k)], Junk}
    \/ g[Addr(s, 0)] = Junk
    \/ g[Addr(s, 0)] = HeaderOf(p) /\ g[Addr(s, 1)] \in {Erased, Junk}

LEMMA LossInSaveIs ==
    ASSUME OnInv, NEW p \in Params, PowerLossInSave(p), ~Appends(p)
    PROVE  /\ part' \in Flash /\ Target(p).sector \in Sectors
           /\ SameBut(part, part', Target(p).sector)
           /\ LossCells(part', p, Target(p).sector)
<1> DEFINE s == Target(p).sector
<1>1. /\ part \in Flash /\ s \in Sectors /\ 0 \in 0..Slots /\ 1 \in 0..Slots
      /\ 0 # 1 /\ \A k \in 1..Slots : k \in 0..Slots
  BY CurrentIs, TargetIs, ParamSizes DEF TargetFits
<1>2. /\ Prepared(p) \in Flash
      /\ \A t \in Sectors, l \in 0..Slots :
           Prepared(p)[Addr(t, l)] = IF t = s
                                     THEN IF l = 0 THEN HeaderOf(p) ELSE Erased
                                     ELSE part[Addr(t, l)]
  BY PreparedIs
<1>3. \/ part' \in HalfErased(part, s)
      \/ part' = Spoilt(Prepared(p), s, 0)
      \/ part' = Prepared(p)
      \/ part' = Spoilt(Prepared(p), s, 1)
  BY DEF PowerLossInSave, Spoilt
<1> HIDE DEF s
<1>4. CASE part' \in HalfErased(part, s)
  <2>1. /\ part' \in Flash
        /\ \A t \in Sectors, l \in 0..Slots :
             t # s => part'[Addr(t, l)] = part[Addr(t, l)]
        /\ \A l \in 0..Slots : part'[Addr(s, l)] \in {part[Addr(s, l)], Junk}
    BY <1>1, <1>4, HalfErasedIs
  <2>2. LossCells(part', p, s)
    BY <1>1, <2>1 DEF LossCells
  <2> QED BY <1>1, <2>1, <2>2 DEF SameBut, s
<1>5. CASE part' = Spoilt(Prepared(p), s, 0)
  <2>1. /\ part' \in Flash
        /\ \A t \in Sectors, l \in 0..Slots :
             part'[Addr(t, l)] = IF t = s /\ l = 0 THEN Junk ELSE Prepared(p)[Addr(t, l)]
    BY <1>1, <1>2, <1>5, SpoiltIs
  <2>2. LossCells(part', p, s)
    BY <1>1, <2>1 DEF LossCells
  <2> QED BY <1>1, <1>2, <2>1, <2>2 DEF SameBut, s
<1>6. CASE part' = Prepared(p)
  <2>1. LossCells(part', p, s)
    BY <1>1, <1>2, <1>6 DEF LossCells
  <2> QED BY <1>1, <1>2, <1>6, <2>1 DEF SameBut, s
<1>7. CASE part' = Spoilt(Prepared(p), s, 1)
  <2>1. /\ part' \in Flash
        /\ \A t \in Sectors, l \in 0..Slots :
             part'[Addr(t, l)] = IF t = s /\ l = 1 THEN Junk ELSE Prepared(p)[Addr(t, l)]
    BY <1>1, <1>2, <1>7, SpoiltIs
  <2>2. LossCells(part', p, s)
    BY <1>1, <1>2, <2>1 DEF LossCells
  <2> QED BY <1>1, <1>2, <2>1, <2>2 DEF SameBut, s
<1> QED BY <1>3, <1>4, <1>5, <1>6, <1>7

LEMMA CellsLose ==
    ASSUME NEW p \in Params, NEW g, NEW s \in Sectors,
           SameBut(part, g, s), LossCells(g, p, s),
           Usable(part, p) = Own(part, p)
    PROVE  Loses(part, g, p, s)
<1> DEFINE f == part
<1>1. \A v \in {Erased, Junk} : v \notin Values /\ v \notin Headers
  BY CellsApart
<1>2. /\ Usable(f, p) = {t \in Own(f, p) : HasValue(f, t)}
      /\ Usable(g, p) = {t \in Own(g, p) : HasValue(g, t)}
  BY UsableIs
<1>3. /\ \A t : t # s => (t \in Own(g, p) <=> t \in Own(f, p))
      /\ \A t \in Sectors : t # s => (HasValue(g, t) <=> HasValue(f, t))
  BY SameButOwn
<1>4. \A t : t # s => (t \in Usable(g, p) <=> t \in Usable(f, p))
  <2>1. \A t : t \in Own(f, p) => t \in Sectors
    BY OwnIs
  <2> QED BY <1>2, <1>3, <2>1
<1>5. ASSUME s \in Usable(g, p)
      PROVE  /\ s \in Usable(f, p) /\ g[Addr(s, 0)] = f[Addr(s, 0)]
             /\ \A k \in 1..Slots : read_data(g, s, k) => g[Addr(s, k)] = f[Addr(s, k)]
  <2>1. s \in Own(g, p) /\ HasValue(g, s)
    BY <1>2, <1>5
  <2>2. g[Addr(s, 0)] \in Headers /\ g[Addr(s, 0)].param = p /\ g[Addr(s, 1)] \in Values
    BY <2>1 DEF Own, read_info, HasValue, read_data
  <2>3. /\ g[Addr(s, 0)] = f[Addr(s, 0)]
        /\ \A k \in 1..Slots : g[Addr(s, k)] \in {f[Addr(s, k)], Junk}
    BY <1>1, <2>2 DEF LossCells
  <2>4. s \in Own(f, p)
    BY <2>2, <2>3 DEF Own, read_info
  <2> QED BY <1>1, <2>3, <2>4 DEF read_data
<1>6. Usable(g, p) \subseteq Usable(f, p) /\ Usable(f, p) \ {s} \subseteq Usable(g, p)
  BY <1>4, <1>5
<1> QED BY <1>5, <1>6 DEF Loses

(* At most the values of the sector that was being erased are gone. *)
LEMMA LossIsOne ==
    ASSUME OnInv, AppendTears = FALSE, \A q \in Params : FullInv(part, q),
           NEW p \in Params, PowerLossInSave(p), ~Appends(p)
    PROVE  /\ StoredOf(part', p) \in Store!Thinned(StoredOf(part, p), KeepOf(p))
           /\ \A q \in Params : q # p => StoredOf(part', q) = StoredOf(part, q)
           /\ \A q \in Params : FullInv(part', q)
<1> DEFINE s == Target(p).sector
           f == part
           g == part'
<1>1. /\ g \in Flash /\ f \in Flash /\ s \in Sectors
      /\ SameBut(f, g, s) /\ LossCells(g, p, s)
  BY LossInSaveIs, CurrentIs
<1>2. g[Addr(s, 0)] \in {f[Addr(s, 0)], Junk, HeaderOf(p)}
  BY <1>1 DEF LossCells
<1>3. \A q \in Params : q # p => StoredOf(g, q) = StoredOf(f, q) /\ FullInv(g, q)
  BY <1>1, <1>2, OthersKeep
<1>4. PICK c, n : Tabled(f, p, tab[p], save[p], c, n)
  BY TabledBefore
<1>5. Held(f, p, Usable(f, p), c, n) /\ Usable(f, p) = Own(f, p)
  BY <1>4 DEF Tabled
<1>6. FullFrom(f, p, c, n) /\ NewestFull(f, p, c) /\ Replaces(f, p, s, c, n)
  BY <1>4, <1>5, FullFor, TableReplaces
<1>7. Loses(f, g, p, s)
  BY <1>1, <1>5, CellsLose
<1> HIDE DEF s, f, g
<1>8. PICK o : Held(g, p, Usable(g, p), c, o)
  BY <1>1, <1>5, <1>6, <1>7, LossHeld
<1>9. /\ StoredOf(g, p) \in Store!Thinned(StoredOf(f, p), KeepOf(p))
      /\ FullFrom(g, p, c, o)
  BY <1>1, <1>5, <1>6, <1>7, <1>8, LossThins DEF Replaces
<1>10. FullInv(g, p)
  BY <1>8, <1>9 DEF FullInv
<1> QED BY <1>3, <1>9, <1>10 DEF f, g
-----------------------------------------------------------------------------
(* Power-up finds the histories as they were left. *)
LEMMA PowerUpKeeps ==
    ASSUME NEW f \in Flash, InvOff(f), NEW g \in Flash,
           \A s \in Sectors, k \in 0..Slots :
              g[Addr(s, k)] \in {f[Addr(s, k)], Erased, Junk},
           \A s \in Sectors : s \notin Swept(f) =>
              \A k \in 0..Slots : g[Addr(s, k)] = f[Addr(s, k)],
           NEW p \in Params, FullInv(f, p)
    PROVE  StoredOf(g, p) = StoredOf(f, p) /\ FullInv(g, p)
<1>0. 0 \in 0..Slots /\ 1 \in 0..Slots
  BY ParamSizes
<1>1. \A v \in {Erased, Junk} : v \notin Values /\ v \notin Headers
  BY CellsApart
<1>2. \A s \in Usable(f, p) : s \in Sectors /\ s \notin Swept(f)
  <2> SUFFICES ASSUME NEW s \in Usable(f, p)
               PROVE  s \in Sectors /\ s \notin Swept(f)
    OBVIOUS
  <2>1. s \in Sectors /\ s \in Found(f, p)
    BY UsableHas, AllAreFound DEF InvOff
  <2> QED BY <2>1 DEF Swept
<1>3. \A s \in Usable(f, p) : \A k \in 0..Slots : g[Addr(s, k)] = f[Addr(s, k)]
  BY <1>2
<1>4. /\ Usable(f, p) = {s \in Own(f, p) : HasValue(f, s)}
      /\ Usable(g, p) = {s \in Own(g, p) : HasValue(g, s)}
  BY UsableIs
<1>5. ASSUME NEW s \in Usable(g, p)
      PROVE  s \in Usable(f, p)
  <2>1. /\ s \in Sectors /\ g[Addr(s, 0)] \in Headers /\ g[Addr(s, 0)].param = p
        /\ g[Addr(s, 1)] \in Values
    BY UsableHas DEF read_info, HasValue, read_data
  <2>2. g[Addr(s, 0)] = f[Addr(s, 0)] /\ g[Addr(s, 1)] = f[Addr(s, 1)]
    BY <1>0, <1>1, <2>1
  <2> QED BY <1>4, <2>1, <2>2 DEF Own, read_info, HasValue, read_data
<1>6. ASSUME NEW s \in Usable(f, p)
      PROVE  s \in Usable(g, p)
  <2>1. /\ s \in Sectors /\ f[Addr(s, 0)] \in Headers /\ f[Addr(s, 0)].param = p
        /\ f[Addr(s, 1)] \in Values
    BY UsableHas DEF read_info, HasValue, read_data
  <2>2. g[Addr(s, 0)] = f[Addr(s, 0)] /\ g[Addr(s, 1)] = f[Addr(s, 1)]
    BY <1>0, <1>3
  <2> QED BY <1>4, <2>1, <2>2 DEF Own, read_info, HasValue, read_data
<1>7. Usable(g, p) = Usable(f, p)
  BY <1>5, <1>6
<1> QED BY <1>3, <1>7, HistoryStays

LEMMA InitKeepsAll ==
    ASSUME ParamInv, flash_param_init \/ PowerLossInInit,
           NEW p \in Params, FullInv(part, p)
    PROVE  StoredOf(part', p) = StoredOf(part, p) /\ FullInv(part', p)
<1> DEFINE f == part
           g == part'
<1>1. f \in Flash /\ InvOff(f)
  BY DEF flash_param_init, PowerLossInInit, ParamInv, TypeOK, Flash, Cells, InvOff
<1>2. Swept(f) \in SUBSET Sectors
  BY UnusedIs
<1>3. /\ g \in Flash
      /\ \A s \in Sectors, k \in 0..Slots :
            g[Addr(s, k)] \in {f[Addr(s, k)], Erased, Junk}
      /\ \A s \in Sectors : s \notin Swept(f) =>
            \A k \in 0..Slots : g[Addr(s, k)] = f[Addr(s, k)]
  <2>1. CASE flash_param_init
    <3>1. g = SweptPart(f, Swept(f))
      BY <2>1 DEF flash_param_init
    <3> HIDE DEF f, g
    <3>2. /\ g \in Flash
          /\ \A t \in Sectors, l \in 0..Slots :
               g[Addr(t, l)] = IF t \in Swept(f) THEN Erased ELSE f[Addr(t, l)]
      BY <1>1, <1>2, <3>1, SweepIs
    <3> QED BY <3>2
  <2>2. CASE PowerLossInInit
    <3>1. PICK s \in Swept(f) :
             g \in HalfErased(SweptPart(f, {t \in Swept(f) : t < s}), s)
      BY <2>2 DEF PowerLossInInit
    <3> DEFINE V == {t \in Swept(f) : t < s}
               h == SweptPart(f, V)
    <3>2. s \in Sectors /\ V \in SUBSET Sectors /\ \A t \in V : t \in Swept(f)
      BY <1>2
    <3> HIDE DEF f, g, V
    <3>3. /\ h \in Flash
          /\ \A t \in Sectors, l \in 0..Slots :
               h[Addr(t, l)] = IF t \in V THEN Erased ELSE f[Addr(t, l)]
      BY <1>1, <3>2, SweepIs
    <3>4. g \in HalfErased(h, s)
      BY <3>1 DEF V
    <3> HIDE DEF h
    <3>5. /\ g \in Flash
          /\ \A t \in Sectors, l \in 0..Slots : t # s => g[Addr(t, l)] = h[Addr(t, l)]
          /\ \A l \in 0..Slots : g[Addr(s, l)] \in {h[Addr(s, l)], Junk}
      BY <3>2, <3>3, <3>4, HalfErasedIs
    <3> QED BY <3>1, <3>2, <3>3, <3>5
  <2> QED BY <2>1, <2>2
<1>4. FullInv(f, p)
  OBVIOUS
<1> HIDE DEF f, g
<1>5. StoredOf(g, p) = StoredOf(f, p) /\ FullInv(g, p)
  BY <1>1, <1>3, <1>4, PowerUpKeeps
<1> QED BY <1>5 DEF f, g
-----------------------------------------------------------------------------
(* The refinement *)

Histories(f) == [p \in Params |-> StoredOf(f, p)]
LogInv ==
    /\ ParamInv
    /\ \A p \in Params : FullInv(part, p)
    /\ log = Histories(part)

LEMMA LogsAre == Logs = Histories(part) /\ Logs' = Histories(part')
BY StoredIs DEF Logs, Histories

LEMMA LogStart ==
    ASSUME LogInit
    PROVE  LogInv /\ Store!Init
<1>1. ParamInv
  BY ParamStart DEF LogInit
<1>2. ~on
  BY DEF LogInit, Init
<1>3. PICK cell \in {Erased, Junk} :
        part = [a \in 0..(PartSectors * SectorUnits - 1) |-> cell]
  BY DEF LogInit, Init
<1>4. cell \notin Values /\ cell \notin Headers
  BY CellsApart
<1>5. part \in Flash
  BY <1>1 DEF ParamInv, TypeOK, Flash, Cells
<1>6. ASSUME NEW p \in Params
      PROVE  FullInv(part, p) /\ StoredOf(part, p) = <<>>
  <2>1. Usable(part, p) = {}
    <3> SUFFICES ASSUME NEW s \in Usable(part, p)
                 PROVE  FALSE
      OBVIOUS
    <3>1. s \in Sectors /\ part[Addr(s, 0)] \in Headers /\ 0 \in 0..Slots
      BY UsableHas, ParamSizes DEF read_info
    <3>2. Addr(s, 0) \in 0..(PartSectors * SectorUnits - 1)
      BY <3>1, AddrIs
    <3> QED BY <1>3, <1>4, <3>1, <3>2
  <2>2. LiveOf(part, p) = {}
    BY <1>5, <2>1, LiveIs
  <2>3. StoredOf(part, p) = <<>>
    <3>1. Cardinality({}) = 0
      BY FS_EmptySet
    <3> QED BY <2>2, <3>1 DEF StoredOf
  <2>4. PICK c, m : Held(part, p, Usable(part, p), c, m)
    BY <1>1, <1>2, ValuesAreHeld DEF ParamInv
  <2>5. FullFrom(part, p, c, m)
    BY <2>1 DEF FullFrom
  <2> QED BY <2>3, <2>4, <2>5 DEF FullInv
<1>7. log = Histories(part)
  BY LogsAre DEF LogInit
<1>8. log = [p \in Params |-> <<>>]
  BY <1>6, <1>7 DEF Histories
<1> QED BY <1>1, <1>6, <1>7, <1>8 DEF LogInv, Store!Init

(* One history changes, the others are what they were. *)
LEMMA OneChanges ==
    ASSUME log = Histories(part), log' = Histories(part'), NEW p \in Params,
           \A q \in Params : q # p => StoredOf(part', q) = StoredOf(part, q),
           NEW l, StoredOf(part', p) \in Store!Thinned(l, KeepOf(p))
    PROVE  Store!Becomes(p, l)
<1> DEFINE Keep == [q \in Params |-> IF q \in Normal THEN SecTabSize[q] - 1
                                     ELSE (SecTabSize[q] - 1) * Slots]
<1>1. Keep[p] = KeepOf(p)
  BY DEF KeepOf
<1>2. DOMAIN log' = Params /\ \A q \in Params : log'[q] = StoredOf(part', q)
  BY DEF Histories
<1>3. \A q \in Params : log[q] = StoredOf(part, q)
  BY DEF Histories
<1>4. log'[p] \in Store!Thinned(l, Keep[p])
  BY <1>1, <1>2
<1>5. \A q \in Params \ {p} : log'[q] = log[q]
  BY <1>2, <1>3
<1> QED BY <1>2, <1>4, <1>5 DEF Store!Becomes

LEMMA LogStep ==
    ASSUME AppendTears = FALSE, LogInv, LogNext
    PROVE  LogInv' /\ [Store!Next]_log
<1>1. /\ ParamInv /\ Next /\ log = Histories(part) /\ log' = Histories(part')
      /\ \A p \in Params : FullInv(part, p)
  BY LogsAre DEF LogInv, LogNext
<1>2. ParamInv'
  BY <1>1, ParamStep
<1>3. \A p \in Params : log[p] = StoredOf(part, p)
  BY <1>1 DEF Histories
<1>4. ASSUME \A p \in Params : StoredOf(part', p) = StoredOf(part, p) /\ FullInv(part', p)
      PROVE  LogInv' /\ [Store!Next]_log
  <2>1. log' = log
    BY <1>1, <1>4 DEF Histories
  <2> QED BY <1>1, <1>2, <1>4, <2>1 DEF LogInv
<1>5. CASE flash_param_init \/ PowerLossInInit
  BY <1>1, <1>4, <1>5, InitKeepsAll
<1>6. CASE PowerLoss
  <2>1. part' = part
    BY <1>6 DEF PowerLoss
  <2> QED BY <1>1, <1>4, <2>1
<1>7. CASE \E p \in Params : \E v \in Values : Save(p, v)
  <2>1. PICK p \in Params, v \in Values : Save(p, v)
    BY <1>7
  <2>2. OnInv
    BY <1>1, <2>1 DEF ParamInv, OnInv, Save
  <2>3. part' = Written(p, v)
    BY <2>1, <2>2, SaveMakes
  <2>4. /\ StoredOf(part', p) \in Store!Thinned(Append(StoredOf(part, p), v), KeepOf(p))
        /\ \A q \in Params : q # p => StoredOf(part', q) = StoredOf(part, q)
        /\ \A q \in Params : FullInv(part', q)
    BY <1>1, <2>2, <2>3, SaveIsOne
  <2>5. Store!Becomes(p, Append(log[p], v))
    BY <1>1, <1>3, <2>4, OneChanges
  <2>6. Store!Save(p, v)
    BY <2>5 DEF Store!Save
  <2>7. Store!Next
    BY <2>6 DEF Store!Next
  <2> QED BY <1>1, <1>2, <2>4, <2>7 DEF LogInv
<1>8. CASE \E p \in Params : PowerLossInSave(p)
  <2>1. PICK p \in Params : PowerLossInSave(p)
    BY <1>8
  <2>2. OnInv
    BY <1>1, <2>1 DEF ParamInv, OnInv, PowerLossInSave
  <2>3. CASE Appends(p)
    <3>1. part' = part
      BY <2>1, <2>3 DEF PowerLossInSave
    <3> QED BY <1>1, <1>4, <3>1
  <2>4. CASE ~Appends(p)
    <3>1. /\ StoredOf(part', p) \in Store!Thinned(StoredOf(part, p), KeepOf(p))
          /\ \A q \in Params : q # p => StoredOf(part', q) = StoredOf(part, q)
          /\ \A q \in Params : FullInv(part', q)
      BY <1>1, <2>1, <2>2, <2>4, LossIsOne
    <3>2. Store!Becomes(p, log[p])
      BY <1>1, <1>3, <3>1, OneChanges
    <3>3. Store!Lapse(p)
      BY <3>2 DEF Store!Lapse
    <3>4. Store!Next
      BY <3>3 DEF Store!Next
    <3> QED BY <1>1, <1>2, <3>1, <3>4 DEF LogInv
  <2> QED BY <2>3, <2>4
<1> QED BY <1>1, <1>5, <1>6, <1>7, <1>8 DEF Next

(* flash_param.c keeps what ParamStore promises, for every number of        *)
(* parameters, sectors, slots and values and wherever power fails, as long  *)
(* as appending is not torn: a save adds its value to the history of its    *)
(* parameter or does nothing, no other history changes, and the latest      *)
(* values, those of all sectors but one, are never lost.                    *)
THEOREM StoreIsKept == AppendTears = FALSE => (LogSpec => Implements)
<1> SUFFICES ASSUME AppendTears = FALSE
             PROVE  LogSpec => Implements
  OBVIOUS
<1>1. LogInit => LogInv /\ Store!Init
  BY LogStart
<1>2. ASSUME LogInv, [LogNext]_<<vars, log>>
      PROVE  LogInv' /\ [Store!Next]_log
  <2>1. CASE LogNext
    BY <1>2, <2>1, LogStep
  <2>2. CASE UNCHANGED <<vars, log>>
    <3>1. part' = part /\ on' = on /\ tab' = tab /\ save' = save /\ log' = log
      BY <2>2 DEF vars
    <3>2. ParamInv'
      BY <1>2, <2>2, ParamStep DEF LogInv
    <3> QED BY <1>2, <3>1, <3>2 DEF LogInv
  <2> QED BY <1>2, <2>1, <2>2
<1>3. LogInv /\ [LogNext]_<<vars, log>> => LogInv'
  BY <1>2
<1>4. LogInv /\ [LogNext]_<<vars, log>> => [Store!Next]_log
  BY <1>2
<1>5. LogSpec => Store!Init /\ [][Store!Next]_log
  BY <1>1, <1>3, <1>4, PTL DEF LogSpec
<1> QED BY <1>5 DEF Implements, Store!Spec
-----------------------------------------------------------------------------
(* What is read of the history through the tables *)

(* The tables count the values that are in flash. *)
Counts(f, p, t) ==
    \A k \in 1..SecTabSize[p] : t[k].num # 0 => t[k].num = Num(f, t[k].sector)
CountInv == ParamInv /\ (on => \A p \in Params : Counts(part, p, tab[p]))

LEMMA NumStays ==
    ASSUME NEW f, NEW g, NEW p \in Params, NEW s \in Usable(f, p),
           \A l \in 0..Slots : g[Addr(s, l)] = f[Addr(s, l)]
    PROVE  Num(g, s) = Num(f, s)
<1>1. /\ 0 \in 0..Slots /\ 1 \in 0..Slots
      /\ \A l \in 1..Slots : l \in 0..Slots
  BY ParamSizes
<1>2. s \in Own(f, p) /\ HasValue(f, s)
  BY UsableHas
<1>3. s \in Own(g, p) /\ HasValue(g, s)
  BY <1>1, <1>2 DEF Own, HasValue, read_info, read_data
<1>4. s \in Usable(g, p)
  BY <1>3, UsableIs
<1>5. \A l \in 1..Slots : g[Addr(s, l)] = f[Addr(s, l)]
  BY <1>1
<1> QED BY <1>4, <1>5, SameNum

LEMMA InitCounts ==
    ASSUME ParamInv, flash_param_init
    PROVE  \A p \in Params : Counts(part', p, tab'[p])
<1> DEFINE f == part
           g == part'
<1>1. /\ ~on /\ g = SweptPart(f, Swept(f))
      /\ tab' = [p \in Params |-> SortedTab(f, p)]
  BY DEF flash_param_init
<1>2. f \in Flash /\ InvOff(f)
  BY <1>1 DEF ParamInv, TypeOK, Flash, Cells, InvOff
<1> HIDE DEF f, g
<1> SUFFICES ASSUME NEW p \in Params, NEW k \in 1..SecTabSize[p],
                    SortedTab(f, p)[k].num # 0
             PROVE  SortedTab(f, p)[k].num = Num(g, SortedTab(f, p)[k].sector)
  BY <1>1 DEF Counts, g
<1> DEFINE e == SortedTab(f, p)[k]
           m == Cardinality(Found(f, p))
<1>3. PICK c : \A j \in 1..SecTabSize[p] : SortedEntry(f, p, c, m, j)
  BY <1>2, SortedIs
<1>4. e.sector \in Found(f, p) /\ e.num = Num(f, e.sector)
  <2> HIDE DEF m
  <2> QED BY <1>3 DEF SortedEntry, Num
<1>5. Found(f, p) = Usable(f, p)
  BY <1>2, AllAreFound DEF InvOff
<1> HIDE DEF e
<1>6. \A l \in 0..Slots : g[Addr(e.sector, l)] = f[Addr(e.sector, l)]
  BY <1>1, <1>2, <1>4, AfterSweep
<1>7. Num(g, e.sector) = Num(f, e.sector)
  BY <1>4, <1>5, <1>6, NumStays
<1> QED BY <1>4, <1>7 DEF e

LEMMA WrittenNum ==
    ASSUME OnInv, AppendTears = FALSE, NEW p \in Params, NEW val \in Values,
           NEW g, g = Written(p, val)
    PROVE  Num(g, Target(p).sector) = Target(p).num
<1> DEFINE s == Target(p).sector
           q == Target(p).num
<1>1. PICK d, o : Tabled(g, p, NewTab(p), SaveAt(p), d, o)
  BY TabledAfter
<1>2. /\ NewTab(p)[SaveAt(p)] = Target(p) /\ SaveAt(p) \in 1..SecTabSize[p]
      /\ q \in 1..Slots /\ q # 0 /\ q \in 0..Slots
  BY NewTabIs, TargetIs, ParamSizes DEF TargetFits
<1>3. Back(p, SaveAt(p), SaveAt(p)) < o /\ s \in Usable(g, p)
  BY <1>1, <1>2 DEF Tabled
<1>4. CASE ~Appends(p)
  <2>1. q = 1
    BY <1>4, TargetIs, OneOfThree DEF TargetFits
  <2> QED BY <1>3, <1>4, <2>1, NewSectorNum
<1>5. CASE Appends(p)
  <2>1. Back(p, SaveAt(p), SaveAt(p)) = 0
    BY <1>5, CurrentIs DEF SaveAt, Appends
  <2>2. o > 0
    <3>1. o \in Nat
      BY <1>1, AgesOf DEF Tabled
    <3> QED BY <1>3, <2>1, <3>1
  <2>3. p \notin Normal
    BY <1>5, TargetIs DEF TargetFits
  <2>4. Filling(g, s, q)
    BY <1>1, <1>2, <2>2, <2>3 DEF Tabled, AppendsFit
  <2>5. g[Addr(s, 0)].param = p
    BY <1>3, UsableHas
  <2> HIDE DEF s, q
  <2>6. Num(g, s) = q
    BY <1>2, <2>3, <2>4, <2>5, DataNumIs DEF Num
  <2> QED BY <2>6 DEF s, q
<1> QED BY <1>4, <1>5

LEMMA SaveCounts ==
    ASSUME OnInv, AppendTears = FALSE, \A q \in Params : Counts(part, q, tab[q]),
           NEW p \in Params, NEW val \in Values, Save(p, val)
    PROVE  \A q \in Params : Counts(part', q, tab'[q])
<1> DEFINE s == Target(p).sector
<1>1. /\ part' = Written(p, val)
      /\ \A q \in Params : tab'[q] = IF q = p THEN NewTab(p) ELSE tab[q]
  BY SaveMakes
<1>2. /\ SameBut(part, part', s)
  BY <1>1, WrittenIs DEF SameBut
<1>3. Num(part', s) = Target(p).num
  BY <1>1, WrittenNum
<1>4. ASSUME NEW q \in Params, NEW k \in 1..SecTabSize[q],
             tab[q][k].num # 0, tab[q][k].sector # s
      PROVE  tab[q][k].num = Num(part', tab[q][k].sector)
  <2> DEFINE t == tab[q][k].sector
  <2>1. PICK c, n : Tabled(part, q, tab[q], save[q], c, n)
    BY TabledBefore
  <2>2. t \in Usable(part, q)
    BY <1>4, <2>1 DEF Tabled
  <2>3. t \in Sectors \ {s}
    BY <1>4, <2>2, UsableHas
  <2>4. \A l \in 0..Slots : part'[Addr(t, l)] = part[Addr(t, l)]
    BY <1>2, <2>3 DEF SameBut
  <2> HIDE DEF t, s
  <2>5. Num(part', t) = Num(part, t)
    BY <2>2, <2>4, NumStays
  <2> QED BY <1>4, <2>5 DEF Counts, t
<1> SUFFICES ASSUME NEW q \in Params, NEW k \in 1..SecTabSize[q],
                    tab'[q][k].num # 0
             PROVE  tab'[q][k].num = Num(part', tab'[q][k].sector)
  BY DEF Counts
<1>5. CASE q # p
  <2>1. tab'[q] = tab[q] /\ tab[q][k].sector # s
    BY <1>1, <1>5, OthersApart
  <2> QED BY <1>4, <2>1
<1>6. CASE q = p /\ k # SaveAt(p)
  <2>1. tab'[q][k] = tab[q][k] /\ tab[q][k].sector # s
    BY <1>1, <1>6, NewTabIs
  <2> QED BY <1>4, <2>1
<1>7. CASE q = p /\ k = SaveAt(p)
  <2>1. tab'[q][k] = Target(p)
    BY <1>1, <1>7, NewTabIs
  <2> QED BY <1>3, <2>1
<1> QED BY <1>5, <1>6, <1>7

LEMMA CountStart ==
    ASSUME Init
    PROVE  CountInv
BY ParamStart DEF Init, CountInv

LEMMA CountStep ==
    ASSUME AppendTears = FALSE, CountInv, [Next]_vars
    PROVE  CountInv'
<1>1. ParamInv /\ ParamInv'
  BY ParamStep DEF CountInv
<1>2. CASE flash_param_init
  BY <1>1, <1>2, InitCounts DEF CountInv
<1>3. CASE \E p \in Params : \E v \in Values : Save(p, v)
  <2>1. PICK p \in Params, v \in Values : Save(p, v)
    BY <1>3
  <2>2. OnInv /\ on
    BY <1>1, <2>1 DEF ParamInv, OnInv, Save
  <2> QED BY <1>1, <2>1, <2>2, SaveCounts DEF CountInv
<1>4. CASE Off
  <2>1. on' = FALSE
    BY <1>4 DEF Off
  <2> QED BY <1>1, <2>1 DEF CountInv
<1>5. CASE UNCHANGED vars
  BY <1>1, <1>5 DEF CountInv, vars
<1>6. PowerLoss \/ PowerLossInInit \/ (\E p \in Params : PowerLossInSave(p)) => Off
  BY DEF PowerLoss, PowerLossInInit, PowerLossInSave
<1> QED BY <1>2, <1>3, <1>4, <1>5, <1>6 DEF Next

(* A table of two: the sector last written, and the other one. *)
Other(p) == tab[p][NextSave(p)]
TwoHold(f, p, c, x, y) ==
    /\ x.num \in 0..Slots /\ y.num \in 0..Slots
    /\ x.sector \in Sectors /\ y.sector \in Sectors /\ x.sector # y.sector
    /\ x.num # 0 => /\ x.sector \in Usable(f, p) /\ Age(f, x.sector, c) = 0
                    /\ Num(f, x.sector) = x.num
    /\ y.num # 0 => /\ y.sector \in Usable(f, p) /\ Age(f, y.sector, c) = 1
                    /\ Num(f, y.sector) = y.num
    /\ \A s \in Usable(f, p) : \/ s = x.sector /\ x.num # 0
                               \/ s = y.sector /\ y.num # 0

LEMMA TwoAre ==
    ASSUME OnInv, NEW p \in Params, SecTabSize[p] = 2, Counts(part, p, tab[p]),
           NEW c, NEW n, Tabled(part, p, tab[p], save[p], c, n)
    PROVE  TwoHold(part, p, c, Current(p), Other(p))
<1> DEFINE v == save[p]
           w == NextSave(p)
           t == tab[p]
<1>1. /\ t \in [1..2 -> Entries] /\ v \in 1..2 /\ w \in 1..2 /\ w # v
      /\ Back(p, v, v) = 0 /\ Back(p, v, w) = 1
      /\ Current(p) = t[v] /\ Other(p) = t[w]
  <2>1. /\ t \in [1..SecTabSize[p] -> Entries] /\ v \in 1..SecTabSize[p]
        /\ w \in 1..SecTabSize[p] /\ w # v
        /\ Back(p, v, v) = 0 /\ Back(p, v, w) = SecTabSize[p] - 1
    BY CurrentIs
  <2>2. Current(p) = t[v] /\ Other(p) = t[w]
    BY DEF Current, Other
  <2> HIDE DEF t, v, w
  <2> QED BY <2>1, <2>2
<1>2. /\ \A k \in 1..2 : t[k].num # 0 => t[k].num = Num(part, t[k].sector)
      /\ \A k \in 1..2 :
           IF Back(p, v, k) < n
           THEN /\ t[k].sector \in Usable(part, p)
                /\ Age(part, t[k].sector, c) = Back(p, v, k)
                /\ t[k].num \in 1..Slots
           ELSE t[k].num = 0
      /\ \A s \in Usable(part, p) : \E k \in 1..2 : Back(p, v, k) < n /\ t[k].sector = s
  BY DEF Tabled, Counts
<1>3. t[v].sector # t[w].sector
  BY <1>1 DEF OnInv, SectorsApart
<1>4. Slots \in Nat
  BY ParamSizes
<1> HIDE DEF v, w, t
<1>5. \A k \in 1..2 : t[k].sector \in Sectors /\ t[k].num \in 0..Slots
  BY <1>1 DEF Entries
<1>6. \A k \in 1..2 : k = v \/ k = w
  BY <1>1
<1>7. ASSUME NEW s \in Usable(part, p)
      PROVE  (s = t[v].sector /\ t[v].num # 0) \/ (s = t[w].sector /\ t[w].num # 0)
  <2>1. PICK k \in 1..2 : Back(p, v, k) < n /\ t[k].sector = s
    BY <1>2
  <2>2. t[k].num # 0
    BY <1>2, <1>4, <2>1
  <2> QED BY <1>6, <2>1, <2>2
<1> QED BY <1>1, <1>2, <1>3, <1>5, <1>7 DEF TwoHold

(* The history is the values of the other one, then those of the last.      *)
TwoPlaces(f, p, h, n, x, y) ==
    /\ Lists(StoredOf(f, p), f, LiveOf(f, p), h, n) /\ n = x.num + y.num
    /\ \A k \in 1..x.num : /\ Addr(x.sector, k) \in LiveOf(f, p)
                           /\ h[Addr(x.sector, k)] = y.num + k - 1
    /\ \A k \in 1..y.num : /\ Addr(y.sector, k) \in LiveOf(f, p)
                           /\ h[Addr(y.sector, k)] = k - 1

LEMMA TwoArePlaced ==
    ASSUME NEW f \in Flash, NEW p \in Params, NEW c, NEW m,
           Held(f, p, Usable(f, p), c, m), NEW x, NEW y, TwoHold(f, p, c, x, y)
    PROVE  \E h, n : TwoPlaces(f, p, h, n, x, y)
<1> DEFINE L == LiveOf(f, p)
           place(a) == IF SectorOf(a) = x.sector
                       THEN y.num + (a % SectorUnits) - 1 ELSE (a % SectorUnits) - 1
           i == [a \in L |-> place(a)]
           r == x.num + y.num
<1>1. PICK h, n : Lists(StoredOf(f, p), f, L, h, n) /\ InOrder(h, f, p, c)
  BY HistoryIs
<1>2. /\ x.num \in 0..Slots /\ y.num \in 0..Slots /\ Slots \in Nat
      /\ x.sector \in Sectors /\ y.sector \in Sectors /\ x.sector # y.sector
  BY ParamSizes DEF TwoHold
<1>3. ASSUME NEW k \in 1..x.num
      PROVE  /\ x.sector \in Usable(f, p) /\ k \in 1..Num(f, x.sector)
             /\ Age(f, x.sector, c) = 0
             /\ Addr(x.sector, k) \in L /\ i[Addr(x.sector, k)] = y.num + k - 1
  <2>1. x.num # 0 /\ k \in 1..Slots /\ k \in 0..Slots
    BY <1>2
  <2>2. /\ x.sector \in Usable(f, p) /\ k \in 1..Num(f, x.sector)
        /\ Age(f, x.sector, c) = 0
    BY <2>1 DEF TwoHold
  <2>3. Addr(x.sector, k) \in L /\ SectorOf(Addr(x.sector, k)) = x.sector
    BY <2>2, LiveHas
  <2>4. Addr(x.sector, k) % SectorUnits = k
    BY <1>2, <2>1, AddrIs
  <2> QED BY <2>2, <2>3, <2>4
<1>4. ASSUME NEW k \in 1..y.num
      PROVE  /\ y.sector \in Usable(f, p) /\ k \in 1..Num(f, y.sector)
             /\ Age(f, y.sector, c) = 1
             /\ Addr(y.sector, k) \in L /\ i[Addr(y.sector, k)] = k - 1
  <2>1. y.num # 0 /\ k \in 1..Slots /\ k \in 0..Slots
    BY <1>2
  <2>2. /\ y.sector \in Usable(f, p) /\ k \in 1..Num(f, y.sector)
        /\ Age(f, y.sector, c) = 1
    BY <2>1 DEF TwoHold
  <2>3. Addr(y.sector, k) \in L /\ SectorOf(Addr(y.sector, k)) = y.sector
    BY <2>2, LiveHas
  <2>4. Addr(y.sector, k) % SectorUnits = k
    BY <1>2, <2>1, AddrIs
  <2> QED BY <1>2, <2>2, <2>3, <2>4
<1>5. ASSUME NEW a \in L
      PROVE  \/ \E k \in 1..x.num : a = Addr(x.sector, k)
             \/ \E k \in 1..y.num : a = Addr(y.sector, k)
  <2>1. PICK s \in Usable(f, p) : \E k \in 1..Num(f, s) : a = Addr(s, k)
    BY LiveIs
  <2> QED BY <2>1 DEF TwoHold
<1>b. i = [a \in L |-> i[a]]
  OBVIOUS
<1> HIDE DEF L, i
<1>6. Numbers(i, L, r)
  <2>1. \A a \in L : i[a] \in 0..(r - 1)
    BY <1>2, <1>3, <1>4, <1>5
  <2>2. ASSUME NEW a \in L, NEW b \in L, i[a] = i[b]
        PROVE  a = b
    <3>1. CASE \E k \in 1..x.num : a = Addr(x.sector, k)
      <4>1. PICK k \in 1..x.num : a = Addr(x.sector, k)
        BY <3>1
      <4>2. CASE \E l \in 1..x.num : b = Addr(x.sector, l)
        BY <1>2, <1>3, <2>2, <4>1, <4>2
      <4>3. CASE \E l \in 1..y.num : b = Addr(y.sector, l)
        BY <1>2, <1>3, <1>4, <2>2, <4>1, <4>3
      <4> QED BY <1>5, <4>2, <4>3
    <3>2. CASE \E k \in 1..y.num : a = Addr(y.sector, k)
      <4>1. PICK k \in 1..y.num : a = Addr(y.sector, k)
        BY <3>2
      <4>2. CASE \E l \in 1..x.num : b = Addr(x.sector, l)
        BY <1>2, <1>3, <1>4, <2>2, <4>1, <4>2
      <4>3. CASE \E l \in 1..y.num : b = Addr(y.sector, l)
        BY <1>2, <1>4, <2>2, <4>1, <4>3
      <4> QED BY <1>5, <4>2, <4>3
    <3> QED BY <1>5, <3>1, <3>2
  <2>3. ASSUME NEW j \in 0..(r - 1)
        PROVE  \E a \in L : i[a] = j
    <3>1. CASE j < y.num
      <4>1. j + 1 \in 1..y.num /\ (j + 1) - 1 = j
        BY <1>2, <2>3, <3>1
      <4>2. Addr(y.sector, j + 1) \in L /\ i[Addr(y.sector, j + 1)] = j
        BY <1>4, <4>1
      <4> QED BY <4>2
    <3>2. CASE ~(j < y.num)
      <4> DEFINE k == (j - y.num) + 1
      <4>1. k \in 1..x.num /\ y.num + k - 1 = j
        BY <1>2, <2>3, <3>2
      <4> HIDE DEF k
      <4>2. Addr(x.sector, k) \in L /\ i[Addr(x.sector, k)] = j
        BY <1>3, <4>1
      <4> QED BY <4>2
    <3> QED BY <3>1, <3>2
  <2>4. i \in [L -> 0..(r - 1)]
    BY <1>b, <2>1
  <2> HIDE DEF r
  <2> QED BY <2>2, <2>3, <2>4 DEF Numbers
<1>7. ASSUME NEW a \in L, NEW b \in L
      PROVE  h[a] < h[b] <=> i[a] < i[b]
  <2>1. CASE \E k \in 1..x.num : a = Addr(x.sector, k)
    <3>1. PICK k \in 1..x.num : a = Addr(x.sector, k)
      BY <2>1
    <3>2. CASE \E l \in 1..x.num : b = Addr(x.sector, l)
      <4>1. PICK l \in 1..x.num : b = Addr(x.sector, l)
        BY <3>2
      <4>2. h[a] < h[b] <=> Sooner(f, c, x.sector, k, x.sector, l)
        BY <1>1, <1>3, <3>1, <4>1 DEF InOrder
      <4>3. i[a] = y.num + k - 1 /\ i[b] = y.num + l - 1
        BY <1>3, <3>1, <4>1
      <4> QED BY <1>2, <1>3, <4>2, <4>3 DEF Sooner
    <3>3. CASE \E l \in 1..y.num : b = Addr(y.sector, l)
      <4>1. PICK l \in 1..y.num : b = Addr(y.sector, l)
        BY <3>3
      <4>2. h[a] < h[b] <=> Sooner(f, c, x.sector, k, y.sector, l)
        BY <1>1, <1>3, <1>4, <3>1, <4>1 DEF InOrder
      <4>3. ~Sooner(f, c, x.sector, k, y.sector, l)
        BY <1>2, <1>3, <1>4 DEF Sooner
      <4>4. i[a] = y.num + k - 1 /\ i[b] = l - 1
        BY <1>3, <1>4, <3>1, <4>1
      <4> QED BY <1>2, <4>2, <4>3, <4>4
    <3> QED BY <1>5, <3>2, <3>3
  <2>2. CASE \E k \in 1..y.num : a = Addr(y.sector, k)
    <3>1. PICK k \in 1..y.num : a = Addr(y.sector, k)
      BY <2>2
    <3>2. CASE \E l \in 1..x.num : b = Addr(x.sector, l)
      <4>1. PICK l \in 1..x.num : b = Addr(x.sector, l)
        BY <3>2
      <4>2. h[a] < h[b] <=> Sooner(f, c, y.sector, k, x.sector, l)
        BY <1>1, <1>3, <1>4, <3>1, <4>1 DEF InOrder
      <4>3. Sooner(f, c, y.sector, k, x.sector, l)
        BY <1>3, <1>4 DEF Sooner
      <4>4. i[a] = k - 1 /\ i[b] = y.num + l - 1
        BY <1>3, <1>4, <3>1, <4>1
      <4> QED BY <1>2, <4>2, <4>3, <4>4
    <3>3. CASE \E l \in 1..y.num : b = Addr(y.sector, l)
      <4>1. PICK l \in 1..y.num : b = Addr(y.sector, l)
        BY <3>3
      <4>2. h[a] < h[b] <=> Sooner(f, c, y.sector, k, y.sector, l)
        BY <1>1, <1>4, <3>1, <4>1 DEF InOrder
      <4>3. i[a] = k - 1 /\ i[b] = l - 1
        BY <1>4, <3>1, <4>1
      <4> QED BY <1>2, <1>4, <4>2, <4>3 DEF Sooner
    <3> QED BY <1>5, <3>2, <3>3
  <2> QED BY <1>5, <2>1, <2>2
<1>8. n = r /\ \A a \in L : h[a] = i[a]
  <2>1. n \in Nat /\ Numbers(h, L, n)
    BY <1>1 DEF Lists
  <2>2. r \in Nat
    BY <1>2
  <2> HIDE DEF r
  <2> QED BY <1>6, <1>7, <2>1, <2>2, SameOrder
<1>9. TwoPlaces(f, p, h, n, x, y)
  BY <1>1, <1>3, <1>4, <1>8 DEF TwoPlaces, L
<1> QED BY <1>9

LEMMA WalkIs ==
    ASSUME OnInv, NEW p \in Params, SecTabSize[p] = 2
    PROVE  Walk(p)[1] = save[p] /\ Walk(p)[2] = NextSave(p)
<1>1. save[p] \in 1..2 /\ NextSave(p) = (save[p] % 2) + 1
  BY CurrentIs DEF NextSave
<1>2. /\ Walk(p)[1] = ((save[p] + 1 - 2) % 2) + 1
      /\ Walk(p)[2] = ((save[p] + 2 - 2) % 2) + 1
  BY DEF Walk
<1>3. save[p] = 1 \/ save[p] = 2
  BY <1>1
<1> QED BY <1>1, <1>2, <1>3

LEMMA PassedIs ==
    ASSUME OnInv, NEW p \in Params, SecTabSize[p] = 2
    PROVE  /\ Passed(p, 0) = 0 /\ Passed(p, 1) = Current(p).num
           /\ Passed(p, 2) = Current(p).num + Other(p).num
<1> DEFINE A == Current(p).num
           B == Other(p).num
           P(j) == {e \in (1..j) \X (1..Slots) : e[2] <= tab[p][Walk(p)[e[1]]].num}
           X == {1} \X (1..A)
           Y == {2} \X (1..B)
<1>1. tab[p][Walk(p)[1]].num = A /\ tab[p][Walk(p)[2]].num = B
  BY WalkIs DEF Current, Other
<1>2. A \in 0..Slots /\ B \in 0..Slots /\ Slots \in Nat
  <2>1. Current(p) \in Entries /\ Other(p) \in Entries
    BY CurrentIs DEF Other
  <2> QED BY <2>1, ParamSizes DEF Entries
<1>3. \A j : Passed(p, j) = Cardinality(P(j))
  BY DEF Passed
<1> HIDE DEF A, B
<1>4. P(0) = {}
  OBVIOUS
<1>5. P(1) = X
  <2>1. ASSUME NEW e \in P(1)
        PROVE  e \in X
    <3>1. PICK j \in 1..1, k \in 1..Slots : e = <<j, k>>
      OBVIOUS
    <3>2. j = 1 /\ k <= A
      BY <1>1, <3>1
    <3> QED BY <1>2, <3>1, <3>2
  <2>2. ASSUME NEW k \in 1..A
        PROVE  <<1, k>> \in P(1)
    <3>1. k \in 1..Slots /\ k <= A /\ 1 \in 1..1
      BY <1>2
    <3> QED BY <1>1, <3>1
  <2> QED BY <2>1, <2>2
<1>6. P(2) = X \cup Y
  <2>1. ASSUME NEW e \in P(2)
        PROVE  e \in X \cup Y
    <3>1. PICK j \in 1..2, k \in 1..Slots : e = <<j, k>>
      OBVIOUS
    <3>2. (j = 1 /\ k <= A) \/ (j = 2 /\ k <= B)
      BY <1>1, <3>1
    <3> QED BY <1>2, <3>1, <3>2
  <2>2. ASSUME NEW k \in 1..A
        PROVE  <<1, k>> \in P(2)
    <3>1. k \in 1..Slots /\ k <= A /\ 1 \in 1..2
      BY <1>2
    <3> QED BY <1>1, <3>1
  <2>3. ASSUME NEW k \in 1..B
        PROVE  <<2, k>> \in P(2)
    <3>1. k \in 1..Slots /\ k <= B /\ 2 \in 1..2
      BY <1>2
    <3> QED BY <1>1, <3>1
  <2> QED BY <2>1, <2>2, <2>3
<1>7. /\ IsFiniteSet(X) /\ Cardinality(X) = A
      /\ IsFiniteSet(Y) /\ Cardinality(Y) = B
  <2>1. A \in Nat /\ B \in Nat
    BY <1>2
  <2>2. IsFiniteSet(X) /\ Cardinality(X) = A
    BY <2>1, RowCount
  <2>3. IsFiniteSet(Y) /\ Cardinality(Y) = B
    BY <2>1, RowCount
  <2> QED BY <2>2, <2>3
<1>8. X \cap Y = {}
  OBVIOUS
<1> HIDE DEF P, X, Y
<1>9. Cardinality(X \cup Y) = A + B
  <2>1. Cardinality(X \cup Y)
          = Cardinality(X) + Cardinality(Y) - Cardinality(X \cap Y)
    BY <1>7, FS_Union
  <2>2. Cardinality(X \cap Y) = 0
    BY <1>8, FS_EmptySet
  <2> QED BY <1>2, <1>7, <2>1, <2>2
<1>10. Cardinality(P(0)) = 0
  BY <1>4, FS_EmptySet
<1> QED BY <1>3, <1>5, <1>6, <1>7, <1>9, <1>10 DEF A, B

LEMMA HistoryRead ==
    ASSUME OnInv, NEW p \in Params, SecTabSize[p] = 2, Counts(part, p, tab[p]),
           NEW i \in 0..Len(Stored(p))
    PROVE  param_read_history(p, i) =
             IF i < Len(Stored(p)) THEN Stored(p)[Len(Stored(p)) - i] ELSE "no_data"
<1> DEFINE x == Current(p)
           y == Other(p)
           A == x.num
           B == y.num
           st == StoredOf(part, p)
<1>1. PICK c, m : Tabled(part, p, tab[p], save[p], c, m)
  BY TabledBefore
<1>2. TwoHold(part, p, c, x, y)
  BY <1>1, TwoAre
<1>3. part \in Flash /\ Held(part, p, Usable(part, p), c, m)
  BY <1>1, CurrentIs DEF Tabled
<1> HIDE DEF x, y
<1>4. PICK h, n : TwoPlaces(part, p, h, n, x, y)
  BY <1>2, <1>3, TwoArePlaced
<1>5. A \in Nat /\ B \in Nat
  BY <1>2, ParamSizes DEF TwoHold
<1>6. /\ Stored(p) = st /\ Len(st) = A + B /\ i \in 0..(A + B)
      /\ \A a \in LiveOf(part, p) : st[h[a] + 1] = part[a] /\ part[a] \in Values
  <2>1. Stored(p) = st
    BY StoredIs
  <2>2. /\ Len(st) = A + B
        /\ \A a \in LiveOf(part, p) : st[h[a] + 1] = part[a]
    BY <1>4 DEF TwoPlaces, Lists
  <2>3. \A a \in LiveOf(part, p) : part[a] \in Values
    BY DEF LiveOf
  <2> QED BY <2>1, <2>2, <2>3
<1>7. /\ Passed(p, 0) = 0 /\ Passed(p, 1) = A /\ Passed(p, 2) = A + B
      /\ tab[p][Walk(p)[1]] = x /\ tab[p][Walk(p)[2]] = y
  BY PassedIs, WalkIs DEF x, y, Current, Other
<1> DEFINE J == CHOOSE j \in 1..2 : Passed(p, j - 1) <= i /\ i < Passed(p, j)
           e == tab[p][Walk(p)[J]]
           a == Addr(e.sector, e.num - (i - Passed(p, J - 1)))
<1>8. param_read_history(p, i) =
        IF i >= A + B THEN "no_data"
        ELSE IF part[a] \in Values THEN part[a] ELSE "crc_err"
  BY <1>7 DEF param_read_history
<1> HIDE DEF A, B, st
<1>9. CASE i = A + B
  BY <1>5, <1>6, <1>8, <1>9
<1>10. CASE i < A
  <2>1. J = 1
    <3>1. /\ 1 \in 1..2 /\ Passed(p, 1 - 1) <= i /\ i < Passed(p, 1)
      BY <1>5, <1>6, <1>7, <1>10
    <3>2. \A j \in 1..2 : Passed(p, j - 1) <= i /\ i < Passed(p, j) => j = 1
      <4>1. ~(Passed(p, 2 - 1) <= i)
        BY <1>5, <1>6, <1>7, <1>10
      <4> QED BY <4>1
    <3> QED BY <3>1, <3>2
  <2> HIDE DEF J
  <2>2. a = Addr(x.sector, A - i)
    <3>1. e = x /\ Passed(p, J - 1) = 0
      BY <1>7, <2>1
    <3>2. x.num - (i - 0) = A - i
      BY <1>5, <1>6 DEF A
    <3> QED BY <3>1, <3>2
  <2> HIDE DEF a
  <2>3. A - i \in 1..A /\ i < A + B /\ ~(i >= A + B)
    BY <1>5, <1>6, <1>10
  <2>4. a \in LiveOf(part, p) /\ h[a] = B + (A - i) - 1
    BY <1>4, <2>2, <2>3 DEF TwoPlaces, A, B
  <2>5. h[a] + 1 = (A + B) - i
    BY <1>5, <1>6, <2>4
  <2>6. st[(A + B) - i] = part[a] /\ part[a] \in Values
    BY <1>6, <2>4, <2>5
  <2> QED BY <1>6, <1>8, <2>3, <2>6
<1>11. CASE i < A + B /\ ~(i < A)
  <2>1. J = 2
    <3>1. /\ 2 \in 1..2 /\ Passed(p, 2 - 1) <= i /\ i < Passed(p, 2)
      BY <1>5, <1>6, <1>7, <1>11
    <3>2. \A j \in 1..2 : Passed(p, j - 1) <= i /\ i < Passed(p, j) => j = 2
      <4>1. ~(i < Passed(p, 1))
        BY <1>5, <1>6, <1>7, <1>11
      <4> QED BY <4>1
    <3> QED BY <3>1, <3>2
  <2> HIDE DEF J
  <2>2. a = Addr(y.sector, (A + B) - i)
    <3>1. e = y /\ Passed(p, J - 1) = A
      BY <1>7, <2>1
    <3>2. y.num - (i - A) = (A + B) - i
      BY <1>5, <1>6 DEF B
    <3> QED BY <3>1, <3>2
  <2> HIDE DEF a
  <2>3. (A + B) - i \in 1..B /\ ~(i >= A + B)
    BY <1>5, <1>6, <1>11
  <2>4. a \in LiveOf(part, p) /\ h[a] = ((A + B) - i) - 1
    BY <1>4, <2>2, <2>3 DEF TwoPlaces, B
  <2>5. h[a] + 1 = (A + B) - i
    BY <1>5, <1>6, <2>4
  <2>6. st[(A + B) - i] = part[a] /\ part[a] \in Values
    BY <1>6, <2>4, <2>5
  <2> QED BY <1>6, <1>8, <1>11, <2>3, <2>6
<1> QED BY <1>5, <1>6, <1>9, <1>10, <1>11

(* What flash_param_read_history returns is what is in flash, newest first, *)
(* for every number of parameters, slots and values and wherever power      *)
(* fails, as long as appending is not torn and a table has two sectors: of  *)
(* three the run FlashParamHistory reads them in the wrong order.           *)
THEOREM HistoryIsRead ==
    AppendTears = FALSE /\ (\A p \in Params : SecTabSize[p] = 2)
        => (Spec => []HistoryNewestFirst)
<1> SUFFICES ASSUME AppendTears = FALSE, \A p \in Params : SecTabSize[p] = 2
             PROVE  Spec => []HistoryNewestFirst
  OBVIOUS
<1>1. Init => CountInv
  BY CountStart
<1>2. CountInv /\ [Next]_vars => CountInv'
  BY CountStep
<1>3. CountInv => HistoryNewestFirst
  <2> SUFFICES ASSUME CountInv, on
               PROVE  \A p \in Params : \A i \in 0..Len(Stored(p)) :
                         param_read_history(p, i) =
                           IF i < Len(Stored(p)) THEN Stored(p)[Len(Stored(p)) - i]
                           ELSE "no_data"
    BY DEF HistoryNewestFirst
  <2>1. OnInv /\ \A p \in Params : Counts(part, p, tab[p])
    BY DEF CountInv, ParamInv, OnInv
  <2> QED BY <2>1, HistoryRead
<1> QED BY <1>1, <1>2, <1>3, PTL DEF Spec
=============================================================================

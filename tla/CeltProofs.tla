----------------------------- MODULE CeltProofs -----------------------------
(***************************************************************************)
(* The proofs about CELT frames: for every clip, both ends read and write  *)
(* the same symbols, keep the same energies, undo each other's pitch       *)
(* filters, and concealment never raises a band. The bands' bits come      *)
(* first; then the story of a frame, from its header to its last bit, as a *)
(* function of what the encoder decided; then the invariant (FrameInv),    *)
(* which says at each stage how far the story is told and how far it is    *)
(* read, and what both ends keep of it; then one lemma per action, and the *)
(* theorems.                                                               *)
(***************************************************************************)
EXTENDS CeltLemmas

-----------------------------------------------------------------------------
(* The size of a frame of variable rate.                                    *)

(* What the encoder keeps, as far as its sizes need it.                     *)
EncKept(s) ==
    /\ s = [e |-> s.e, pitch |-> s.pitch, delayed |-> s.delayed, transients |-> s.transients,
            reservoir |-> s.reservoir, drift |-> s.drift, offset |-> s.offset, count |-> s.count]
    /\ s.e \in Energies /\ s.reservoir \in Nat /\ s.drift \in Int /\ s.offset \in Int /\ s.count \in Nat

(* What is asked of a frame.                                                *)
Rated(f) == f.vbr \in Nat /\ f.asks \in Int /\ f.lm \in 0..3 /\ f.tell0 \in Nat

(* The difference to the longest frame is a shift of 0 to 3.                *)
LEMMA LmDiffs == ASSUME NEW f, f.lm \in 0..3 PROVE LmDiff(f) \in 0..3 /\ LmDiff(f) \in 0..8
<1>1. f.lm = 0 \/ f.lm = 1 \/ f.lm = 2 \/ f.lm = 3
  OBVIOUS
<1> QED
  BY <1>1 DEF LmDiff

(* Division keeps integers and their sign.                                  *)
LEMMA Dividing ==
  ASSUME NEW a \in Int, NEW m \in Nat, m >= 1
  PROVE  a \div m \in Int /\ (a >= 0 => a \div m >= 0)
<1> QED
  OBVIOUS

(* The target of variable rate is an integer.                               *)
LEMMA TargetInt ==
  ASSUME NEW f, Rated(f), tape.channels \in 1..2, EncKept(encst)
  PROVE  Target(f) \in Int
<1>1. Pow2(LmDiff(f)) \in Nat /\ Pow2(LmDiff(f)) >= 1
  BY LmDiffs, Powers DEF Rated
<1>2. encst.offset \in Int
  BY DEF EncKept
<1>3. encst.offset \div Pow2(LmDiff(f)) \in Int
  BY <1>1, <1>2, Dividing
<1> DEFINE o == encst.offset \div Pow2(LmDiff(f))
           n == tape.channels
           b == BaseTarget(f)
<1>4. b = (IF Hybrid(f) THEN MaxOf(0, f.vbr - 8 * (9 * n + 4)) ELSE f.vbr - 8 * (40 * n + 20)) + o
  BY DEF BaseTarget
<1>5. o \in Int /\ n \in Int /\ f.vbr \in Int /\ f.asks \in Int
  BY <1>3 DEF Rated
<1> HIDE DEF o, n, b
<1>6. b \in Int
  BY <1>4, <1>5 DEF MaxOf
<1>7. (2 * f.asks) \div 3 \in Int
  BY <1>5
<1> QED
  BY <1>5, <1>6, <1>7 DEF Target, MinOf, b

(* The cap on a frame's size is a size, no larger than the buffer.          *)
LEMMA CapNat ==
  ASSUME NEW f, f.lm \in 0..3, NEW x, x.bytes \in Nat
  PROVE  CapBytes(f, x) \in Nat /\ CapBytes(f, x) <= x.bytes
<1>1. Pow2(LmDiff(f)) \in Nat /\ Pow2(LmDiff(f)) >= 1
  BY LmDiffs, Powers
<1> DEFINE c == 1275 \div Pow2(LmDiff(f))
<1>2. c \in Int /\ c >= 0
  BY <1>1, Dividing
<1>3. CapBytes(f, x) = MinOf(x.bytes, c)
  BY DEF CapBytes, Longest
<1> HIDE DEF c
<1> QED
  BY <1>2, <1>3 DEF MinOf

(* The least that is allowed covers what is coded and promised.             *)
LEMMA MinAllowedCovers ==
  ASSUME NEW f, Rated(f), NEW x, Coder(x), NEW boosted \in Nat
  PROVE  MinAllowed(f, x, boosted) \in Int /\ x.frac + boosted + 128 <= 64 * MinAllowed(f, x, boosted)
<1>1. x.frac \in Nat /\ f.tell0 \in Nat
  BY DEF Coder, Rated
<1> DEFINE n == x.frac + boosted
           h == IF Hybrid(f) THEN (f.tell0 + 8 * 37 + boosted + 63) \div 64 ELSE 0
           m == MinAllowed(f, x, boosted)
<1>2. n \in Nat
  BY <1>1
<1>3. h \in Int
  <2>1. (f.tell0 + 8 * 37 + boosted + 63) \div 64 \in Int
    BY <1>1
  <2> QED
    BY <2>1
<1>4. m = MaxOf(((n + 63) \div 64) + 2, h)
  BY DEF MinAllowed
<1> HIDE DEF n, h, m
<1>5. (n + 63) \div 64 \in Int /\ n <= 64 * ((n + 63) \div 64)
  BY <1>2
<1>6. m \in Int /\ n + 128 <= 64 * m
  BY <1>2, <1>3, <1>4, <1>5 DEF MaxOf
<1> QED
  BY <1>6 DEF n, m

(* The size chosen is that or the whole, and the state it leaves is sound.  *)
SizeIs(f, x, boosted, size, B) ==
    /\ size = Available(f, x, boosted) /\ B = SizeChosen(f, x, size)

(* The size chosen affords what is coded and boosted, with the sixteen      *)
(* bytes' margin that makes the guards agree.                               *)
LEMMA SizeAffords ==
  ASSUME NEW f, Rated(f), tape.channels \in 1..2, EncKept(encst), NEW x, Coder(x), x.bytes >= 2, NEW boosted \in Nat,
         CapBytes(f, x) = x.bytes \/ MinAllowed(f, x, boosted) <= CapBytes(f, x),
         NEW size, NEW B, SizeIs(f, x, boosted, size, B)
  PROVE  /\ size \in Int /\ B \in Nat /\ 2 <= B /\ B <= x.bytes
         /\ Afford(x.frac, boosted, x.bytes, B)
<1> DEFINE c == CapBytes(f, x)
           m == MinAllowed(f, x, boosted)
           t == (Target(f) + x.frac + 32) \div 64
           o == Overdrawn(f, size) \div 64
           n == x.frac + boosted
<1>1. x.frac \in Nat /\ x.bytes \in Nat
  BY DEF Coder
<1>2. c \in Nat /\ c <= x.bytes
  BY <1>1, CapNat DEF Rated
<1>3. m \in Int /\ n + 128 <= 64 * m
  BY MinAllowedCovers
<1>4. t \in Int
  <2>1. Target(f) \in Int
    BY TargetInt
  <2> DEFINE a == Target(f) + x.frac + 32
  <2>2. a \in Int
    BY <1>1, <2>1
  <2> HIDE DEF a
  <2>3. a \div 64 \in Int
    BY <2>2
  <2> QED
    BY <2>3 DEF a
<1>5. size = MinOf(MaxOf(t, m), c)
  BY DEF SizeIs, Available
<1> HIDE DEF c, m, t
<1>6. size \in Int
  BY <1>2, <1>3, <1>4, <1>5 DEF MinOf, MaxOf
<1>7. o \in Int /\ o >= 0
  <2>1. Overdrawn(f, size) \in Int /\ Overdrawn(f, size) >= 0
    BY <1>6 DEF Overdrawn, MaxOf, Rated, EncKept
  <2> QED
    BY <2>1
<1>8. B = MaxOf(2, MinOf(c, size + o))
  BY DEF SizeIs, SizeChosen, c
<1>9. c = x.bytes \/ m <= c
  BY DEF c, m
<1> HIDE DEF o
<1>10. B \in Nat /\ 2 <= B /\ B <= x.bytes /\ (B = x.bytes \/ m <= B)
  BY <1>1, <1>2, <1>3, <1>4, <1>5, <1>6, <1>7, <1>8, <1>9 DEF MinOf, MaxOf
<1>11. B = x.bytes \/ n + 128 <= 64 * B
  BY <1>1, <1>3, <1>10
<1> QED
  BY <1>6, <1>10, <1>11 DEF Afford

(* A quotient towards zero is an integer.                                   *)
LEMMA QuotInt ==
  ASSUME NEW a \in Int, NEW b \in Nat, b >= 1
  PROVE  Quot(a, b) \in Int
<1>1. a \div b \in Int /\ (-a) \div b \in Int
  BY Dividing
<1> QED
  BY <1>1 DEF Quot

(* The reservoir settled keeps the rest of the encoder.                     *)
LEMMA SettledKept ==
  ASSUME NEW f, Rated(f), EncKept(encst), NEW delta \in Int, NEW size \in Int
  PROVE  EncKept(Settled(f, delta, size)) /\ Settled(f, delta, size).e = encst.e
         /\ Settled(f, delta, size).pitch = encst.pitch
<1>0. f.vbr \in Int
  BY DEF Rated
<1> DEFINE count == MinOf(970, encst.count + 1)
           pull == delta * Pow2(LmDiff(f)) - encst.offset - encst.drift
           drift == encst.drift + (IF count < 970 THEN Quot(pull, count + 20) ELSE Quot(pull, 1000))
           res == MaxOf(0, encst.reservoir + 64 * size - f.vbr)
<1>1. PICK a, b, c, d, g, h, i, j : encst = [e |-> a, pitch |-> b, delayed |-> c, transients |-> d,
            reservoir |-> g, drift |-> h, offset |-> i, count |-> j]
  BY DEF EncKept
<1>2. a \in Energies /\ g \in Nat /\ h \in Int /\ i \in Int /\ j \in Nat
  BY <1>1 DEF EncKept
<1>3. count \in Nat
  BY <1>1, <1>2 DEF MinOf
<1>4. pull \in Int
  <2>1. Pow2(LmDiff(f)) \in Int
    BY LmDiffs, Powers DEF Rated
  <2> DEFINE m == Pow2(LmDiff(f))
  <2> HIDE DEF m
  <2>2. \A u, v \in Int : u * v \in Int
    OBVIOUS
  <2>3. delta * m \in Int
    BY <2>1, <2>2 DEF m
  <2> QED
    BY <1>1, <1>2, <2>3 DEF m
<1> HIDE DEF count, pull
<1>5. drift \in Int
  <2>1. Quot(pull, count + 20) \in Int /\ Quot(pull, 1000) \in Int
    <3>1. \A k \in Nat : k + 20 \in Nat /\ k + 20 >= 1 /\ 1000 \in Nat /\ 1000 >= 1
      OBVIOUS
    <3>2. count \in Nat
      BY <1>3
    <3> QED
      BY <1>4, <3>1, <3>2, QuotInt
  <2> QED
    BY <1>1, <1>2, <2>1
<1>6. res \in Nat
  BY <1>0, <1>1, <1>2 DEF MaxOf
<1> HIDE DEF drift, res
<1> DEFINE z == Settled(f, delta, size)
<1>7. z = [encst EXCEPT !.count = count, !.drift = drift, !.offset = -drift, !.reservoir = res]
  BY DEF Settled, count, pull, drift, res
<1> HIDE DEF z
<1>8. z = [e |-> a, pitch |-> b, delayed |-> c, transients |-> d,
            reservoir |-> res, drift |-> drift, offset |-> -drift, count |-> count]
  BY <1>1, <1>7
<1>9. -drift \in Int
  BY <1>5
<1>10. EncKept(z) /\ z.e = encst.e /\ z.pitch = encst.pitch
  <2> DEFINE v == -drift
  <2> HIDE DEF v
  <2>1. z = [e |-> a, pitch |-> b, delayed |-> c, transients |-> d,
            reservoir |-> res, drift |-> drift, offset |-> v, count |-> count]
    BY <1>8 DEF v
  <2> QED
    BY <1>1, <1>2, <1>3, <1>5, <1>6, <1>9, <2>1 DEF EncKept, v
<1> QED
  BY <1>10 DEF z

-----------------------------------------------------------------------------
(* The bits of the bands.                                                   *)
LEMMA NatProduct == \A a, b \in Nat : a * b \in Nat
OBVIOUS

(* Division is monotonic.                                                   *)
LEMMA Divided ==
  ASSUME NEW a \in Int, NEW m \in Nat, m >= 1
  PROVE  a \div m \in Int /\ m * (a \div m) <= a /\ a < m * (a \div m) + m
<1> QED
  OBVIOUS

(* Division keeps the order.                                                *)
LEMMA DividedLess ==
  ASSUME NEW a \in Int, NEW b \in Int, a <= b, NEW m \in Nat, m >= 1
  PROVE  a \div m <= b \div m
<1> DEFINE q == a \div m
           r == b \div m
<1>1. q \in Int /\ r \in Int /\ m * q <= a /\ b < m * r + m
  BY Divided
<1> HIDE DEF q, r
<1>2. ASSUME q > r PROVE FALSE
  <2> DEFINE d == q - r - 1
  <2>1. d \in Nat
    BY <1>1, <1>2
  <2>2. m * d \in Nat
    BY <2>1, NatProduct
  <2>3. m * d = m * q - m * r - m
    BY <1>1
  <2> DEFINE u == m * q
             v == m * r
             w == m * d
  <2>4. u \in Int /\ v \in Int
    <3>1. \A i \in Nat, j \in Int : i * j \in Int
      OBVIOUS
    <3> QED
      BY <1>1, <3>1
  <2>5. w \in Nat /\ w = u - v - m /\ u <= a /\ b < v + m
    BY <1>1, <2>2, <2>3
  <2> HIDE DEF u, v, w, d
  <2> QED
    BY <2>4, <2>5
<1> QED
  BY <1>1, <1>2 DEF q, r

(* The most fine bits a band gets of avail eighths, shared by n.            *)
Share(avail, n) == (2 * MaxOf(avail, 0)) \div (24 * n)
Most(avail, n) == Clamp(Share(avail, n), 0, MAX_FINE_BITS)

(* The most fine bits a band may have cost no more than the frame has.      *)
LEMMA MostIs ==
  ASSUME NEW avail \in Int, NEW n \in 1..42
  PROVE  /\ Most(avail, n) \in 0..8 /\ 24 * Most(avail, n) * n <= 2 * MaxOf(avail, 0)
         /\ Share(avail, n) \in Int
<1> DEFINE a == 2 * MaxOf(avail, 0)
           m == 24 * n
           q == Share(avail, n)
           k == Most(avail, n)
<1>1. a \in Nat /\ m \in Nat /\ m >= 1
  BY DEF MaxOf
<1>2. q = a \div m /\ k = Clamp(q, 0, 8)
  BY DEF Share, Most, MAX_FINE_BITS
<1> HIDE DEF a, q, k
<1>3. q \in Int /\ q >= 0 /\ m * q <= a
  <2> HIDE DEF m
  <2>1. a \in Int
    BY <1>1
  <2> QED
    BY <1>1, <1>2, <2>1, Dividing, Divided
<1>4. k \in 0..8 /\ k <= q
  BY <1>2, <1>3 DEF Clamp, MaxOf, MinOf
<1>5. 24 * k * n <= a
  <2> DEFINE d == q - k
  <2>1. d \in Nat /\ k \in Nat /\ q \in Nat
    BY <1>3, <1>4
  <2>2. m * d \in Nat
    BY <1>1, <2>1, NatProduct
  <2>3. m * d = m * q - m * k
    BY <2>1
  <2>4. m * k = 24 * k * n
    BY <2>1
  <2> DEFINE u == m * q
             v == m * k
             w == m * d
  <2>5. u \in Nat /\ v \in Nat
    BY <1>1, <2>1, NatProduct
  <2>6. w \in Nat /\ w = u - v /\ u <= a
    BY <1>3, <2>2, <2>3
  <2> HIDE DEF u, v, w, d, m
  <2>7. v <= a
    BY <1>1, <2>5, <2>6
  <2> QED
    BY <2>4, <2>7 DEF v
<1> QED
  BY <1>3, <1>4, <1>5 DEF a, q, k

(* A band's share of the bits is no more than the even share.               *)
LEMMA ShareOf ==
  ASSUME NEW avail \in Int, avail >= -1, NEW trim \in 0..10, NEW b \in Nat, NEW n \in 1..42
  PROVE  /\ ((avail * (trim + 6)) \div 16 + MinOf(avail, b)) \div (24 * n) <= Share(avail, n)
         /\ ((avail * (trim + 6)) \div 16 + MinOf(avail, b)) \div (24 * n) \in Int
<1> DEFINE t == trim + 6
           w == avail * t
           g == w \div 16
           s == g + MinOf(avail, b)
           a == 2 * MaxOf(avail, 0)
           m == 24 * n
<1>1. w \in Int /\ (avail >= 0 => w <= 16 * avail) /\ (avail = -1 => w <= 0)
  <2>1. t = 6 \/ t = 7 \/ t = 8 \/ t = 9 \/ t = 10 \/ t = 11 \/ t = 12 \/ t = 13 \/ t = 14 \/ t = 15 \/ t = 16
    OBVIOUS
  <2> HIDE DEF t
  <2> QED
    BY <2>1
<1> HIDE DEF w
<1>2. g \in Int /\ (avail >= 0 => g <= avail) /\ (avail = -1 => g <= 0)
  BY <1>1
<1> HIDE DEF g
<1>3. s \in Int /\ a \in Int /\ s <= a
  BY <1>2 DEF MinOf, MaxOf
<1>4. m \in Nat /\ m >= 1
  OBVIOUS
<1> HIDE DEF s, a, m
<1>5. s \div m <= a \div m /\ s \div m \in Int
  BY <1>3, <1>4, DividedLess, Dividing
<1> QED
  BY <1>5 DEF s, a, m, g, w, t, Share

(* Fine bits are bounded by a share of what is available.                   *)
LEMMA FineBounded ==
  ASSUME NEW p, BandParams(p), NEW avail \in Int, avail >= -1, NEW trim \in 0..10,
         NEW boosts \in Seq(Nat), Len(boosts) = p.end - p.start
  PROVE  /\ Bounded(FineBits(p, avail, boosts, trim), Most(avail, Steps(p)))
         /\ Steps(p) \in 1..42
<1>0. p.start \in 0..20 /\ p.end \in 1..21 /\ p.start < p.end /\ p.channels \in 1..2
  BY DEF BandParams, NbBands
<1>1. Steps(p) \in 1..42
  <2>1. p.channels = 1 \/ p.channels = 2
    BY <1>0
  <2> DEFINE h == p.end - p.start
  <2>2. h \in 1..21
    BY <1>0, SMTT(30)
  <2>3. Steps(p) = h \/ Steps(p) = 2 * h
    BY <2>1, <2>2 DEF Steps
  <2>4. Steps(p) \in Nat /\ Steps(p) <= 42
    <3>1. 0 \in Nat
      OBVIOUS
    <3> QED
      BY <3>1, BandsOf
  <2> DEFINE m == Steps(p)
  <2> HIDE DEF h, m
  <2>5. m >= 1
    <3>1. m \in Nat /\ m <= 42 /\ (m = h \/ m = 2 * h)
      BY <2>3, <2>4 DEF m
    <3> QED
      BY <2>2, <3>1
  <2>6. m \in Nat /\ m <= 42
    BY <2>4 DEF m
  <2>7. m \in 1..42
    BY <2>5, <2>6
  <2> QED
    BY <2>7 DEF m
<1> DEFINE n == Steps(p)
           bits == FineBits(p, avail, boosts, trim)
<1>2. Most(avail, n) \in 0..8 /\ Share(avail, n) \in Int
  BY <1>1, MostIs
<1>3. ASSUME NEW i \in 1..NbBands PROVE bits[i] \in 0..Most(avail, n)
  <2>1. CASE i - 1 \in p.start..(p.end - 1)
    <3> DEFINE b == boosts[i - p.start]
               q == ((avail * (trim + 6)) \div 16 + MinOf(avail, b)) \div (24 * p.channels * (p.end - p.start))
    <3>1. i - p.start \in 1..Len(boosts)
      <4> DEFINE a == p.start
                 z == p.end
                 l == Len(boosts)
      <4>1. a \in 0..20 /\ z \in 1..21 /\ i \in 1..21 /\ i - 1 \in a..(z - 1) /\ l = z - a
        BY <1>0, <2>1 DEF NbBands
      <4> HIDE DEF a, z, l
      <4>2. i - a \in 1..l
        BY <4>1
      <4> QED
        BY <4>2 DEF a, l
    <3>2. b \in Nat
      BY <3>1
    <3>3. 24 * p.channels * (p.end - p.start) = 24 * n
      <4> DEFINE c == p.channels
                 h == p.end - p.start
      <4>1. c \in Int /\ h \in Int /\ n = c * h
        BY <1>0 DEF Steps
      <4> HIDE DEF c, h
      <4>2. 24 * c * h = 24 * (c * h)
        BY <4>1
      <4> QED
        BY <4>1, <4>2 DEF c, h
    <3>4. q <= Share(avail, n) /\ q \in Int
      <4> HIDE DEF b, n
      <4> QED
        BY <1>1, <3>2, <3>3, ShareOf DEF n
    <3>5. bits[i] = Clamp(q, 0, 8)
      BY <2>1 DEF FineBits, MAX_FINE_BITS
    <3>6. Most(avail, n) = Clamp(Share(avail, n), 0, 8)
      BY DEF Most, MAX_FINE_BITS
    <3> DEFINE s == Share(avail, n)
    <3> HIDE DEF q, s, bits
    <3>7. Clamp(q, 0, 8) \in 0..Clamp(s, 0, 8)
      <4>1. s \in Int
        BY <1>2 DEF s
      <4> QED
        BY <3>4, <4>1 DEF Clamp, MaxOf, MinOf, s
    <3> QED
      BY <3>5, <3>6, <3>7 DEF s
  <2>2. CASE ~(i - 1 \in p.start..(p.end - 1))
    <3>1. bits[i] = 0
      BY <2>2 DEF FineBits
    <3> QED
      BY <1>2, <3>1
  <2> QED
    BY <2>1, <2>2
<1> QED
  BY <1>1, <1>2, <1>3 DEF Bounded

-----------------------------------------------------------------------------
(* The bands of a frame, written: w is what the encoder chose of it.        *)
BandReserve(x, p, w) == AntiCollapse(x, p, w.transient)
BandAvail(x, p, w) == AllocBits(x, p, w.transient)
BandBits(x, p, w) == FineBits(p, BandAvail(x, p, w), w.boosts, w.trim)
AllocCoded(x, p, w) ==
    PutSym(x, "alloc", AllocContext(p, BandAvail(x, p, w), w.boosts, w.trim), 1, AllocCost(BandAvail(x, p, w)))
FineOpen(x, p, w) == [rc |-> AllocCoded(x, p, w), e |-> w.s.e, error |-> w.s.error]
FineCoded(x, p, w) == quant_fine_energy(FineOpen(x, p, w), p, BandBits(x, p, w))
ShapesCoded(x, p, w, spare) ==
    PutSym(FineCoded(x, p, w).rc, "shapes", ShapesContext(FineCoded(x, p, w).rc, w, BandBits(x, p, w)), 1,
           ShapesCost(FineCoded(x, p, w).rc, spare, BandReserve(x, p, w)))
SettledCoded(x, p, w, spare, flag) ==
    IF BandReserve(x, p, w) > 0 THEN EncRaw(ShapesCoded(x, p, w, spare), flag, 1) ELSE ShapesCoded(x, p, w, spare)
BandsCoded(x, p, w, spare, flag) ==
    quant_energy_finalise([FineCoded(x, p, w) EXCEPT !.rc = SettledCoded(x, p, w, spare, flag)], p, BandBits(x, p, w),
                          Priorities(BandAvail(x, p, w)),
                          TotalBits(SettledCoded(x, p, w, spare, flag)) - TellBits(SettledCoded(x, p, w, spare, flag)))

(* What is chosen of a frame before its bands.                              *)
Choices(p, w) ==
    /\ w.transient \in BOOLEAN /\ w.trim \in 0..10 /\ w.boosts \in Seq(Nat) /\ Len(w.boosts) = p.end - p.start
    /\ w.s.e \in Energies /\ w.s.error \in Energies

BandsReady(x, p, w, spare, flag) ==
    Coder(x) /\ BandParams(p) /\ TellBits(x) <= TotalBits(x) /\ Choices(p, w) /\ spare \in Nat

(* Where the bits go: before the fine energies, after them, and after the   *)
(* shapes.                                                                  *)
BandRoom(x, p, w) ==
    /\ BandReserve(x, p, w) \in {0, 8} /\ BandAvail(x, p, w) \in Int /\ BandAvail(x, p, w) >= -1
    /\ x.frac + BandAvail(x, p, w) + 1 + BandReserve(x, p, w) = 8 * TotalBits(x)
    /\ BandReserve(x, p, w) = 8 => BandAvail(x, p, w) >= 23

(* The bits left for the bands leave room for the flags that follow.        *)
LEMMA BandRoomIs ==
  ASSUME NEW x, Coder(x), NEW p, BandParams(p), TellBits(x) <= TotalBits(x), NEW w, w.transient \in BOOLEAN
  PROVE  BandRoom(x, p, w)
<1> DEFINE r == BandReserve(x, p, w)
           a == BandAvail(x, p, w)
           t == TotalBits(x)
<1>1. x.frac \in Nat /\ t \in Nat /\ x.frac <= 8 * t
  BY CoderCounts, EighthsFit
<1>2. p.lm \in 0..3
  BY DEF BandParams
<1>3. r \in {0, 8} /\ (r = 8 => 8 * t - x.frac - 1 >= 32)
  BY <1>1, <1>2 DEF BandReserve, AntiCollapse
<1>4. a = 8 * t - x.frac - 1 - r
  BY DEF BandAvail, AllocBits, BandReserve
<1> HIDE DEF r, a, t
<1>5. r = 0 \/ r = 8
  BY <1>3
<1>6. a \in Int /\ a >= -1 /\ x.frac + a + 1 + r = 8 * t /\ (r = 8 => a >= 23)
  BY <1>1, <1>3, <1>4, <1>5
<1> QED
  BY <1>3, <1>6 DEF BandRoom, r, a, t

(* A flag of the allocation costs a bit, where there are eight.             *)
LEMMA AllocCosts == ASSUME NEW a \in Int PROVE AllocCost(a) \in {0, 8} /\ (AllocCost(a) = 8 => a > 64) /\ AllocCost(a) \in Nat
BY DEF AllocCost

(* Fine energies leave the reserve.                                         *)
FineLeaves(x, p, w) ==
    /\ Coder(AllocCoded(x, p, w)) /\ FineState(FineOpen(x, p, w)) /\ FineState(FineCoded(x, p, w))
    /\ Grows(x, AllocCoded(x, p, w)) /\ Grows(AllocCoded(x, p, w), FineCoded(x, p, w).rc)
    /\ FineCoded(x, p, w).rc.frac + BandReserve(x, p, w) <= 8 * TotalBits(x)
    /\ Bounded(BandBits(x, p, w), Most(BandAvail(x, p, w), Steps(p)))

(* The fine bits appended stay within the frame.                            *)
LEMMA FineCodes ==
  ASSUME NEW x, NEW p, NEW w, NEW spare, NEW flag, BandsReady(x, p, w, spare, flag)
  PROVE  FineLeaves(x, p, w)
<1>1. Coder(x) /\ BandParams(p) /\ TellBits(x) <= TotalBits(x) /\ Choices(p, w)
  BY DEF BandsReady
<1>2. /\ w.transient \in BOOLEAN /\ w.trim \in 0..10 /\ w.boosts \in Seq(Nat) /\ Len(w.boosts) = p.end - p.start
      /\ w.s.e \in Energies /\ w.s.error \in Energies
  BY <1>1 DEF Choices
<1> DEFINE r == BandReserve(x, p, w)
           a == BandAvail(x, p, w)
           bits == BandBits(x, p, w)
           y == AllocCoded(x, p, w)
           o == FineOpen(x, p, w)
           z == FineCoded(x, p, w)
           most == Most(a, Steps(p))
<1>3. /\ r \in {0, 8} /\ a \in Int /\ a >= -1 /\ x.frac + a + 1 + r = 8 * TotalBits(x) /\ (r = 8 => a >= 23)
  BY <1>1, <1>2, BandRoomIs DEF BandRoom
<1> HIDE DEF a, r
<1>4. Bounded(bits, most) /\ Steps(p) \in 1..42
  <2>1. bits = FineBits(p, a, w.boosts, w.trim)
    BY DEF BandBits, a
  <2> HIDE DEF bits
  <2> QED
    BY <1>1, <1>2, <1>3, <2>1, FineBounded
<1>5. AllocCost(a) \in {0, 8} /\ (AllocCost(a) = 8 => a > 64) /\ AllocCost(a) \in Nat
  BY <1>3, AllocCosts
<1>6. Grows(x, y) /\ y.frac = x.frac + AllocCost(a)
  BY <1>1, <1>5, PutGrows DEF AllocCoded, a
<1> HIDE DEF y
<1>7. Coder(y)
  BY <1>6 DEF Grows
<1>8. o = [rc |-> y, e |-> w.s.e, error |-> w.s.error]
  BY DEF FineOpen, y
<1>9. FineState(o) /\ o.rc = y
  BY <1>2, <1>7, <1>8 DEF FineState
<1>10. z = FineFrom(o, p, bits, Steps(p))
  BY DEF FineCoded, quant_fine_energy, o, bits
<1> HIDE DEF o, bits, most, z
<1>11. Steps(p) \in Nat /\ Steps(p) <= Steps(p)
  BY <1>4
<1>12. FineState(z) /\ Grows(o.rc, z.rc) /\ z.rc.frac <= o.rc.frac + 8 * most * Steps(p)
  BY <1>1, <1>4, <1>9, <1>10, <1>11, FineGrows
<1>13. most \in 0..8 /\ 24 * most * Steps(p) <= 2 * MaxOf(a, 0)
  BY <1>3, <1>4, MostIs DEF most
<1>14. z.rc.frac + r <= 8 * TotalBits(x)
  <2> DEFINE k == most * Steps(p)
             c == AllocCost(a)
             t == TotalBits(x)
             n == Steps(p)
             f == z.rc.frac
  <2>1. 8 * most * Steps(p) = 8 * k /\ 24 * most * Steps(p) = 24 * k /\ k \in Nat
    <3>1. n \in Nat /\ most \in Nat
      BY <1>11, <1>13
    <3> HIDE DEF n
    <3>2. 8 * most * n = 8 * (most * n) /\ 24 * most * n = 24 * (most * n) /\ most * n \in Nat
      BY <3>1, NatProduct
    <3> QED
      BY <3>2 DEF n
  <2>2. x.frac \in Nat /\ t \in Nat /\ f \in Nat
    BY <1>1, <1>12, CoderCounts DEF FineState
  <2>3. f <= x.frac + c + 8 * k /\ 24 * k <= 2 * MaxOf(a, 0)
    BY <1>6, <1>9, <1>12, <1>13, <2>1
  <2>4. x.frac + a + 1 + r = 8 * t
    BY <1>3
  <2> HIDE DEF k, c, t, f
  <2>5. c \in {0, 8} /\ (c = 8 => a > 64)
    BY <1>5 DEF c
  <2>6. f + r <= 8 * t
    <3>1. CASE a >= 0
      <4>1. 24 * k <= 2 * a
        BY <1>3, <2>3, <3>1 DEF MaxOf
      <4>2. r = 0 \/ r = 8
        BY <1>3
      <4>3. c = 0 \/ (c = 8 /\ a > 64)
        BY <2>5
      <4> QED
        BY <1>3, <2>1, <2>2, <2>3, <2>4, <3>1, <4>1, <4>2, <4>3 DEF t
    <3>2. CASE a < 0
      <4>1. 24 * k <= 0
        BY <1>3, <2>3, <3>2 DEF MaxOf
      <4>2. r = 0 /\ c = 0
        BY <1>3, <2>5, <3>2
      <4>3. a = -1
        BY <1>3, <3>2
      <4> QED
        BY <2>1, <2>2, <2>3, <2>4, <4>1, <4>2, <4>3
    <3> QED
      BY <1>3, <3>1, <3>2
  <2> QED
    BY <2>6 DEF f, t
<1> QED
  BY <1>4, <1>6, <1>7, <1>9, <1>12, <1>14 DEF FineLeaves, y, o, z, r, bits, most, a

FinalOpen(x, p, w, spare, flag) ==
    [s |-> [FineCoded(x, p, w) EXCEPT !.rc = SettledCoded(x, p, w, spare, flag)],
     left |-> WholeTurns(p, TotalBits(SettledCoded(x, p, w, spare, flag)) - TellBits(SettledCoded(x, p, w, spare, flag)))]

(* The shapes and the flag of anti-collapse leave no debt.                  *)
SettledLeaves(x, p, w, spare, flag) ==
    /\ FineLeaves(x, p, w)
    /\ Coder(ShapesCoded(x, p, w, spare)) /\ Grows(FineCoded(x, p, w).rc, ShapesCoded(x, p, w, spare))
    /\ Grows(ShapesCoded(x, p, w, spare), SettledCoded(x, p, w, spare, flag))
    /\ SettledCoded(x, p, w, spare, flag).frac <= 8 * TotalBits(x)
    /\ TotalBits(SettledCoded(x, p, w, spare, flag)) = TotalBits(x)

(* The allocation's flags, the pulses and the anti-collapse flag stay       *)
(* within the frame.                                                        *)
LEMMA SettledCodes ==
  ASSUME NEW x, NEW p, NEW w, NEW spare, NEW flag, BandsReady(x, p, w, spare, flag)
  PROVE  SettledLeaves(x, p, w, spare, flag)
<1> DEFINE f == FineCoded(x, p, w).rc
           r == BandReserve(x, p, w)
           y == ShapesCoded(x, p, w, spare)
           z == SettledCoded(x, p, w, spare, flag)
           cost == ShapesCost(f, spare, r)
           b == TotalBits(x)
<1>1. FineLeaves(x, p, w)
  BY FineCodes
<1>2. /\ Grows(x, AllocCoded(x, p, w)) /\ Grows(AllocCoded(x, p, w), f) /\ f.frac + r <= 8 * b
  BY <1>1 DEF FineLeaves
<1>3. Coder(x) /\ w.transient \in BOOLEAN /\ BandParams(p) /\ TellBits(x) <= b /\ spare \in Nat
  BY DEF BandsReady, Choices
<1>4. r \in {0, 8}
  BY <1>3, BandRoomIs DEF BandRoom
<1>5. y = PutSym(f, "shapes", ShapesContext(f, w, BandBits(x, p, w)), 1, cost)
  BY DEF ShapesCoded
<1>6. z = IF r > 0 THEN EncRaw(y, flag, 1) ELSE y
  BY DEF SettledCoded
<1> HIDE DEF y, z, f, r
<1>7. Coder(f) /\ f.bytes = x.bytes /\ f.frac \in Nat /\ TotalBits(f) = b /\ b \in Nat
  BY <1>2, <1>3, CoderCounts DEF Grows, TotalBits
<1>8. cost \in Nat /\ (cost = 0 \/ f.frac + cost + r <= 8 * b)
  BY <1>3, <1>4, <1>7 DEF ShapesCost, MaxOf
<1> HIDE DEF cost
<1>9. Grows(f, y) /\ y.frac = f.frac + cost
  BY <1>5, <1>7, <1>8, PutGrows
<1>10. Coder(y) /\ y.bytes = x.bytes /\ y.frac \in Nat /\ TotalBits(y) = b
  BY <1>7, <1>9 DEF Grows, Coder, TotalBits
<1>11. y.frac + r <= 8 * b
  BY <1>2, <1>4, <1>7, <1>8, <1>9
<1>12. CASE r > 0
  <2>1. z = EncRaw(y, flag, 1) /\ 1 \in Nat
    BY <1>6, <1>12
  <2>2. Grows(y, z) /\ z.frac = y.frac + 8 * 1
    BY <1>10, <2>1, RawGrows
  <2>3. z.frac <= 8 * b
    BY <1>4, <1>10, <1>11, <1>12, <2>2
  <2>4. TotalBits(z) = b
    BY <1>10, <2>2 DEF Grows, TotalBits
  <2> QED
    BY <1>1, <1>9, <1>10, <2>2, <2>3, <2>4 DEF SettledLeaves, y, z, f
<1>13. CASE ~(r > 0)
  <2>1. z = y /\ r = 0
    BY <1>4, <1>6, <1>13
  <2>2. Grows(y, z) /\ z.frac <= 8 * b
    BY <1>10, <1>11, <2>1, GrowsSelf
  <2> QED
    BY <1>1, <1>9, <1>10, <2>1, <2>2 DEF SettledLeaves, y, z, f
<1> QED
  BY <1>12, <1>13

(* The turns the final bits can take are no more than the bits left.        *)
LEMMA TurnsLeft ==
  ASSUME NEW p, BandParams(p), NEW left \in Nat
  PROVE  WholeTurns(p, left) \in Nat /\ WholeTurns(p, left) <= left
<1>1. p.channels = 1 \/ p.channels = 2
  BY DEF BandParams
<1>2. left \div 1 = left /\ (left \div 2) * 2 <= left /\ (left \div 2) * 2 \in Nat
  OBVIOUS
<1> QED
  BY <1>1, <1>2 DEF WholeTurns

(* The final bits start from the fine energies, with what is left of the    *)
(* frame.                                                                   *)
LEMMA FinalOpens ==
  ASSUME NEW x, NEW p, NEW w, NEW spare, NEW flag, BandsReady(x, p, w, spare, flag)
  PROVE  /\ FinalState(FinalOpen(x, p, w, spare, flag))
         /\ FinalOpen(x, p, w, spare, flag).s.rc = SettledCoded(x, p, w, spare, flag)
         /\ FinalOpen(x, p, w, spare, flag).s.e = FineCoded(x, p, w).e
         /\ FinalOpen(x, p, w, spare, flag).left \in Nat
         /\ TellBits(SettledCoded(x, p, w, spare, flag)) + FinalOpen(x, p, w, spare, flag).left <= TotalBits(x)
         /\ BandsCoded(x, p, w, spare, flag)
              = FinalFrom(FinalOpen(x, p, w, spare, flag), p, BandBits(x, p, w), Priorities(BandAvail(x, p, w)), 2 * Steps(p)).s
<1> DEFINE z == SettledCoded(x, p, w, spare, flag)
           o == FinalOpen(x, p, w, spare, flag)
           f == FineCoded(x, p, w)
           s == [f EXCEPT !.rc = z]
           m == TotalBits(z) - TellBits(z)
<1>1. SettledLeaves(x, p, w, spare, flag)
  BY SettledCodes
<1>2. /\ FineLeaves(x, p, w) /\ Grows(ShapesCoded(x, p, w, spare), z) /\ z.frac <= 8 * TotalBits(x) /\ TotalBits(z) = TotalBits(x)
  BY <1>1 DEF SettledLeaves
<1>3. Coder(z)
  BY <1>2 DEF Grows
<1>4. FineState(f)
  BY <1>2 DEF FineLeaves
<1>5. o = [s |-> s, left |-> WholeTurns(p, m)]
  BY DEF FinalOpen
<1>6. BandsCoded(x, p, w, spare, flag) = FinalFrom(o, p, BandBits(x, p, w), Priorities(BandAvail(x, p, w)), 2 * Steps(p)).s
  BY DEF BandsCoded, quant_energy_finalise, FinalOpen
<1> HIDE DEF z, f, o
<1>7. m \in Nat
  <2>1. TellBits(z) \in Nat /\ TotalBits(z) \in Nat
    BY <1>3, CoderCounts
  <2>2. TellBits(z) <= TotalBits(z)
    BY <1>2, <1>3, EighthsFit
  <2> QED
    BY <2>1, <2>2
<1>8. PICK a, b, c : f = [rc |-> a, e |-> b, error |-> c]
  BY <1>4 DEF FineState
<1>9. s = [rc |-> z, e |-> b, error |-> c]
  BY <1>8
<1>10. FineState(s) /\ s.rc = z /\ s.e = f.e
  BY <1>3, <1>4, <1>8, <1>9 DEF FineState
<1>11. BandParams(p)
  BY DEF BandsReady
<1>12. WholeTurns(p, m) \in Nat /\ WholeTurns(p, m) <= m
  BY <1>7, <1>11, TurnsLeft
<1> DEFINE l == WholeTurns(p, m)
<1> HIDE DEF s, l
<1>13. FinalState(o) /\ o.s = s /\ o.left = l
  <2>1. l \in Int
    BY <1>12 DEF l
  <2>2. o = [s |-> s, left |-> l]
    BY <1>5 DEF l
  <2> QED
    BY <1>10, <2>1, <2>2 DEF FinalState
<1>14. TellBits(z) + l <= TotalBits(x)
  <2>1. TellBits(z) \in Nat /\ TotalBits(z) \in Nat /\ TotalBits(z) = TotalBits(x)
    BY <1>2, <1>3, CoderCounts
  <2> QED
    BY <1>12, <2>1 DEF l
<1>15. l \in Nat
  BY <1>12 DEF l
<1> QED
  BY <1>6, <1>10, <1>13, <1>14, <1>15 DEF z, o, f

(* The bands take no more than what is left.                                *)
BandsLeave(x, p, w, spare, flag) ==
    /\ FineState(BandsCoded(x, p, w, spare, flag))
    /\ Grows(x, BandsCoded(x, p, w, spare, flag).rc)
    /\ TellBits(BandsCoded(x, p, w, spare, flag).rc) <= TotalBits(x)

(* The bands to their last bit only append, and stay within the frame.      *)
LEMMA BandsCode ==
  ASSUME NEW x, NEW p, NEW w, NEW spare, NEW flag, BandsReady(x, p, w, spare, flag)
  PROVE  BandsLeave(x, p, w, spare, flag)
<1> DEFINE y == AllocCoded(x, p, w)
           f == FineCoded(x, p, w).rc
           h == ShapesCoded(x, p, w, spare)
           z == SettledCoded(x, p, w, spare, flag)
           o == FinalOpen(x, p, w, spare, flag)
           bits == BandBits(x, p, w)
           priority == Priorities(BandAvail(x, p, w))
           most == Most(BandAvail(x, p, w), Steps(p))
           n == 2 * Steps(p)
           g == FinalFrom(o, p, bits, priority, n)
           d == BandsCoded(x, p, w, spare, flag)
<1>1. SettledLeaves(x, p, w, spare, flag)
  BY SettledCodes
<1>2. /\ Grows(x, y) /\ Grows(y, f) /\ Grows(f, h) /\ Grows(h, z) /\ Bounded(bits, most) /\ TotalBits(z) = TotalBits(x)
  BY <1>1 DEF SettledLeaves, FineLeaves
<1>3. /\ FinalState(o) /\ o.s.rc = z /\ o.left \in Nat /\ TellBits(z) + o.left <= TotalBits(x) /\ d = g.s
  BY FinalOpens
<1>4. BandParams(p) /\ n \in Nat /\ n <= 2 * Steps(p)
  <2>1. BandParams(p) /\ 0 \in Nat
    BY DEF BandsReady
  <2>2. Steps(p) \in Nat
    BY <2>1, BandsOf
  <2> DEFINE m == Steps(p)
  <2> HIDE DEF m
  <2>3. 2 * m \in Nat /\ 2 * m <= 2 * m
    BY <2>2 DEF m
  <2> QED
    BY <2>1, <2>3 DEF m
<1> HIDE DEF y, f, h, z, o, bits, priority, most, n, d
<1>5. /\ FinalState(g) /\ Grows(o.s.rc, g.s.rc) /\ g.s.rc.frac + 8 * g.left = o.s.rc.frac + 8 * o.left
      /\ (o.left >= 0 => g.left >= 0)
  BY <1>2, <1>3, <1>4, FinalGrows
<1> HIDE DEF g
<1>6. Grows(x, f)
  BY <1>2, GrowsOn
<1>7. Grows(x, h)
  BY <1>2, <1>6, GrowsOn
<1>8. Grows(x, z)
  BY <1>2, <1>7, GrowsOn
<1>9. Grows(z, d.rc) /\ FineState(d)
  BY <1>3, <1>5 DEF FinalState
<1>10. Grows(x, d.rc)
  BY <1>8, <1>9, GrowsOn
<1>11. TellBits(d.rc) <= TotalBits(x)
  <2>1. d.rc.frac \in Nat /\ z.frac \in Nat /\ TotalBits(x) \in Nat /\ g.left \in Int
    BY <1>5, <1>9, <1>10, CoderCounts DEF Grows, FinalState
  <2>2. d.rc.frac + 8 * g.left = z.frac + 8 * o.left /\ g.left >= 0 /\ o.left \in Nat
    BY <1>3, <1>5
  <2>3. TellBits(z) + o.left <= TotalBits(x)
    BY <1>3
  <2> DEFINE a == d.rc.frac
             b == z.frac
             t == TotalBits(x)
             u == g.left
             v == o.left
  <2>4. a \in Nat /\ b \in Nat /\ t \in Nat /\ u \in Int /\ u >= 0 /\ v \in Nat /\ a + 8 * u = b + 8 * v
        /\ (b + 7) \div 8 + v <= t
    BY <2>1, <2>2, <2>3 DEF TellBits
  <2> HIDE DEF a, b, t, u, v
  <2>5. (a + 7) \div 8 <= t
    BY <2>4
  <2> QED
    BY <2>5 DEF TellBits, a, t
<1> QED
  BY <1>9, <1>10, <1>11 DEF BandsLeave, d

(* The bands of a frame, read: w is what the decoder knows of it.           *)
AllocRead(d, p, w) == AskSym(d, "alloc", AllocContext(p, BandAvail(d, p, w), w.boosts, w.trim))
FineRead(d, p, w, e) == unquant_fine_energy([rc |-> AllocRead(d, p, w), e |-> e], p, BandBits(d, p, w))
ShapesRead(d, p, w, e) == AskSym(FineRead(d, p, w, e).rc, "shapes", ShapesContext(FineRead(d, p, w, e).rc, w, BandBits(d, p, w)))
SettledRead(d, p, w, e) == IF BandReserve(d, p, w) > 0 THEN DecRaw(ShapesRead(d, p, w, e), 1) ELSE ShapesRead(d, p, w, e)
FinalReadOpen(d, p, w, e) ==
    [s |-> [FineRead(d, p, w, e) EXCEPT !.rc = SettledRead(d, p, w, e)],
     left |-> WholeTurns(p, TotalBits(SettledRead(d, p, w, e)) - TellBits(SettledRead(d, p, w, e)))]
BandsRead(d, p, w, e) ==
    unquant_energy_finalise([FineRead(d, p, w, e) EXCEPT !.rc = SettledRead(d, p, w, e)], p, BandBits(d, p, w),
                            Priorities(BandAvail(d, p, w)),
                            TotalBits(SettledRead(d, p, w, e)) - TellBits(SettledRead(d, p, w, e)))

SameChoices(w, wd) ==
    wd.transient = w.transient /\ wd.tf = w.tf /\ wd.spread = w.spread /\ wd.boosts = w.boosts /\ wd.trim = w.trim

BandsToRead(x, p, w, spare, flag, d, pd, wd, e, all) ==
    /\ BandsReady(x, p, w, spare, flag) /\ SameBands(p, pd) /\ SameChoices(w, wd)
    /\ Follows(d, x, all) /\ d.bytes = x.bytes /\ e \in Energies
    /\ Begins(BandsCoded(x, p, w, spare, flag).rc.syms, all)
BandsHeard(x, p, w, spare, flag, d, pd, wd, e, all) ==
    /\ UnfineState(BandsRead(d, pd, wd, e))
    /\ Follows(BandsRead(d, pd, wd, e).rc, BandsCoded(x, p, w, spare, flag).rc, all)
    /\ BandsRead(d, pd, wd, e).rc.bytes = d.bytes
    /\ Same(p, w.s.e, e) => Same(p, BandsCoded(x, p, w, spare, flag).e, BandsRead(d, pd, wd, e).e)

(* Both ends derive the same from the bits left.                            *)
BandsAgree(x, p, w, d, pd, wd) ==
    /\ BandReserve(d, pd, wd) = BandReserve(x, p, w) /\ BandAvail(d, pd, wd) = BandAvail(x, p, w)
    /\ BandBits(d, pd, wd) = BandBits(x, p, w)
    /\ AllocContext(pd, BandAvail(d, pd, wd), wd.boosts, wd.trim) = AllocContext(p, BandAvail(x, p, w), w.boosts, w.trim)

(* Both ends divide the same bits over the same bands.                      *)
LEMMA BandsAgreed ==
  ASSUME NEW x, NEW p, NEW w, NEW spare, NEW flag, NEW d, NEW pd, NEW wd, NEW e, NEW all,
         BandsToRead(x, p, w, spare, flag, d, pd, wd, e, all)
  PROVE  BandsAgree(x, p, w, d, pd, wd)
<1>1. SameBands(p, pd) /\ SameChoices(w, wd) /\ Follows(d, x, all) /\ d.bytes = x.bytes
  BY DEF BandsToRead
<1>2. TotalBits(d) = TotalBits(x) /\ d.frac = x.frac
  BY <1>1 DEF TotalBits, Follows
<1>3. BandReserve(d, pd, wd) = BandReserve(x, p, w)
  BY <1>1, <1>2 DEF BandReserve, AntiCollapse, SameBands, SameChoices
<1>4. BandAvail(d, pd, wd) = BandAvail(x, p, w)
  BY <1>1, <1>2, <1>3 DEF BandAvail, AllocBits, BandReserve, SameChoices
<1>5. pd.start = p.start /\ pd.end = p.end /\ pd.channels = p.channels /\ pd.lm = p.lm
  BY <1>1 DEF SameBands
<1>6. wd.boosts = w.boosts /\ wd.trim = w.trim
  BY <1>1 DEF SameChoices
<1>7. FineBits(pd, BandAvail(x, p, w), w.boosts, w.trim) = FineBits(p, BandAvail(x, p, w), w.boosts, w.trim)
  BY <1>5 DEF FineBits
<1>8. BandBits(d, pd, wd) = BandBits(x, p, w)
  BY <1>4, <1>6, <1>7 DEF BandBits
<1>9. AllocContext(pd, BandAvail(x, p, w), w.boosts, w.trim) = AllocContext(p, BandAvail(x, p, w), w.boosts, w.trim)
  BY <1>5 DEF AllocContext
<1> QED
  BY <1>3, <1>4, <1>6, <1>8, <1>9 DEF BandsAgree

(* The decoder reads the bands as they were coded, to the same energies.    *)
LEMMA BandsMirror ==
  ASSUME NEW x, NEW p, NEW w, NEW spare, NEW flag, NEW d, NEW pd, NEW wd, NEW e, NEW all,
         BandsToRead(x, p, w, spare, flag, d, pd, wd, e, all)
  PROVE  BandsHeard(x, p, w, spare, flag, d, pd, wd, e, all)
<1> DEFINE y == AllocCoded(x, p, w)
           fo == FineOpen(x, p, w)
           f == FineCoded(x, p, w)
           h == ShapesCoded(x, p, w, spare)
           z == SettledCoded(x, p, w, spare, flag)
           o == FinalOpen(x, p, w, spare, flag)
           done == BandsCoded(x, p, w, spare, flag)
           bits == BandBits(x, p, w)
           avail == BandAvail(x, p, w)
           reserve == BandReserve(x, p, w)
           priority == Priorities(avail)
           most == Most(avail, Steps(p))
           yd == AllocRead(d, pd, wd)
           sd == [rc |-> yd, e |-> e]
           fd == FineRead(d, pd, wd, e)
           hd == ShapesRead(d, pd, wd, e)
           zd == SettledRead(d, pd, wd, e)
           od == FinalReadOpen(d, pd, wd, e)
           undone == BandsRead(d, pd, wd, e)
<1>0. /\ BandsReady(x, p, w, spare, flag) /\ SameBands(p, pd) /\ SameChoices(w, wd)
      /\ Follows(d, x, all) /\ d.bytes = x.bytes /\ e \in Energies /\ Begins(done.rc.syms, all)
  BY DEF BandsToRead
<1>1. SettledLeaves(x, p, w, spare, flag) /\ FineLeaves(x, p, w)
  BY <1>0, SettledCodes DEF SettledLeaves
<1>2. /\ Grows(x, y) /\ Grows(y, f.rc) /\ Grows(f.rc, h) /\ Grows(h, z) /\ Bounded(bits, most)
      /\ TotalBits(z) = TotalBits(x) /\ FineState(fo) /\ FineState(f)
  BY <1>1 DEF SettledLeaves, FineLeaves
<1>3. FinalState(o) /\ o.s.rc = z /\ o.left \in Nat /\ o.s.e = f.e
  BY <1>0, FinalOpens
<1>4. done = FinalFrom(o, p, bits, priority, 2 * Steps(p)).s
  BY <1>0, FinalOpens
<1>5. BandParams(p) /\ Steps(p) \in Nat /\ 2 * Steps(p) \in Nat /\ Log(all)
  <2>1. BandParams(p) /\ 0 \in Nat
    BY <1>0 DEF BandsReady
  <2>2. Steps(p) \in Nat
    BY <2>1, BandsOf
  <2>3. 2 * Steps(p) \in Nat
    BY <2>2
  <2> QED
    BY <1>0, <2>1, <2>2, <2>3 DEF Follows
<1>6. /\ BandReserve(d, pd, wd) = reserve /\ BandAvail(d, pd, wd) = avail /\ BandBits(d, pd, wd) = bits
      /\ AllocContext(pd, avail, wd.boosts, wd.trim) = AllocContext(p, avail, w.boosts, w.trim)
  <2>1. BandsAgree(x, p, w, d, pd, wd)
    BY BandsAgreed
  <2> QED
    BY <2>1 DEF BandsAgree
<1>7. y = PutSym(x, "alloc", AllocContext(p, avail, w.boosts, w.trim), 1, AllocCost(avail)) /\ AllocCost(avail) \in Nat
  BY DEF AllocCoded, AllocCost
<1>8. fo = [rc |-> y, e |-> w.s.e, error |-> w.s.error] /\ f = FineFrom(fo, p, bits, Steps(p))
  BY DEF FineOpen, FineCoded, quant_fine_energy
<1>9. h = PutSym(f.rc, "shapes", ShapesContext(f.rc, w, bits), 1, ShapesCost(f.rc, spare, reserve))
  BY DEF ShapesCoded
<1>10. z = IF reserve > 0 THEN EncRaw(h, flag, 1) ELSE h
  BY DEF SettledCoded
<1>11. yd = AskSym(d, "alloc", AllocContext(p, avail, w.boosts, w.trim))
  BY <1>6 DEF AllocRead
<1>12. fd = UnfineFrom(sd, pd, bits, Steps(p))
  <2>1. Steps(pd) = Steps(p)
    BY <1>0 DEF SameBands, Steps
  <2> QED
    BY <1>6, <2>1 DEF FineRead, unquant_fine_energy
<1>13. hd = AskSym(fd.rc, "shapes", ShapesContext(fd.rc, wd, bits))
  BY <1>6 DEF ShapesRead
<1>14. zd = IF reserve > 0 THEN DecRaw(hd, 1) ELSE hd
  BY <1>6 DEF SettledRead
<1>15. od = [s |-> [fd EXCEPT !.rc = zd], left |-> WholeTurns(pd, TotalBits(zd) - TellBits(zd))]
  BY DEF FinalReadOpen
<1>16. undone = UnfinalFrom(od, pd, bits, priority, 2 * Steps(p)).s
  <2>1. Steps(pd) = Steps(p)
    BY <1>0 DEF SameBands, Steps
  <2> QED
    BY <1>6, <2>1 DEF BandsRead, unquant_energy_finalise, FinalReadOpen
<1>17. o.left = WholeTurns(p, TotalBits(z) - TellBits(z))
  BY DEF FinalOpen
<1> HIDE DEF y, fo, f, h, z, o, done, bits, avail, reserve, most, yd, fd, hd, zd, od, undone
<1>18. Grows(z, done.rc)
  <2>1. 2 * Steps(p) <= 2 * Steps(p)
    BY <1>5
  <2>2. Grows(o.s.rc, FinalFrom(o, p, bits, priority, 2 * Steps(p)).s.rc)
    <3> HIDE DEF priority
    <3> QED
      BY <1>2, <1>3, <1>5, <2>1, FinalGrows
  <2> QED
    BY <1>3, <1>4, <2>2
<1>19. Begins(z.syms, all)
  BY <1>0, <1>5, <1>18, BeginsOn
<1>20. Begins(h.syms, all)
  BY <1>2, <1>5, <1>19, BeginsOn
<1>21. Begins(f.rc.syms, all)
  BY <1>2, <1>5, <1>20, BeginsOn
<1>22. Begins(y.syms, all)
  BY <1>2, <1>5, <1>21, BeginsOn
<1>23. Follows(yd, y, all) /\ yd.bytes = d.bytes
  BY <1>0, <1>7, <1>11, <1>22, AskFollows
<1>24. sd.rc = yd /\ sd.e = e /\ UnfineState(sd)
  BY <1>0 DEF UnfineState
<1> HIDE DEF sd
<1>25. /\ Follows(fd.rc, f.rc, all) /\ fd.rc.bytes = d.bytes /\ UnfineState(fd)
       /\ Same(p, w.s.e, e) => Same(p, f.e, fd.e)
  <2>1. fo.rc = y /\ fo.e = w.s.e
    BY <1>8
  <2>2. Follows(sd.rc, fo.rc, all) /\ Begins(FineFrom(fo, p, bits, Steps(p)).rc.syms, all) /\ Steps(p) <= Steps(p)
    BY <1>5, <1>8, <1>21, <1>23, <1>24, <2>1
  <2>3. /\ Follows(UnfineFrom(sd, pd, bits, Steps(p)).rc, FineFrom(fo, p, bits, Steps(p)).rc, all)
        /\ UnfineFrom(sd, pd, bits, Steps(p)).rc.bytes = sd.rc.bytes
        /\ UnfineState(UnfineFrom(sd, pd, bits, Steps(p)))
        /\ Same(p, fo.e, sd.e) => Same(p, FineFrom(fo, p, bits, Steps(p)).e, UnfineFrom(sd, pd, bits, Steps(p)).e)
    BY <1>0, <1>2, <1>5, <1>24, <2>2, FineMirrors
  <2> QED
    BY <1>8, <1>12, <1>23, <1>24, <2>1, <2>3
<1>26. TotalBits(fd.rc) = TotalBits(f.rc) /\ TotalBits(f.rc) = TotalBits(x)
  <2>1. f.rc.bytes = x.bytes
    BY <1>2 DEF Grows
  <2> QED
    BY <1>0, <1>25, <2>1 DEF TotalBits
<1>27. ShapesContext(fd.rc, wd, bits) = ShapesContext(f.rc, w, bits)
  BY <1>0, <1>26 DEF ShapesContext, SameChoices
<1>28. ShapesCost(f.rc, spare, reserve) \in Nat
  <2>1. Coder(f.rc) /\ spare \in Nat
    BY <1>0, <1>2 DEF Grows, BandsReady
  <2>2. f.rc.frac \in Nat /\ TotalBits(f.rc) \in Nat
    BY <2>1, CoderCounts
  <2>3. reserve \in {0, 8}
    BY <1>0, BandRoomIs DEF BandRoom, BandsReady, Choices, reserve
  <2> QED
    BY <2>1, <2>2, <2>3 DEF ShapesCost, MaxOf
<1>29. Follows(hd, h, all) /\ hd.bytes = d.bytes
  <2>1. Begins(PutSym(f.rc, "shapes", ShapesContext(f.rc, w, bits), 1, ShapesCost(f.rc, spare, reserve)).syms, all)
    BY <1>9, <1>20
  <2>2. hd = AskSym(fd.rc, "shapes", ShapesContext(f.rc, w, bits))
    BY <1>13, <1>27
  <2> QED
    BY <1>9, <1>25, <1>28, <2>1, <2>2, AskFollows
<1>30. Follows(zd, z, all) /\ zd.bytes = d.bytes
  <2>1. CASE reserve > 0
    <3>1. zd = DecRaw(hd, 1) /\ z = EncRaw(h, flag, 1) /\ 1 \in Nat
      BY <1>10, <1>14, <2>1
    <3>2. Reads(DecRaw(hd, 1), flag, hd, EncRaw(h, flag, 1), all)
      BY <1>19, <1>29, <3>1, RawReads
    <3> QED
      BY <1>29, <3>1, <3>2 DEF Reads
  <2>2. CASE ~(reserve > 0)
    BY <1>10, <1>14, <1>29, <2>2
  <2> QED
    BY <2>1, <2>2
<1>31. PICK a, b : fd = [rc |-> a, e |-> b]
  BY <1>25 DEF UnfineState
<1> DEFINE s2 == [fd EXCEPT !.rc = zd]
           l2 == WholeTurns(pd, TotalBits(zd) - TellBits(zd))
<1>32. s2 = [rc |-> zd, e |-> b]
  BY <1>31
<1>33. UnfineState(s2) /\ s2.rc = zd /\ s2.e = fd.e
  BY <1>25, <1>31, <1>32 DEF UnfineState
<1>34. l2 = o.left
  <2>1. TotalBits(zd) = TotalBits(z)
    BY <1>0, <1>2, <1>30 DEF TotalBits
  <2>2. TellBits(zd) = TellBits(z)
    BY <1>30, TellsAlike
  <2>3. pd.channels = p.channels
    BY <1>0 DEF SameBands
  <2> QED
    BY <1>17, <2>1, <2>2, <2>3 DEF WholeTurns
<1> HIDE DEF s2, l2
<1>35. od = [s |-> s2, left |-> l2]
  BY <1>15 DEF s2, l2
<1>36. UnfinalState(od) /\ od.left = o.left /\ od.s = s2
  <2>1. l2 \in Int
    BY <1>3, <1>34
  <2> QED
    BY <1>33, <1>34, <1>35, <2>1 DEF UnfinalState
<1>37. Follows(od.s.rc, o.s.rc, all)
  BY <1>3, <1>30, <1>33, <1>36
<1> DEFINE n == 2 * Steps(p)
<1>38. n \in Nat /\ n <= 2 * Steps(p)
  BY <1>5
<1>39. Begins(FinalFrom(o, p, bits, priority, n).s.rc.syms, all)
  BY <1>0, <1>4
<1> HIDE DEF n, priority
<1>40. /\ UnfinalState(UnfinalFrom(od, pd, bits, priority, n))
       /\ Follows(UnfinalFrom(od, pd, bits, priority, n).s.rc, FinalFrom(o, p, bits, priority, n).s.rc, all)
       /\ UnfinalFrom(od, pd, bits, priority, n).s.rc.bytes = od.s.rc.bytes
       /\ Same(p, o.s.e, od.s.e)
            => Same(p, FinalFrom(o, p, bits, priority, n).s.e, UnfinalFrom(od, pd, bits, priority, n).s.e)
  BY <1>0, <1>2, <1>3, <1>5, <1>36, <1>37, <1>38, <1>39, FinalMirrors
<1>41. /\ undone = UnfinalFrom(od, pd, bits, priority, n).s /\ done = FinalFrom(o, p, bits, priority, n).s
  BY <1>4, <1>16 DEF n
<1>42. UnfineState(undone) /\ Follows(undone.rc, done.rc, all) /\ undone.rc.bytes = d.bytes
  BY <1>30, <1>33, <1>36, <1>40, <1>41 DEF UnfinalState
<1>43. Same(p, w.s.e, e) => Same(p, done.e, undone.e)
  BY <1>3, <1>25, <1>33, <1>36, <1>40, <1>41
<1> QED
  BY <1>42, <1>43 DEF BandsHeard, done, undone

-----------------------------------------------------------------------------
(* A frame as the encoder coded it: h is what it decided, with the energies *)
(* it predicted from, the frame's size and the flag of anti-collapse.       *)
Front(f, h) == HeaderCoded(f, h.pitch)
Short(f, h) == CodedTransient(f, h.pitch)
Par(f, h) == Params(f, h.intra, Front(f, h))
Lev(f, h) == quant_coarse_energy_impl(Front(f, h), Par(f, h), f.levels, h.eb)
Picked(f, h) == Chose(f, Lev(f, h).rc, Par(f, h), Short(f, h))
Told(f, h) == ChoicesCoded(f, Lev(f, h).rc, Par(f, h), Short(f, h))
Cut(f, h) == [Told(f, h) EXCEPT !.bytes = h.n]
TfDecided(f, h) == TfCoded(f, Lev(f, h).rc, Short(f, h))
SpreadDecided(f, h) == SpreadOf(f, TfDecided(f, h)[1])
TrimDecided(f, h) == TrimOf(f, Picked(f, h))
Decided(f, h) ==
    [transient |-> Short(f, h), tf |-> TfDecided(f, h)[2], spread |-> SpreadDecided(f, h),
     boosts |-> Picked(f, h).boosts, trim |-> TrimDecided(f, h), s |-> [e |-> Lev(f, h).e, error |-> Lev(f, h).error]]
Whole(f, h) == BandsCoded(Cut(f, h), Par(f, h), Decided(f, h), f.spare, h.v)

(* What the code is called with.                                            *)
Framed(f) ==
    /\ Sized(f) /\ Asking(f) /\ Rated(f) /\ f.transient \in BOOLEAN /\ f.levels \in Energies /\ f.spare \in Nat
    /\ tape.channels \in 1..2

Fair1(f, h) == Framed(f) /\ PitchWorth(f, h.pitch)
Fair2(f, h) ==
    /\ Fair1(f, h) /\ h.intra \in BOOLEAN /\ h.eb \in Energies
    /\ h.intra => TellBits(Front(f, h)) + 3 <= TotalBits(Front(f, h))
Fair3(f, h) ==
    /\ Fair2(f, h) /\ h.n \in Nat /\ h.n <= Told(f, h).bytes
    /\ Afford(Told(f, h).frac, Picked(f, h).total, Told(f, h).bytes, h.n)

(* The header depends on the pitch alone, of all that is chosen for a       *)
(* frame.                                                                   *)
LEMMA Retold1 == ASSUME NEW f, NEW h, NEW g, g.pitch = h.pitch PROVE Front(f, g) = Front(f, h) /\ Short(f, g) = Short(f, h)
BY DEF Front, Short

(* The choices depend on the pitch, on the prediction and on the energies   *)
(* before.                                                                  *)
LEMMA Retold2 ==
  ASSUME NEW f, NEW h, NEW g, g.pitch = h.pitch, g.intra = h.intra, g.eb = h.eb
  PROVE  /\ Front(f, g) = Front(f, h) /\ Short(f, g) = Short(f, h) /\ Par(f, g) = Par(f, h) /\ Lev(f, g) = Lev(f, h)
         /\ Picked(f, g) = Picked(f, h) /\ Told(f, g) = Told(f, h) /\ TfDecided(f, g) = TfDecided(f, h)
         /\ SpreadDecided(f, g) = SpreadDecided(f, h) /\ TrimDecided(f, g) = TrimDecided(f, h)
         /\ Decided(f, g) = Decided(f, h) /\ (Fair2(f, h) => Fair2(f, g))
<1>1. Front(f, g) = Front(f, h) /\ Short(f, g) = Short(f, h)
  BY Retold1
<1>2. Par(f, g) = Par(f, h)
  BY <1>1 DEF Par
<1>3. Lev(f, g) = Lev(f, h)
  BY <1>1, <1>2 DEF Lev
<1>4. Picked(f, g) = Picked(f, h) /\ Told(f, g) = Told(f, h) /\ TfDecided(f, g) = TfDecided(f, h)
  BY <1>1, <1>2, <1>3 DEF Picked, Told, TfDecided
<1>5. SpreadDecided(f, g) = SpreadDecided(f, h) /\ TrimDecided(f, g) = TrimDecided(f, h)
  BY <1>4 DEF SpreadDecided, TrimDecided
<1>6. Decided(f, g) = Decided(f, h)
  BY <1>1, <1>3, <1>4, <1>5 DEF Decided
<1>7. Fair2(f, h) => Fair2(f, g)
  BY <1>1 DEF Fair2, Fair1
<1> QED
  BY <1>1, <1>2, <1>3, <1>4, <1>5, <1>6, <1>7

(* The header leaves a coder within its frame.                              *)
LEMMA HeadCodes ==
  ASSUME NEW f, NEW h, Fair1(f, h)
  PROVE  /\ Coder(Front(f, h)) /\ Front(f, h).ok /\ 2 <= Front(f, h).bytes /\ TellBits(Front(f, h)) <= TotalBits(Front(f, h))
         /\ Front(f, h).bytes \in Nat
<1>1. Sized(f) /\ PitchWorth(f, h.pitch)
  BY DEF Fair1, Framed
<1>2. HeaderLeaves(f, HeaderCoded(f, h.pitch))
  BY <1>1, HeaderGrows
<1> QED
  BY <1>2 DEF HeaderLeaves, Front

(* The parameters of the bands.                                             *)
LEMMA ParamsAre ==
  ASSUME NEW f, Framed(f), NEW intra \in BOOLEAN, NEW x, Coder(x)
  PROVE  /\ BandParams(Params(f, intra, x)) /\ Params(f, intra, x).budget = TotalBits(x)
         /\ Params(f, intra, x).intra = intra /\ Params(f, intra, x).start = f.start /\ Params(f, intra, x).end = f.end
         /\ Params(f, intra, x).lm = f.lm /\ Params(f, intra, x).channels = tape.channels
<1>1. /\ f.lm \in 0..3 /\ f.start \in 0..20 /\ f.end \in 1..NbBands /\ f.start < f.end /\ tape.channels \in 1..2
  BY DEF Framed, Asking
<1> DEFINE m == IF f.end - f.start > 10 THEN MinOf(16 * ONE, 128 * x.bytes) ELSE 16 * ONE
           b == TotalBits(x)
           p == Params(f, intra, x)
<1>2. p = [start |-> f.start, end |-> f.end, channels |-> tape.channels, lm |-> f.lm, intra |-> intra, budget |-> b,
           max_decay |-> m]
  BY DEF Params
<1>3. b \in Nat /\ x.bytes \in Nat
  BY CoderCounts
<1>4. m \in Int
  BY <1>3 DEF ONE, MinOf
<1> HIDE DEF m, b, p
<1>5. /\ p.start = f.start /\ p.end = f.end /\ p.channels = tape.channels /\ p.lm = f.lm /\ p.intra = intra
      /\ p.budget = b /\ p.max_decay = m
  BY <1>2
<1>6. BandParams(p)
  BY <1>1, <1>3, <1>4, <1>5 DEF BandParams
<1> QED
  BY <1>5, <1>6 DEF p, b

(* The parameters of the bands are those of the frame.                      *)
LEMMA ParIs ==
  ASSUME NEW f, NEW h, Fair2(f, h)
  PROVE  /\ BandParams(Par(f, h)) /\ Par(f, h).budget = TotalBits(Front(f, h))
         /\ Par(f, h).intra = h.intra /\ Par(f, h).start = f.start /\ Par(f, h).end = f.end
         /\ Par(f, h).lm = f.lm /\ Par(f, h).channels = tape.channels
<1>1. Framed(f) /\ h.intra \in BOOLEAN /\ Coder(Front(f, h))
  BY HeadCodes DEF Fair2, Fair1
<1> QED
  BY <1>1, ParamsAre DEF Par

(* The coarse stage of a frame's story, within the frame.                   *)
LEMMA LevCodes ==
  ASSUME NEW f, NEW h, Fair2(f, h)
  PROVE  /\ CoarseState(Lev(f, h)) /\ Grows(Front(f, h), Lev(f, h).rc) /\ Coder(Lev(f, h).rc)
         /\ TellBits(Lev(f, h).rc) <= TotalBits(Lev(f, h).rc) /\ Lev(f, h).rc.bytes = Front(f, h).bytes
         /\ Lev(f, h).rc.ok
         /\ Grows(Front(f, h), Intra(Front(f, h), Par(f, h))) /\ Grows(Intra(Front(f, h), Par(f, h)), Lev(f, h).rc)
<1> DEFINE x == Front(f, h)
           p == Par(f, h)
           l == Lev(f, h)
<1>1. f.levels \in Energies /\ h.eb \in Energies /\ Fair1(f, h)
  BY DEF Fair2, Fair1, Framed
<1>2. Coder(x) /\ x.ok /\ TellBits(x) <= TotalBits(x)
  BY <1>1, HeadCodes
<1>3. BandParams(p) /\ p.budget = TotalBits(x)
  BY ParIs
<1>4. l = quant_coarse_energy_impl(x, p, f.levels, h.eb)
  BY DEF Lev
<1> HIDE DEF x, p, l
<1>5. CoarseState(l) /\ Grows(x, l.rc) /\ TellBits(l.rc) <= TotalBits(x) /\ Grows(x, Intra(x, p)) /\ Grows(Intra(x, p), l.rc)
  BY <1>1, <1>2, <1>3, <1>4, CoarseCodes
<1>6. Coder(l.rc) /\ l.rc.bytes = x.bytes /\ l.rc.ok /\ TotalBits(l.rc) = TotalBits(x)
  BY <1>2, <1>5 DEF Grows, TotalBits
<1> QED
  BY <1>5, <1>6 DEF x, p, l

(* What the choices ask of the stage before holds.                          *)
LEMMA ToldAsked ==
  ASSUME NEW f, NEW h, Fair2(f, h)
  PROVE  Asked(f, Lev(f, h).rc, Par(f, h), Short(f, h))
<1>1. Asking(f) /\ f.transient \in BOOLEAN
  BY DEF Fair2, Fair1, Framed
<1>2. Short(f, h) \in BOOLEAN
  BY <1>1 DEF Short, CodedTransient, TransientSent
<1> QED
  BY <1>1, <1>2, ParIs, LevCodes DEF Asked

(* The choices of a frame's story, within the frame.                        *)
LEMMA ToldCodes ==
  ASSUME NEW f, NEW h, Fair2(f, h)
  PROVE  /\ Grows(Lev(f, h).rc, Told(f, h)) /\ Coder(Told(f, h)) /\ Told(f, h).ok
         /\ TellBits(Told(f, h)) <= TotalBits(Told(f, h)) /\ Told(f, h).bytes = Front(f, h).bytes
         /\ Picked(f, h).total \in Nat /\ Choices(Par(f, h), Decided(f, h))
<1> DEFINE x == Lev(f, h).rc
           p == Par(f, h)
           t == Short(f, h)
           z == Told(f, h)
           c == Picked(f, h)
           w == Decided(f, h)
<1>1. Asked(f, x, p, t)
  BY ToldAsked
<1>2. Grows(x, z) /\ TellBits(z) <= TotalBits(x) /\ DynState(c, p.end - p.start)
  BY <1>1, ChoicesGrow DEF Told, Picked
<1>3. Coder(z) /\ z.bytes = Front(f, h).bytes /\ z.ok /\ TotalBits(z) = TotalBits(x)
  BY <1>2, LevCodes DEF Grows, TotalBits
<1>4. c.total \in Nat /\ c.boosts \in Seq(Nat) /\ Len(c.boosts) = p.end - p.start
  BY <1>2 DEF DynState
<1>5. CoarseState(Lev(f, h))
  BY LevCodes
<1>6. /\ w.transient = t /\ w.trim = TrimDecided(f, h) /\ w.boosts = c.boosts /\ w.s.e = Lev(f, h).e /\ w.s.error = Lev(f, h).error
  BY DEF Decided
<1>7. TrimDecided(f, h) \in 0..10
  <2>1. f.trim \in 0..10
    BY DEF Fair2, Fair1, Framed, Asking
  <2>2. 5 \in 0..10
    OBVIOUS
  <2> QED
    BY <2>1, <2>2 DEF TrimDecided, TrimOf
<1>8. t \in BOOLEAN
  BY <1>1 DEF Asked
<1> HIDE DEF x, p, t, z, c, w
<1>9. Choices(p, w)
  BY <1>4, <1>5, <1>6, <1>7, <1>8 DEF Choices, CoarseState
<1> QED
  BY <1>2, <1>3, <1>4, <1>9 DEF x, p, z, c, w

(* Cutting the frame to its size keeps what is coded, and what follows it.  *)
LEMMA CutCodes ==
  ASSUME NEW f, NEW h, Fair3(f, h)
  PROVE  /\ BandsReady(Cut(f, h), Par(f, h), Decided(f, h), f.spare, h.v)
         /\ Coder(Cut(f, h)) /\ Cut(f, h).bytes = h.n /\ Cut(f, h).syms = Told(f, h).syms /\ Cut(f, h).ok
         /\ Cut(f, h).frac = Told(f, h).frac
         /\ \A d, all : Follows(d, Told(f, h), all) => Follows(d, Cut(f, h), all)
<1> DEFINE x == Told(f, h)
           y == Cut(f, h)
           n == h.n
<1>1. Fair2(f, h) /\ n \in Nat /\ f.spare \in Nat /\ Afford(x.frac, Picked(f, h).total, x.bytes, n)
  BY DEF Fair3, Fair2, Fair1, Framed
<1>2. Coder(x) /\ x.ok /\ TellBits(x) <= TotalBits(x) /\ Choices(Par(f, h), Decided(f, h)) /\ Picked(f, h).total \in Nat
  BY <1>1, ToldCodes
<1>3. y = [x EXCEPT !.bytes = n]
  BY DEF Cut
<1> HIDE DEF x, y, n
<1>4. /\ Coder(y) /\ y.bytes = n /\ y.frac = x.frac /\ y.syms = x.syms /\ y.ok
      /\ \A d, all : Follows(d, x, all) => Follows(d, y, all)
  BY <1>1, <1>2, <1>3, Resized
<1>5. TellBits(y) <= TotalBits(y)
  <2>1. x.frac \in Nat /\ x.bytes \in Nat
    BY <1>2 DEF Coder
  <2>2. x.frac <= 8 * TotalBits(x)
    BY <1>2, EighthsFit
  <2>3. n = x.bytes \/ x.frac + Picked(f, h).total + 128 <= 64 * n
    BY <1>1 DEF Afford
  <2>4. y.frac <= 8 * TotalBits(y)
    BY <1>1, <1>2, <1>4, <2>1, <2>2, <2>3 DEF TotalBits
  <2> QED
    BY <1>4, <2>4, EighthsFit
<1>6. BandParams(Par(f, h))
  BY <1>1, ParIs
<1>7. BandsReady(y, Par(f, h), Decided(f, h), f.spare, h.v)
  BY <1>1, <1>2, <1>4, <1>5, <1>6 DEF BandsReady
<1> QED
  BY <1>4, <1>7 DEF x, y, n

(* The frame is as long as it was cut.                                      *)
LEMMA WholeCodes ==
  ASSUME NEW f, NEW h, Fair3(f, h)
  PROVE  /\ FineState(Whole(f, h)) /\ Grows(Cut(f, h), Whole(f, h).rc) /\ Coder(Whole(f, h).rc) /\ Whole(f, h).rc.ok
         /\ TellBits(Whole(f, h).rc) <= TotalBits(Whole(f, h).rc) /\ Whole(f, h).rc.bytes = h.n
         /\ Log(Whole(f, h).rc.syms)
<1> DEFINE y == Cut(f, h)
           z == Whole(f, h)
<1>1. BandsLeave(y, Par(f, h), Decided(f, h), f.spare, h.v)
  BY CutCodes, BandsCode
<1>2. FineState(z) /\ Grows(y, z.rc) /\ TellBits(z.rc) <= TotalBits(y)
  BY <1>1 DEF BandsLeave, Whole
<1>3. y.bytes = h.n /\ y.ok
  BY CutCodes
<1> HIDE DEF y, z
<1>4. Coder(z.rc) /\ z.rc.bytes = h.n /\ z.rc.ok /\ TotalBits(z.rc) = TotalBits(y)
  BY <1>2, <1>3 DEF Grows, TotalBits
<1>5. Log(z.rc.syms)
  BY <1>4 DEF Coder
<1> QED
  BY <1>2, <1>4, <1>5 DEF y, z

-----------------------------------------------------------------------------
(* The frame as the decoder reads it.                                       *)
Symbols(f, h) == Whole(f, h).rc.syms

(* Every stage begins the frame, and had room in it.                        *)
Unfolds(f, h) ==
    /\ Log(Symbols(f, h))
    /\ Begins(Front(f, h).syms, Symbols(f, h)) /\ Roomy(Front(f, h), h.n)
    /\ Begins(Intra(Front(f, h), Par(f, h)).syms, Symbols(f, h)) /\ Roomy(Intra(Front(f, h), Par(f, h)), h.n)
    /\ Begins(Lev(f, h).rc.syms, Symbols(f, h)) /\ Roomy(Lev(f, h).rc, h.n)
    /\ Begins(Told(f, h).syms, Symbols(f, h)) /\ Roomy(Told(f, h), h.n)

(* The stages of a frame's story follow one another, so its last log begins *)
(* with each of theirs.                                                     *)
LEMMA StoryUnfolds ==
  ASSUME NEW f, NEW h, Fair3(f, h)
  PROVE  Unfolds(f, h)
<1> DEFINE a == Front(f, h)
           b == Intra(Front(f, h), Par(f, h))
           c == Lev(f, h).rc
           d == Told(f, h)
           y == Cut(f, h)
           z == Whole(f, h).rc
           n == h.n
           all == Symbols(f, h)
<1>1. Fair2(f, h) /\ n \in Nat /\ n <= d.bytes /\ Afford(d.frac, Picked(f, h).total, d.bytes, n)
  BY DEF Fair3
<1>2. Grows(a, b) /\ Grows(b, c) /\ Grows(c, d) /\ Grows(y, z) /\ y.syms = d.syms /\ Log(z.syms) /\ all = z.syms
  BY <1>1, LevCodes, ToldCodes, CutCodes, WholeCodes DEF Symbols
<1>3. Picked(f, h).total \in Nat
  BY <1>1, ToldCodes
<1> HIDE DEF a, b, c, d, y, z, n, all
<1>4. Roomy(d, n)
  <2>1. d.frac \in Nat /\ d.bytes \in Nat
    BY <1>2 DEF Grows, Coder
  <2> QED
    BY <1>1, <1>3, <2>1 DEF Roomy, Afford
<1>5. Roomy(c, n)
  BY <1>2, <1>4, RoomyOn
<1>6. Roomy(b, n)
  BY <1>2, <1>5, RoomyOn
<1>7. Roomy(a, n)
  BY <1>2, <1>6, RoomyOn
<1>8. Begins(d.syms, all) /\ Log(all)
  BY <1>2 DEF Grows
<1>9. Begins(c.syms, all)
  BY <1>2, <1>8, BeginsOn
<1>10. Begins(b.syms, all)
  BY <1>2, <1>8, <1>9, BeginsOn
<1>11. Begins(a.syms, all)
  BY <1>2, <1>8, <1>10, BeginsOn
<1> QED
  BY <1>4, <1>5, <1>6, <1>7, <1>8, <1>9, <1>10, <1>11 DEF Unfolds, a, b, c, d, n, all

(* The header and whether the energies are predicted.                       *)
HeaderTold(f, h) == HeaderRead(f, h.n, Symbols(f, h))
IntraTold(f, h) == IntraRead(HeaderTold(f, h))

HeaderKnown(f, h) ==
    /\ Coder(HeaderTold(f, h)) /\ HeaderTold(f, h).got = IF Short(f, h) THEN 1 ELSE 0
    /\ Follows(IntraTold(f, h), Intra(Front(f, h), Par(f, h)), Symbols(f, h)) /\ IntraTold(f, h).bytes = h.n
    /\ IntraTold(f, h).got = IF h.intra THEN 1 ELSE 0
    /\ PitchAlike(f, h.pitch, PitchRead(f, h.n, Symbols(f, h))[2])

(* A decoder of the whole frame reads the header of its story.              *)
LEMMA HeaderIsKnown ==
  ASSUME NEW f, NEW h, Fair3(f, h)
  PROVE  HeaderKnown(f, h)
<1> DEFINE x == Front(f, h)
           p == Par(f, h)
           all == Symbols(f, h)
           d == HeaderTold(f, h)
           g == IntraTold(f, h)
           n == h.n
<1>1. /\ Fair2(f, h) /\ Sized(f) /\ f.transient \in BOOLEAN /\ PitchWorth(f, h.pitch) /\ h.intra \in BOOLEAN
      /\ h.intra => TellBits(x) + 3 <= TotalBits(x)
  BY DEF Fair3, Fair2, Fair1, Framed
<1>2. /\ Log(all) /\ Begins(HeaderCoded(f, h.pitch).syms, all) /\ Roomy(HeaderCoded(f, h.pitch), n)
      /\ Begins(Intra(x, p).syms, all) /\ Roomy(x, n)
  BY StoryUnfolds DEF Unfolds, Front
<1>3. HeaderHeard(f, h.pitch, HeaderCoded(f, h.pitch), n, all)
  <2> HIDE DEF n, all
  <2> QED
    BY <1>1, <1>2, HeaderMirrors
<1>4. /\ Follows(d, x, all) /\ d.bytes = n /\ d.got = (IF Short(f, h) THEN 1 ELSE 0)
      /\ PitchAlike(f, h.pitch, PitchRead(f, n, all)[2])
  BY <1>3 DEF HeaderHeard, HeaderTold, Front, Short
<1>5. BandParams(p) /\ p.budget = TotalBits(x) /\ p.intra = h.intra
  BY <1>1, ParIs
<1>6. g = IntraRead(d)
  BY DEF IntraTold
<1> HIDE DEF x, p, all, d, g, n
<1>7. Follows(IntraRead(d), Intra(x, p), all) /\ IntraRead(d).bytes = d.bytes /\ IntraRead(d).got = IF p.intra THEN 1 ELSE 0
  <2>1. p.intra \in BOOLEAN /\ (p.intra => TellBits(x) + 3 <= TotalBits(x)) /\ Coder(x) /\ Roomy(x, d.bytes)
    BY <1>1, <1>2, <1>4, <1>5 DEF Follows
  <2> QED
    BY <1>2, <1>4, <1>5, <2>1, IntraMirrors
<1>8. Coder(d)
  BY <1>4 DEF Follows
<1> QED
  BY <1>4, <1>5, <1>6, <1>7, <1>8 DEF HeaderKnown, x, p, all, d, g, n

(* The coarse energies.                                                     *)
LevAsks(f, h, d, pd, e) ==
    /\ Fair3(f, h) /\ Follows(d, Intra(Front(f, h), Par(f, h)), Symbols(f, h)) /\ d.bytes = h.n
    /\ SameBands(Par(f, h), pd) /\ pd.budget = TotalBits(d) /\ e \in Energies
LevKnown(f, h, d, pd, e) ==
    /\ UncoarseState(unquant_coarse_energy(d, pd, e))
    /\ Follows(unquant_coarse_energy(d, pd, e).rc, Lev(f, h).rc, Symbols(f, h))
    /\ unquant_coarse_energy(d, pd, e).rc.bytes = h.n
    /\ Spared(CoarseStart(Front(f, h), Par(f, h), h.eb), Par(f, h), f.levels) /\ SameUpTo(Par(f, h), 0, h.eb, e)
         => Same(Par(f, h), Lev(f, h).e, unquant_coarse_energy(d, pd, e).e)

(* It reads the coarse steps.                                               *)
LEMMA LevIsKnown ==
  ASSUME NEW f, NEW h, NEW d, NEW pd, NEW e, LevAsks(f, h, d, pd, e)
  PROVE  LevKnown(f, h, d, pd, e)
<1> DEFINE x == Front(f, h)
           p == Par(f, h)
           l == Lev(f, h)
           all == Symbols(f, h)
           z == unquant_coarse_energy(d, pd, e)
           eb == h.eb
           levels == f.levels
<1>1. /\ Fair3(f, h) /\ Follows(d, Intra(x, p), all) /\ d.bytes = h.n /\ SameBands(p, pd)
      /\ pd.budget = TotalBits(d) /\ e \in Energies
  BY DEF LevAsks
<1>2. Fair2(f, h) /\ eb \in Energies /\ levels \in Energies /\ Fair1(f, h)
  BY <1>1 DEF Fair3, Fair2, Fair1, Framed
<1>3. Coder(x) /\ TellBits(x) <= TotalBits(x) /\ BandParams(p) /\ p.budget = TotalBits(x)
  BY <1>2, HeadCodes, ParIs
<1>4. Begins(l.rc.syms, all) /\ Roomy(l.rc, d.bytes)
  BY <1>1, StoryUnfolds DEF Unfolds
<1>5. l = quant_coarse_energy_impl(x, p, levels, eb)
  BY DEF Lev
<1> HIDE DEF x, p, l, all, z, eb, levels
<1>6. CoarseReady(x, p, levels, eb, pd, e, d, all)
  BY <1>1, <1>2, <1>3, <1>4, <1>5 DEF CoarseReady
<1>7. /\ CoarseDone(l, z, d, all)
      /\ Spared(CoarseStart(x, p, eb), p, levels) /\ SameUpTo(p, 0, eb, e) => Same(p, l.e, z.e)
  BY <1>5, <1>6, CoarseReads DEF z
<1> QED
  BY <1>1, <1>7 DEF LevKnown, CoarseDone, x, p, l, all, z, eb, levels

(* The choices.                                                             *)
ToldAsks(f, h, d, pd) ==
    Fair3(f, h) /\ Follows(d, Lev(f, h).rc, Symbols(f, h)) /\ d.bytes = h.n /\ SameBands(Par(f, h), pd)
ToldKnown(f, h, d, pd) ==
    /\ Follows(ChoicesRead(d, pd, Short(f, h)), Told(f, h), Symbols(f, h))
    /\ ChoicesRead(d, pd, Short(f, h)).bytes = h.n
    /\ TfRead(d, pd, Short(f, h))[2] = TfDecided(f, h)[2]
    /\ SpreadRead(TfRead(d, pd, Short(f, h))[1]).got = SpreadDecided(f, h)
    /\ Heard(d, pd, Short(f, h)).boosts = Picked(f, h).boosts
    /\ ChoicesRead(d, pd, Short(f, h)).got = TrimDecided(f, h)

(* It reads the choices.                                                    *)
LEMMA ToldIsKnown ==
  ASSUME NEW f, NEW h, NEW d, NEW pd, ToldAsks(f, h, d, pd)
  PROVE  ToldKnown(f, h, d, pd)
<1> DEFINE x == Lev(f, h).rc
           p == Par(f, h)
           t == Short(f, h)
           all == Symbols(f, h)
<1>1. Fair3(f, h) /\ Follows(d, x, all) /\ d.bytes = h.n /\ SameBands(p, pd)
  BY DEF ToldAsks
<1>2. Fair2(f, h) /\ Afford(Told(f, h).frac, Picked(f, h).total, Told(f, h).bytes, h.n)
  BY <1>1 DEF Fair3
<1>3. Asked(f, x, p, t) /\ Told(f, h).bytes = x.bytes
  BY <1>2, ToldAsked, ToldCodes, LevCodes
<1>4. Begins(Told(f, h).syms, all)
  BY <1>1, StoryUnfolds DEF Unfolds
<1>5. Told(f, h) = ChoicesCoded(f, x, p, t) /\ Picked(f, h) = Chose(f, x, p, t) /\ TfDecided(f, h) = TfCoded(f, x, t)
  BY DEF Told, Picked, TfDecided
<1>6. SpreadDecided(f, h) = SpreadOf(f, TfCoded(f, x, t)[1]) /\ TrimDecided(f, h) = TrimOf(f, Chose(f, x, p, t))
  BY <1>5 DEF SpreadDecided, TrimDecided
<1> HIDE DEF x, p, t, all
<1>7. ChoicesReady(f, x, p, t, d, pd, all)
  BY <1>1, <1>2, <1>3, <1>4, <1>5 DEF ChoicesReady
<1>8. ChoicesDone(f, x, p, t, d, pd, all)
  BY <1>7, ChoicesMirror
<1> QED
  BY <1>1, <1>5, <1>6, <1>8 DEF ChoicesDone, ToldKnown, t, all

(* The bands.                                                               *)
WholeAsks(f, h, d, pd, wd, e) ==
    /\ Fair3(f, h) /\ Follows(d, Told(f, h), Symbols(f, h)) /\ d.bytes = h.n /\ SameBands(Par(f, h), pd)
    /\ SameChoices(Decided(f, h), wd) /\ e \in Energies
WholeKnown(f, h, d, pd, wd, e) ==
    /\ UnfineState(BandsRead(d, pd, wd, e))
    /\ Follows(BandsRead(d, pd, wd, e).rc, Whole(f, h).rc, Symbols(f, h))
    /\ BandsRead(d, pd, wd, e).rc.bytes = h.n
    /\ Same(Par(f, h), Lev(f, h).e, e) => Same(Par(f, h), Whole(f, h).e, BandsRead(d, pd, wd, e).e)

(* It reads the bands, to the last symbol.                                  *)
LEMMA WholeIsKnown ==
  ASSUME NEW f, NEW h, NEW d, NEW pd, NEW wd, NEW e, WholeAsks(f, h, d, pd, wd, e)
  PROVE  WholeKnown(f, h, d, pd, wd, e)
<1> DEFINE x == Cut(f, h)
           p == Par(f, h)
           w == Decided(f, h)
           spare == f.spare
           v == h.v
           all == Symbols(f, h)
           z == Whole(f, h)
<1>1. /\ Fair3(f, h) /\ Follows(d, Told(f, h), all) /\ d.bytes = h.n /\ SameBands(p, pd) /\ SameChoices(w, wd) /\ e \in Energies
  BY DEF WholeAsks
<1>2. BandsReady(x, p, w, spare, v) /\ x.bytes = h.n /\ Follows(d, x, all)
  BY <1>1, CutCodes
<1>3. z = BandsCoded(x, p, w, spare, v) /\ all = z.rc.syms
  BY DEF Whole, Symbols
<1>4. Begins(all, all)
  BY DEF Begins
<1>5. w.s.e = Lev(f, h).e
  BY DEF Decided
<1> HIDE DEF x, p, w, spare, v, all, z
<1>6. Begins(z.rc.syms, all)
  <2>1. Len(all) \in Nat
    BY <1>1 DEF Follows, Log
  <2> QED
    BY <1>3, <2>1 DEF Begins
<1>7. BandsToRead(x, p, w, spare, v, d, pd, wd, e, all)
  BY <1>1, <1>2, <1>3, <1>6 DEF BandsToRead
<1>8. BandsHeard(x, p, w, spare, v, d, pd, wd, e, all)
  BY <1>7, BandsMirror
<1> QED
  BY <1>1, <1>3, <1>5, <1>8 DEF BandsHeard, WholeKnown, p, all, z

-----------------------------------------------------------------------------
(* What the decoder keeps.                                                  *)
DecShape(d) ==
    d = [e |-> d.e, e2 |-> d.e2, e3 |-> d.e3, background |-> d.background, pitch |-> d.pitch, pitch_old |-> d.pitch_old,
         loss_duration |-> d.loss_duration, plc_duration |-> d.plc_duration, skip_plc |-> d.skip_plc,
         periodic |-> d.periodic, fold |-> d.fold, last_end |-> d.last_end]
PitchShape(q) == q = [t |-> q.t, g |-> q.g, tapset |-> q.tapset]
DecKept(d) ==
    /\ DecShape(d) /\ PitchShape(d.pitch)
    /\ d.e \in Energies /\ d.e2 \in Energies /\ d.e3 \in Energies /\ d.background \in Energies /\ d.loss_duration \in Nat

(* Least and greatest of two integers are integers.                         *)
LEMMA MinMaxInt == ASSUME NEW a \in Int, NEW b \in Int PROVE MinOf(a, b) \in Int /\ MaxOf(a, b) \in Int
BY DEF MinOf, MaxOf

(* An energy of a band is an integer.                                       *)
LEMMA EnergyAt == ASSUME NEW e \in Energies, NEW c \in 1..2, NEW j \in 1..NbBands PROVE e[c][j] \in Int
BY DEF Energies

(* The louder of two channels, copied to both, are energies.                *)
LEMMA LoudestKept == ASSUME NEW e \in Energies PROVE Loudest(e) \in Energies
<1> DEFINE r == [j \in 1..NbBands |-> MaxOf(e[1][j], e[2][j])]
<1>1. r \in [1..NbBands -> Int]
  <2>1. ASSUME NEW j \in 1..NbBands PROVE MaxOf(e[1][j], e[2][j]) \in Int
    <3>0. 1 \in 1..2 /\ 2 \in 1..2
      OBVIOUS
    <3>1. e[1][j] \in Int /\ e[2][j] \in Int
      BY <3>0, EnergyAt
    <3> QED
      BY <3>1, MinMaxInt
  <2> QED
    BY <2>1
<1>2. Loudest(e) = [e EXCEPT ![1] = r]
  BY DEF Loudest
<1> HIDE DEF r
<1> QED
  BY <1>1, <1>2 DEF Energies

(* The lower of energies are energies.                                      *)
LEMMA LowerKept == ASSUME NEW a \in Energies, NEW b \in Energies PROVE Lower(a, b) \in Energies
<1>1. ASSUME NEW c \in 1..2, NEW j \in 1..NbBands PROVE MinOf(a[c][j], b[c][j]) \in Int
  BY EnergyAt, MinMaxInt
<1> QED
  BY <1>1 DEF Lower, Energies

(* Energies with the bands outside the frame set are energies.              *)
LEMMA CodedKept ==
  ASSUME NEW p, NEW e \in Energies, NEW outside \in Int
  PROVE  Coded(p, e, outside) \in Energies
<1>1. ASSUME NEW c \in 1..2, NEW j \in 1..NbBands PROVE (IF j - 1 \in p.start..(p.end - 1) THEN e[c][j] ELSE outside) \in Int
  BY EnergyAt
<1> QED
  BY <1>1 DEF Coded, Energies

(* Constant energies are energies.                                          *)
LEMMA FlatKept == QUIET \in Int /\ 0 \in Int /\ \A v \in Int : Flat(v) \in [1..NbBands -> Int] /\ Spread(v) \in Energies
<1>1. QUIET \in Int
  BY DEF QUIET, ONE
<1> QED
  BY <1>1 DEF Flat, Spread, Energies

(* The energies a decoder keeps of a silent frame are energies.             *)
LEMMA FinalKept ==
  ASSUME NEW e \in Energies, NEW silent
  PROVE  Final(e, silent) \in Energies
<1> DEFINE g == [c \in 1..2 |-> IF silent /\ c <= tape.channels THEN Flat(QUIET) ELSE e[c]]
<1>1. g \in Energies
  BY FlatKept DEF Energies
<1>2. Final(e, silent) = IF tape.channels = 1 THEN [c \in 1..2 |-> g[1]] ELSE g
  BY DEF Final
<1> HIDE DEF g
<1> QED
  BY <1>1, <1>2 DEF Energies

(* The background is made of energies, none above the frame's.              *)
LEMMA BackgroundKept ==
  ASSUME DecKept(decst), NEW e \in Energies, NEW lm \in 0..3
  PROVE  /\ Background(e, lm) \in Energies
         /\ \A c \in 1..2, j \in 1..NbBands : Background(e, lm)[c][j] <= e[c][j]
<1>1. decst.background \in Energies /\ decst.loss_duration \in Nat
  BY DEF DecKept
<1>2. Pow2(lm) \in Nat
  <2>1. lm \in 0..8
    OBVIOUS
  <2> QED
    BY <2>1, Powers
<1>3. ASSUME NEW c \in 1..2, NEW j \in 1..NbBands
      PROVE  /\ MinOf(decst.background[c][j] + MinOf(160, decst.loss_duration + Pow2(lm)), e[c][j]) \in Int
             /\ MinOf(decst.background[c][j] + MinOf(160, decst.loss_duration + Pow2(lm)), e[c][j]) <= e[c][j]
  <2> DEFINE a == decst.background[c][j]
             b == e[c][j]
             l == decst.loss_duration
             m == Pow2(lm)
  <2>1. a \in Int /\ b \in Int /\ l \in Nat /\ m \in Nat
    BY <1>1, <1>2, EnergyAt
  <2> HIDE DEF a, b, l, m
  <2>2. MinOf(a + MinOf(160, l + m), b) \in Int /\ MinOf(a + MinOf(160, l + m), b) <= b
    BY <2>1 DEF MinOf
  <2> QED
    BY <2>2 DEF a, b, l, m
<1> QED
  BY <1>3 DEF Background, Energies

(* The careful guess at an energy after a loss is an integer.               *)
LEMMA CarefulInt ==
  ASSUME NEW e \in Int, NEW e1 \in Int, NEW e2 \in Int, NEW missing \in Int
  PROVE  Careful(e, e1, e2, missing) \in Int
<1>1. Halved(e2 - e) \in Int
  BY DEF Halved
<1>2. 2 * ONE \in Int /\ e1 - e \in Int /\ -20 * ONE \in Int
  BY DEF ONE
<1>3. Slope(e, e1, e2) \in Int
  BY <1>1, <1>2, MinMaxInt DEF Slope
<1> DEFINE s == Slope(e, e1, e2)
<1>4. (1 + missing) * s \in Int
  <2>1. \A a, b \in Int : a * b \in Int
    OBVIOUS
  <2> QED
    BY <1>3, <2>1
<1> DEFINE m == (1 + missing) * s
<1>5. m \in Int
  BY <1>4
<1> HIDE DEF s, m
<1>6. MaxOf(0, m) \in Int
  BY <1>5 DEF MaxOf
<1>7. MaxOf(-20 * ONE, e - MaxOf(0, m)) \in Int
  <2>1. e - MaxOf(0, m) \in Int
    BY <1>6
  <2> QED
    BY <1>2, <2>1, MinMaxInt
<1>8. MinOf(e, MinOf(e1, e2)) \in Int
  BY DEF MinOf
<1> QED
  BY <1>7, <1>8 DEF Careful, m, s

(* The energies predicted from after a loss are energies.                   *)
LEMMA RecoveredKept ==
  ASSUME DecKept(decst), NEW e \in Energies, NEW f, f.lm \in 0..3
  PROVE  Recovered(f, e) \in Energies
<1>1. decst.e2 \in Energies /\ decst.e3 \in Energies /\ decst.loss_duration \in Nat
  BY DEF DecKept
<1> DEFINE m == MinOf(10, decst.loss_duration \div Pow2(f.lm))
<1>2. m \in Int
  <2>1. f.lm \in 0..8
    OBVIOUS
  <2>2. Pow2(f.lm) \in Nat /\ Pow2(f.lm) >= 1
    BY <2>1, Powers
  <2>3. decst.loss_duration \div Pow2(f.lm) \in Int
    BY <1>1, <2>2, Dividing
  <2> QED
    BY <2>3 DEF MinOf
<1>3. Safety(f.lm) \in Int
  BY DEF Safety
<1> HIDE DEF m
<1>4. ASSUME NEW c \in 1..2, NEW j \in 1..NbBands
      PROVE (IF j - 1 \in f.start..(f.end - 1) THEN Careful(e[c][j], decst.e2[c][j], decst.e3[c][j], m) - Safety(f.lm) ELSE e[c][j]) \in Int
  <2>1. e[c][j] \in Int /\ decst.e2[c][j] \in Int /\ decst.e3[c][j] \in Int
    BY <1>1, EnergyAt
  <2>2. Careful(e[c][j], decst.e2[c][j], decst.e3[c][j], m) \in Int
    BY <1>2, <2>1, CarefulInt
  <2> QED
    BY <1>3, <2>1, <2>2
<1>5. Recovered(f, e) = [c \in 1..2 |-> [j \in 1..NbBands |->
        IF j - 1 \in f.start..(f.end - 1) THEN Careful(e[c][j], decst.e2[c][j], decst.e3[c][j], m) - Safety(f.lm) ELSE e[c][j]]]
  BY DEF Recovered, m
<1> QED
  BY <1>4, <1>5 DEF Energies

(* A lost frame fades: no band above the background gets louder, and none   *)
(* below it is touched.                                                     *)
LEMMA DecayedKept ==
  ASSUME DecKept(decst), NEW f
  PROVE  /\ Decayed(f) \in Energies
         /\ \A c \in 1..2, j \in 1..NbBands :
              \/ Decayed(f)[c][j] = decst.e[c][j]
              \/ /\ j - 1 \in f.start..(MaxOf(f.start, decst.last_end) - 1)
                 /\ Decayed(f)[c][j] >= decst.background[c][j]
                 /\ Decayed(f)[c][j] <= decst.e[c][j] \/ Decayed(f)[c][j] = decst.background[c][j]
<1> DEFINE decay == IF decst.loss_duration = 0 THEN 1536 ELSE 512
<1>1. decst.background \in Energies /\ decst.e \in Energies
  BY DEF DecKept
<1>2. decay \in Nat
  OBVIOUS
<1>3. Decayed(f) = [c \in 1..2 |-> [j \in 1..NbBands |->
            IF c <= tape.out /\ j - 1 \in f.start..(MaxOf(f.start, decst.last_end) - 1)
            THEN MaxOf(decst.background[c][j], decst.e[c][j] - decay)
            ELSE decst.e[c][j]]]
  BY DEF Decayed
<1> HIDE DEF decay
<1> DEFINE g == Decayed(f)
<1>4. ASSUME NEW c \in 1..2, NEW j \in 1..NbBands
      PROVE  /\ g[c][j] \in Int
             /\ \/ g[c][j] = decst.e[c][j]
                \/ /\ j - 1 \in f.start..(MaxOf(f.start, decst.last_end) - 1)
                   /\ g[c][j] >= decst.background[c][j]
                   /\ g[c][j] <= decst.e[c][j] \/ g[c][j] = decst.background[c][j]
  <2> DEFINE a == decst.background[c][j]
             b == decst.e[c][j]
             in == j - 1 \in f.start..(MaxOf(f.start, decst.last_end) - 1)
  <2>1. a \in Int /\ b \in Int
    BY <1>1, EnergyAt
  <2>2. g[c][j] = IF c <= tape.out /\ in THEN MaxOf(a, b - decay) ELSE b
    BY <1>3
  <2> HIDE DEF a, b, in, g
  <2>3. MaxOf(a, b - decay) \in Int /\ MaxOf(a, b - decay) >= a /\ (MaxOf(a, b - decay) <= b \/ MaxOf(a, b - decay) = a)
    BY <1>2, <2>1 DEF MaxOf
  <2>4. g[c][j] = b \/ (in /\ g[c][j] = MaxOf(a, b - decay))
    BY <2>2
  <2>5. g[c][j] \in Int /\ (g[c][j] = b \/ (in /\ g[c][j] >= a /\ (g[c][j] <= b \/ g[c][j] = a)))
    BY <2>1, <2>3, <2>4
  <2> QED
    BY <2>5 DEF a, b, in
<1>5. g \in Energies
  BY <1>3, <1>4 DEF Energies
<1> QED
  BY <1>4, <1>5 DEF g

-----------------------------------------------------------------------------
(* What an end knows of the frame at work.                                  *)
WorkShape(w) ==
    w = [silent |-> w.silent, pitch |-> w.pitch, transient |-> w.transient, p |-> w.p, s |-> w.s,
         tf |-> w.tf, spread |-> w.spread, boosts |-> w.boosts, boosted |-> w.boosted, trim |-> w.trim]

(* Nothing is known before the header.                                      *)
LEMMA NothingKnown == WorkShape(NoFrame)
<1> DEFINE q == NoPitch
           t == <<>>
<1>1. NoFrame = [silent |-> FALSE, pitch |-> q, transient |-> FALSE, p |-> 0, s |-> 0,
                 tf |-> t, spread |-> 2, boosts |-> t, boosted |-> 0, trim |-> 5]
  BY DEF NoFrame
<1> HIDE DEF q, t
<1> QED
  BY <1>1 DEF WorkShape

Heading(w, silent, pitch, transient, z) == z = [w EXCEPT !.silent = silent, !.pitch = pitch, !.transient = transient]
(* The frame in work with its header.                                       *)
LEMMA HeaderKnows ==
  ASSUME NEW w, WorkShape(w), NEW silent, NEW pitch, NEW transient, NEW z,
         Heading(w, silent, pitch, transient, z)
  PROVE  /\ WorkShape(z)
         /\ z.silent = silent
         /\ z.pitch = pitch
         /\ z.transient = transient
<1>1. PICK a, b, c, d, e, f, g, h, i, j :
        w = [silent |-> a, pitch |-> b, transient |-> c, p |-> d, s |-> e,
             tf |-> f, spread |-> g, boosts |-> h, boosted |-> i, trim |-> j]
  BY DEF WorkShape
<1>2. z
        = [silent |-> silent, pitch |-> pitch, transient |-> transient, p |-> d, s |-> e,
             tf |-> f, spread |-> g, boosts |-> h, boosted |-> i, trim |-> j]
  BY <1>1 DEF Heading
<1> QED
  BY <1>2 DEF WorkShape

HeadingRead(w, silent, pitch, transient, p, z) == z = [w EXCEPT !.silent = silent, !.pitch = pitch, !.transient = transient, !.p = p]
(* The frame in work with its header and bands, as the decoder holds it.    *)
LEMMA HeaderKnowsBands ==
  ASSUME NEW w, WorkShape(w), NEW silent, NEW pitch, NEW transient, NEW p, NEW z,
         HeadingRead(w, silent, pitch, transient, p, z)
  PROVE  /\ WorkShape(z)
         /\ z.silent = silent
         /\ z.pitch = pitch
         /\ z.transient = transient
         /\ z.p = p
<1>1. PICK a, b, c, d, e, f, g, h, i, j :
        w = [silent |-> a, pitch |-> b, transient |-> c, p |-> d, s |-> e,
             tf |-> f, spread |-> g, boosts |-> h, boosted |-> i, trim |-> j]
  BY DEF WorkShape
<1>2. z
        = [silent |-> silent, pitch |-> pitch, transient |-> transient, p |-> p, s |-> e,
             tf |-> f, spread |-> g, boosts |-> h, boosted |-> i, trim |-> j]
  BY <1>1 DEF HeadingRead
<1> QED
  BY <1>2 DEF WorkShape

Coarsening(w, s, p, z) == z = [w EXCEPT !.s = s, !.p = p]
(* The frame in work with its coarse energies.                              *)
LEMMA CoarseKnows ==
  ASSUME NEW w, WorkShape(w), NEW s, NEW p, NEW z,
         Coarsening(w, s, p, z)
  PROVE  /\ WorkShape(z)
         /\ z.s = s /\ z.p = p
         /\ z.silent = w.silent /\ z.pitch = w.pitch
         /\ z.transient = w.transient
<1>1. PICK a, b, c, d, e, f, g, h, i, j :
        w = [silent |-> a, pitch |-> b, transient |-> c, p |-> d, s |-> e,
             tf |-> f, spread |-> g, boosts |-> h, boosted |-> i, trim |-> j]
  BY DEF WorkShape
<1>2. z
        = [silent |-> a, pitch |-> b, transient |-> c, p |-> p, s |-> s,
             tf |-> f, spread |-> g, boosts |-> h, boosted |-> i, trim |-> j]
  BY <1>1 DEF Coarsening
<1>3. w.silent = a /\ w.pitch = b /\ w.transient = c
  BY <1>1
<1> QED
  BY <1>2, <1>3 DEF WorkShape

Choosing(w, tf, spread, boosts, boosted, trim, z) ==
    z = [w EXCEPT !.tf = tf, !.spread = spread, !.boosts = boosts, !.boosted = boosted, !.trim = trim]
(* The frame in work with its choices.                                      *)
LEMMA ChoicesKnow ==
  ASSUME NEW w, WorkShape(w), NEW tf, NEW spread, NEW boosts, NEW boosted, NEW trim, NEW z,
         Choosing(w, tf, spread, boosts, boosted, trim, z)
  PROVE  /\ WorkShape(z) /\ z.silent = w.silent /\ z.pitch = w.pitch /\ z.transient = w.transient /\ z.p = w.p /\ z.s = w.s
         /\ z.tf = tf /\ z.spread = spread /\ z.boosts = boosts /\ z.boosted = boosted /\ z.trim = trim
<1>1. PICK a, b, c, d, e, f, g, h, i, j :
        w = [silent |-> a, pitch |-> b, transient |-> c, p |-> d, s |-> e,
             tf |-> f, spread |-> g, boosts |-> h, boosted |-> i, trim |-> j]
  BY DEF WorkShape
<1>2. z = [silent |-> a, pitch |-> b, transient |-> c, p |-> d, s |-> e,
           tf |-> tf, spread |-> spread, boosts |-> boosts, boosted |-> boosted, trim |-> trim]
  BY <1>1 DEF Choosing
<1>3. w.silent = a /\ w.pitch = b /\ w.transient = c /\ w.p = d /\ w.s = e
  BY <1>1
<1> QED
  BY <1>2, <1>3 DEF WorkShape

-----------------------------------------------------------------------------
(* What the code is called with.                                            *)
LEMMA SoundsFramed ==
  ASSUME tape \in Clips, NEW n \in 1..Len(tape.sounds)
  PROVE  /\ Framed(tape.sounds[n]) /\ tape.sounds[n].pitch \in Pitches
         /\ tape.sounds[n].start = tape.sounds[1].start
<1> DEFINE f == tape.sounds[n]
<1>1. tape.channels \in 1..2 /\ Playable(tape, f)
  BY ClipsAssumption
<1> HIDE DEF f
<1>2. Sized(f)
  BY <1>1 DEF Playable, Sized
<1>3. Asking(f)
  BY <1>1 DEF Playable, Asking
<1>4. Rated(f)
  BY <1>1 DEF Playable, Rated
<1>5. f.transient \in BOOLEAN /\ f.levels \in Energies /\ f.spare \in Nat /\ f.pitch \in Pitches /\ f.start = tape.sounds[1].start
  BY <1>1 DEF Playable, Energies, Pitches
<1> QED
  BY <1>1, <1>2, <1>3, <1>4, <1>5 DEF Framed, f

(* No pitch sounds as no pitch.                                             *)
LEMMA NoPitchIs == NoPitch \in Pitches /\ NoPitch.g = 0 /\ Sounding(NoPitch) = NoPitch
<1>1. NoPitch = [t |-> 15, g |-> 0, tapset |-> 0]
  BY DEF NoPitch
<1>2. 15 \in 15..1022 /\ 0 \in 0..8 /\ 0 \in 0..2
  OBVIOUS
<1> QED
  BY <1>1, <1>2 DEF Pitches, Sounding

(* A pitch is asked for when it is worth its bits.                          *)
LEMMA FilteredWorth ==
  ASSUME NEW f, Framed(f), f.pitch \in Pitches
  PROVE  PitchWorth(f, Filtered(f, Plain(f)))
<1>1. CASE ~Filters(f, Plain(f))
  BY <1>1, NoPitchIs DEF Filtered, PitchWorth
<1>2. CASE Filters(f, Plain(f))
  <2>1. f.start = 0 /\ f.bytes - ((TellBits(Plain(f)) + 4) \div 8) > 12 * tape.channels
    BY <1>2 DEF Filters
  <2> DEFINE b == f.bytes - ((TellBits(Plain(f)) + 4) \div 8)
             m == tape.channels
  <2>2. m \in 1..2 /\ f.bytes \in Nat /\ f.tell0 \in Nat
    BY DEF Framed, Sized
  <2>3. b \in Int
    <3>1. Plain(f).frac = f.tell0
      BY DEF Plain, FreshCoder
    <3>2. TellBits(Plain(f)) \in Nat
      BY <2>2, <3>1 DEF TellBits
    <3> QED
      BY <2>2, <3>2
  <2> HIDE DEF b, m
  <2>4. b > 12
    BY <2>1, <2>2, <2>3 DEF b, m
  <2>5. Filtered(f, Plain(f)) = f.pitch
    BY <1>2 DEF Filtered
  <2> QED
    BY <2>1, <2>4, <2>5 DEF PitchWorth, b
<1> QED
  BY <1>1, <1>2

-----------------------------------------------------------------------------
(* What the ends keep, step by step.                                        *)
EncToSent(s, e1, q, n, z) == z = [s EXCEPT !.e = e1, !.pitch = q, !.transients = n]
DecToHeader(d, k, n, e1, z) == z = [d EXCEPT !.skip_plc = k, !.pitch.g = n, !.e = e1]
DecToCoarse(d, e1, z) == z = [d EXCEPT !.e = e1]

(* The delayed decision about prediction touches nothing else the encoder   *)
(* keeps.                                                                   *)
LEMMA EncDelayed ==
  ASSUME NEW s, EncKept(s), NEW v, NEW z, z = [s EXCEPT !.delayed = v]
  PROVE  EncKept(z) /\ z.e = s.e /\ z.pitch = s.pitch
<1>1. PICK a, b, c, d, e, f, g, h :
        s = [e |-> a, pitch |-> b, delayed |-> c, transients |-> d, reservoir |-> e, drift |-> f, offset |-> g, count |-> h]
  BY DEF EncKept
<1>2. z = [e |-> a, pitch |-> b, delayed |-> v, transients |-> d, reservoir |-> e, drift |-> f, offset |-> g, count |-> h]
  BY <1>1
<1>3. s.e = a /\ s.pitch = b /\ s.reservoir = e /\ s.drift = f /\ s.offset = g /\ s.count = h
  BY <1>1
<1>4. z.e = a /\ z.pitch = b /\ z.delayed = v /\ z.transients = d /\ z.reservoir = e /\ z.drift = f /\ z.offset = g /\ z.count = h
  BY <1>2
<1> QED
  BY <1>2, <1>3, <1>4 DEF EncKept

(* What the encoder keeps of a frame sent.                                  *)
LEMMA EncSent ==
  ASSUME NEW s, EncKept(s), NEW e1 \in Energies, NEW q, NEW n, NEW z, EncToSent(s, e1, q, n, z)
  PROVE  EncKept(z) /\ z.e = e1 /\ z.pitch = q
<1>1. PICK a, b, c, d, e, f, g, h :
        s = [e |-> a, pitch |-> b, delayed |-> c, transients |-> d, reservoir |-> e, drift |-> f, offset |-> g, count |-> h]
  BY DEF EncKept
<1>2. z = [e |-> e1, pitch |-> q, delayed |-> c, transients |-> n, reservoir |-> e, drift |-> f, offset |-> g, count |-> h]
  BY <1>1 DEF EncToSent
<1>3. s.reservoir = e /\ s.drift = f /\ s.offset = g /\ s.count = h
  BY <1>1
<1>4. z.e = e1 /\ z.pitch = q /\ z.delayed = c /\ z.transients = n /\ z.reservoir = e /\ z.drift = f /\ z.offset = g /\ z.count = h
  BY <1>2
<1> QED
  BY <1>2, <1>3, <1>4 DEF EncKept

(* A new encoder.                                                           *)
LEMMA EncNew == EncKept(NewCeltEncoder) /\ NewCeltEncoder.e = Spread(0) /\ NewCeltEncoder.pitch = NoPitch
<1> DEFINE a == Spread(0)
           b == NoPitch
<1>1. NewCeltEncoder = [e |-> a, pitch |-> b, delayed |-> 0, transients |-> 0, reservoir |-> 0, drift |-> 0, offset |-> 0, count |-> 0]
  BY DEF NewCeltEncoder
<1>2. a \in Energies
  BY FlatKept
<1> HIDE DEF a, b
<1> QED
  BY <1>1, <1>2 DEF EncKept, a, b

(* A new decoder is as quiet as a new encoder.                              *)
LEMMA DecNew ==
  /\ DecKept(NewCeltDecoder) /\ NewCeltDecoder.e = Spread(0) /\ NewCeltDecoder.background = Spread(0)
  /\ NewCeltDecoder.pitch = NoPitch /\ NewCeltDecoder.pitch_old = NoPitch /\ NewCeltDecoder.loss_duration = 0
  /\ NewCeltDecoder.last_end = NbBands
<1> DEFINE a == Spread(0)
           q == Spread(QUIET)
           b == NoPitch
           n == NbBands
<1>1. NewCeltDecoder = [e |-> a, e2 |-> q, e3 |-> q, background |-> a, pitch |-> b, pitch_old |-> b,
               loss_duration |-> 0, plc_duration |-> 0, skip_plc |-> TRUE, periodic |-> FALSE,
               fold |-> FALSE, last_end |-> n]
  BY DEF NewCeltDecoder
<1>2. a \in Energies /\ q \in Energies
  BY FlatKept
<1>3. PitchShape(b)
  BY DEF PitchShape, NoPitch
<1> HIDE DEF a, b, q, n
<1>4. 0 \in Nat
  OBVIOUS
<1> QED
  BY <1>1, <1>2, <1>3, <1>4 DEF DecKept, DecShape, a, b, n

(* The header tells the decoder to predict carefully, and a hybrid stream   *)
(* has no pitch filter.                                                     *)
LEMMA DecHeader ==
  ASSUME NEW d, DecKept(d), NEW k, NEW n, NEW e1 \in Energies, NEW z, DecToHeader(d, k, n, e1, z)
  PROVE  /\ DecKept(z) /\ z.e = e1 /\ z.pitch = [t |-> d.pitch.t, g |-> n, tapset |-> d.pitch.tapset]
         /\ z.pitch_old = d.pitch_old /\ z.background = d.background /\ z.last_end = d.last_end
         /\ z.loss_duration = d.loss_duration
<1>1. PICK a, b, c, f, t, g, m, p, l1, l2, s, r, o, u :
        d = [e |-> a, e2 |-> b, e3 |-> c, background |-> f, pitch |-> [t |-> t, g |-> g, tapset |-> m], pitch_old |-> p,
             loss_duration |-> l1, plc_duration |-> l2, skip_plc |-> s, periodic |-> r, fold |-> o, last_end |-> u]
  BY DEF DecKept, DecShape, PitchShape
<1>2. z = [e |-> e1, e2 |-> b, e3 |-> c, background |-> f, pitch |-> [t |-> t, g |-> n, tapset |-> m], pitch_old |-> p,
             loss_duration |-> l1, plc_duration |-> l2, skip_plc |-> k, periodic |-> r, fold |-> o, last_end |-> u]
  BY <1>1 DEF DecToHeader
<1>3. d.e2 = b /\ d.e3 = c /\ d.background = f /\ d.pitch.t = t /\ d.pitch.tapset = m /\ d.pitch_old = p
      /\ d.loss_duration = l1 /\ d.last_end = u
  BY <1>1
<1> DEFINE w == [t |-> t, g |-> n, tapset |-> m]
<1>5. z.pitch = w /\ DecShape(z) /\ z.e = e1 /\ z.e2 = b /\ z.e3 = c /\ z.background = f /\ z.pitch_old = p
      /\ z.loss_duration = l1 /\ z.last_end = u
  <2>1. z = [e |-> e1, e2 |-> b, e3 |-> c, background |-> f, pitch |-> w, pitch_old |-> p,
             loss_duration |-> l1, plc_duration |-> l2, skip_plc |-> k, periodic |-> r, fold |-> o, last_end |-> u]
    BY <1>2
  <2> HIDE DEF w
  <2> QED
    BY <2>1 DEF DecShape
<1>6. PitchShape(z.pitch)
  BY <1>5 DEF PitchShape
<1> QED
  BY <1>3, <1>5, <1>6 DEF DecKept

(* What the decoder keeps after the coarse energies.                        *)
LEMMA DecCoarse ==
  ASSUME NEW d, DecKept(d), NEW e1 \in Energies, NEW z, DecToCoarse(d, e1, z)
  PROVE  /\ DecKept(z) /\ z.e = e1 /\ z.pitch = d.pitch /\ z.pitch_old = d.pitch_old /\ z.background = d.background
         /\ z.last_end = d.last_end /\ z.loss_duration = d.loss_duration
<1>1. PICK a, b, c, f, q, p, l1, l2, s, r, o, u :
        d = [e |-> a, e2 |-> b, e3 |-> c, background |-> f, pitch |-> q, pitch_old |-> p,
             loss_duration |-> l1, plc_duration |-> l2, skip_plc |-> s, periodic |-> r, fold |-> o, last_end |-> u]
  BY DEF DecKept, DecShape
<1>2. z = [e |-> e1, e2 |-> b, e3 |-> c, background |-> f, pitch |-> q, pitch_old |-> p,
             loss_duration |-> l1, plc_duration |-> l2, skip_plc |-> s, periodic |-> r, fold |-> o, last_end |-> u]
  BY <1>1 DEF DecToCoarse
<1>3. d.e2 = b /\ d.e3 = c /\ d.background = f /\ d.pitch = q /\ d.pitch_old = p /\ d.loss_duration = l1 /\ d.last_end = u
  BY <1>1
<1>4. DecShape(z)
  BY <1>2 DEF DecShape
<1>5. z.e = e1 /\ z.e2 = b /\ z.e3 = c /\ z.background = f /\ z.pitch = q /\ z.pitch_old = p /\ z.loss_duration = l1 /\ z.last_end = u
  BY <1>2
<1> QED
  BY <1>3, <1>4, <1>5 DEF DecKept

(* A decoded frame.                                                         *)
DecHolds(p, e, new, z) ==
    /\ DecKept(z) /\ z.e = Coded(p, e, 0) /\ z.background = Background(e, p.lm)
    /\ z.pitch = new /\ z.pitch_old = (IF p.lm > 0 THEN new ELSE decst.pitch)
    /\ z.loss_duration = 0 /\ z.last_end = p.end

DecToKept(p, e, transient, new, z) == z = Kept(p, e, transient, new)

(* What the decoder keeps of a frame decoded: the pitch filters move on,    *)
(* the background rises to the frame's energies at most.                    *)
LEMMA DecFrame ==
  ASSUME DecKept(decst), NEW p, p.lm \in 0..3, NEW e1 \in Energies, NEW transient, NEW new, PitchShape(new),
         NEW z, DecToKept(p, e1, transient, new, z)
  PROVE  DecHolds(p, e1, new, z)
<1> DEFINE g == Coded(p, e1, 0)
           g2 == Coded(p, IF transient THEN Lower(decst.e2, e1) ELSE e1, QUIET)
           g3 == Coded(p, IF transient THEN decst.e3 ELSE decst.e2, QUIET)
           k == Background(e1, p.lm)
           old == IF p.lm > 0 THEN new ELSE decst.pitch
           n == p.end
<1>1. PICK a, b, c, f, q, h, l1, l2, s, r, o, u :
        decst = [e |-> a, e2 |-> b, e3 |-> c, background |-> f, pitch |-> q, pitch_old |-> h,
             loss_duration |-> l1, plc_duration |-> l2, skip_plc |-> s, periodic |-> r, fold |-> o, last_end |-> u]
  BY DEF DecKept, DecShape
<1>2. z = [decst EXCEPT !.e = g, !.e2 = g2, !.e3 = g3, !.background = k, !.pitch = new, !.pitch_old = old,
                  !.fold = FALSE, !.loss_duration = 0, !.plc_duration = 0, !.periodic = FALSE, !.last_end = n]
  <2>1. Remembered(p.lm, new).pitch = new /\ Remembered(p.lm, new).pitch_old = old
    BY DEF Remembered
  <2> QED
    BY <2>1 DEF DecToKept, Kept
<1>3. g \in Energies /\ g2 \in Energies /\ g3 \in Energies /\ k \in Energies
  <2>1. decst.e2 \in Energies /\ decst.e3 \in Energies /\ 0 \in Int /\ QUIET \in Int
    BY FlatKept DEF DecKept
  <2>2. Lower(decst.e2, e1) \in Energies
    BY <2>1, LowerKept
  <2>3. k \in Energies
    BY BackgroundKept
  <2>4. g \in Energies
    BY <2>1, CodedKept
  <2>5. g2 \in Energies
    BY <2>1, <2>2, CodedKept
  <2>6. g3 \in Energies
    BY <2>1, CodedKept
  <2> QED
    BY <2>3, <2>4, <2>5, <2>6
<1> HIDE DEF g, g2, g3, k, old, n
<1>4. z = [e |-> g, e2 |-> g2, e3 |-> g3, background |-> k, pitch |-> new, pitch_old |-> old,
             loss_duration |-> 0, plc_duration |-> 0, skip_plc |-> s, periodic |-> FALSE, fold |-> FALSE, last_end |-> n]
  BY <1>1, <1>2
<1>5. DecShape(z) /\ z.e = g /\ z.e2 = g2 /\ z.e3 = g3 /\ z.background = k /\ z.pitch = new /\ z.pitch_old = old
      /\ z.loss_duration = 0 /\ z.last_end = n
  BY <1>4 DEF DecShape
<1>6. DecKept(z)
  <2>1. 0 \in Nat
    OBVIOUS
  <2> QED
    BY <1>3, <1>5, <2>1 DEF DecKept
<1> QED
  BY <1>5, <1>6 DEF DecHolds, g, k, old, n

(* A frame concealed.                                                       *)
DecHidden(f, z) ==
    /\ DecKept(z) /\ z.e = (IF Noise(f) THEN Decayed(f) ELSE decst.e) /\ z.background = decst.background
    /\ z.pitch = decst.pitch /\ z.last_end = decst.last_end

DecToHide(f, z) == z = Concealed(f, IF Noise(f) THEN WithNoise(f) ELSE WithPitch)

(* What the decoder keeps of a frame it concealed: nothing is louder than   *)
(* before.                                                                  *)
LEMMA DecLost ==
  ASSUME DecKept(decst), NEW f, f.lm \in 0..3, NEW z, DecToHide(f, z)
  PROVE  DecHidden(f, z)
<1> DEFINE m == Noise(f)
           g == IF m THEN Decayed(f) ELSE decst.e
           y == IF m THEN WithNoise(f) ELSE WithPitch
           h2 == Decayed(f)
<1>1. PICK a, b, c, k, q, h, l1, l2, s, r, o, u :
        decst = [e |-> a, e2 |-> b, e3 |-> c, background |-> k, pitch |-> q, pitch_old |-> h,
             loss_duration |-> l1, plc_duration |-> l2, skip_plc |-> s, periodic |-> r, fold |-> o, last_end |-> u]
  BY DEF DecKept, DecShape
<1>2. WithNoise(f) = [decst EXCEPT !.e = h2, !.pitch_old = decst.pitch, !.fold = FALSE, !.skip_plc = TRUE]
      /\ WithPitch = [decst EXCEPT !.fold = TRUE]
  BY DEF WithNoise, WithPitch
<1>3. h2 \in Energies /\ decst.e \in Energies /\ l1 \in Nat
  BY <1>1, DecayedKept DEF DecKept
<1>4. Pow2(f.lm) \in Nat
  <2>1. f.lm \in 0..8
    OBVIOUS
  <2> QED
    BY <2>1, Powers
<1>5. z = Concealed(f, y) /\ (m \in BOOLEAN)
  BY DEF DecToHide, Noise
<1> DEFINE v == Pow2(f.lm)
           w == ~Noise(f)
<1>6. Concealed(f, y) = [y EXCEPT !.loss_duration = MinOf(10000, y.loss_duration + v), !.plc_duration = MinOf(10000, y.plc_duration + v),
              !.periodic = w]
  BY DEF Concealed
<1>7. g = IF m THEN h2 ELSE a
  BY <1>1
<1>8. y = IF m THEN WithNoise(f) ELSE WithPitch
  OBVIOUS
<1> HIDE DEF m, g, y, h2, v, w
<1>9. PICK p1, s1, o1 :
         y = [e |-> g, e2 |-> b, e3 |-> c, background |-> k, pitch |-> q, pitch_old |-> p1,
             loss_duration |-> l1, plc_duration |-> l2, skip_plc |-> s1, periodic |-> r, fold |-> o1, last_end |-> u]
  <2>1. CASE m
    <3>1. y = [e |-> g, e2 |-> b, e3 |-> c, background |-> k, pitch |-> q, pitch_old |-> q,
             loss_duration |-> l1, plc_duration |-> l2, skip_plc |-> TRUE, periodic |-> r, fold |-> FALSE, last_end |-> u]
      BY <1>1, <1>2, <1>7, <1>8, <2>1
    <3> QED
      BY <3>1
  <2>2. CASE ~m
    <3>1. y = [e |-> g, e2 |-> b, e3 |-> c, background |-> k, pitch |-> q, pitch_old |-> h,
             loss_duration |-> l1, plc_duration |-> l2, skip_plc |-> s, periodic |-> r, fold |-> TRUE, last_end |-> u]
      BY <1>1, <1>2, <1>7, <1>8, <2>2
    <3> QED
      BY <3>1
  <2> QED
    BY <2>1, <2>2
<1> DEFINE l3 == MinOf(10000, y.loss_duration + v)
           l4 == MinOf(10000, y.plc_duration + v)
<1>10. /\ z = [e |-> g, e2 |-> b, e3 |-> c, background |-> k, pitch |-> q, pitch_old |-> p1,
                loss_duration |-> l3, plc_duration |-> l4, skip_plc |-> s1, periodic |-> w, fold |-> o1, last_end |-> u]
       /\ l3 = MinOf(10000, l1 + v)
  <2>1. y.loss_duration = l1
    BY <1>9
  <2>2. l3 = MinOf(10000, l1 + v)
    BY <2>1
  <2>3. z = [y EXCEPT !.loss_duration = l3, !.plc_duration = l4, !.periodic = w]
    BY <1>5, <1>6
  <2> HIDE DEF l3, l4
  <2>4. z = [e |-> g, e2 |-> b, e3 |-> c, background |-> k, pitch |-> q, pitch_old |-> p1,
             loss_duration |-> l3, plc_duration |-> l4, skip_plc |-> s1, periodic |-> w, fold |-> o1, last_end |-> u]
    BY <1>9, <2>3
  <2> QED
    BY <2>2, <2>4
<1> HIDE DEF l3, l4
<1>11. l3 \in Nat
  <2>1. v \in Nat
    BY <1>4 DEF v
  <2> QED
    BY <1>3, <1>10, <2>1 DEF MinOf
<1>12. DecShape(z) /\ z.e = g /\ z.e2 = b /\ z.e3 = c /\ z.background = k /\ z.pitch = q /\ z.pitch_old = p1
      /\ z.loss_duration = l3 /\ z.last_end = u
  BY <1>10 DEF DecShape
<1>13. b \in Energies /\ c \in Energies /\ k \in Energies /\ PitchShape(q)
  BY <1>1 DEF DecKept
<1>14. g \in Energies
  BY <1>1, <1>3, <1>7
<1>15. DecKept(z)
  BY <1>11, <1>12, <1>13, <1>14 DEF DecKept
<1>16. decst.background = k /\ decst.pitch = q /\ decst.last_end = u
  BY <1>1
<1> QED
  BY <1>12, <1>15, <1>16 DEF DecHidden, g, m, h2

-----------------------------------------------------------------------------
(* What holds of both ends between the steps.                               *)
TURNS == {"record", "coarse", "choices", "size", "bands", "air", "uncoarse", "unchoices", "unbands", "heard"}
PairShape(q) ==
    q = [before |-> q.before, applied |-> q.applied, heard |-> q.heard, streak |-> q.streak,
         apart |-> q.apart, hushed |-> q.hushed, strayed |-> q.strayed]
FrameTypes ==
    /\ tape \in Clips /\ spool \in 0..Len(tape.sounds) /\ turn \in TURNS /\ (turn # "record" => spool >= 1)
    /\ EncKept(encst) /\ DecKept(decst) /\ WorkShape(work)
    /\ PairShape(pairing) /\ pairing.apart \in BOOLEAN /\ pairing.hushed \in BOOLEAN /\ pairing.strayed \in BOOLEAN

(* The decoder remembers what the encoder does, e, unless a loss, a silent  *)
(* frame or one that strayed came between.                                  *)
Tied(e) ==
    /\ decst.loss_duration # 0 => pairing.apart
    /\ ~pairing.apart /\ tape.channels = 1 => decst.e[1] = decst.e[2]
    /\ ~pairing.apart /\ ~pairing.hushed => \A c \in 1..tape.channels : decst.e[c] = e[c]
(* The frame is predicted from the same energies, if from any.              *)
Abreast(h) == h.intra \/ (~pairing.apart /\ ~pairing.hushed)
SparedAt(f, h) == Spared(CoarseStart(Front(f, h), Par(f, h), h.eb), Par(f, h), f.levels)

Levelled(f, h) == [e |-> Lev(f, h).e, error |-> Lev(f, h).error]
EncKnows(f, h) == work.p = Par(f, h) /\ work.s = Levelled(f, h) /\ work.transient = Short(f, h) /\ work.pitch = h.pitch
Sent(f, h) == encst.e = Coded(Par(f, h), Whole(f, h).e, 0) /\ encst.pitch = h.pitch
DecKnows(f, h) ==
    /\ SameBands(Par(f, h), work.p) /\ work.transient = Short(f, h)
    /\ PitchAlike(f, h.pitch, work.pitch) /\ PitchShape(work.pitch)

(* Turn by turn, h being what the encoder decided of the frame.             *)
AtCoarse(f, h) ==
    /\ Fair1(f, h) /\ rcod = Front(f, h) /\ work.pitch = h.pitch /\ work.transient = Short(f, h)
    /\ Tied(encst.e)
AtChoices(f, h) ==
    /\ Fair2(f, h) /\ rcod = Lev(f, h).rc /\ EncKnows(f, h) /\ h.eb = encst.e
    /\ Tied(encst.e) /\ (~pairing.strayed => SparedAt(f, h))
AtSize(f, h) ==
    /\ Fair2(f, h) /\ rcod = Told(f, h) /\ EncKnows(f, h) /\ h.eb = encst.e
    /\ SameChoices(Decided(f, h), work) /\ work.boosted = Picked(f, h).total
    /\ Tied(encst.e) /\ (~pairing.strayed => SparedAt(f, h))
AtBands(f, h) ==
    /\ Fair3(f, h) /\ rcod = Cut(f, h) /\ EncKnows(f, h) /\ h.eb = encst.e
    /\ SameChoices(Decided(f, h), work)
    /\ Tied(encst.e) /\ (~pairing.strayed => SparedAt(f, h))
AtAir(f, h) ==
    /\ Fair3(f, h) /\ rcod = Whole(f, h).rc /\ Sent(f, h)
    /\ Tied(h.eb) /\ (~pairing.strayed => SparedAt(f, h))
AtUncoarse(f, h) ==
    /\ Fair3(f, h) /\ Sent(f, h) /\ DecKnows(f, h)
    /\ Follows(rcod, Intra(Front(f, h), Par(f, h)), Symbols(f, h)) /\ rcod.bytes = h.n /\ work.p.budget = TotalBits(rcod)
    /\ (~pairing.strayed => SparedAt(f, h)) /\ (Abreast(h) => SameUpTo(Par(f, h), 0, h.eb, decst.e))
AtUnchoices(f, h) ==
    /\ Fair3(f, h) /\ Sent(f, h) /\ DecKnows(f, h)
    /\ Follows(rcod, Lev(f, h).rc, Symbols(f, h)) /\ rcod.bytes = h.n
    /\ Abreast(h) /\ ~pairing.strayed => Same(Par(f, h), Lev(f, h).e, decst.e)
AtUnbands(f, h) ==
    /\ Fair3(f, h) /\ Sent(f, h) /\ DecKnows(f, h) /\ SameChoices(Decided(f, h), work)
    /\ Follows(rcod, Told(f, h), Symbols(f, h)) /\ rcod.bytes = h.n
    /\ Abreast(h) /\ ~pairing.strayed => Same(Par(f, h), Lev(f, h).e, decst.e)
Between == rcod.ok /\ Tied(encst.e)
AtHeard == Between /\ TellBits(rcod) <= TotalBits(rcod) /\ rcod.place = Len(rcod.syms)

Coarse == \E f, h : f = Sound /\ AtCoarse(f, h)
Deciding == \E f, h : f = Sound /\ AtChoices(f, h)
Sizing == \E f, h : f = Sound /\ AtSize(f, h)
Banding == \E f, h : f = Sound /\ AtBands(f, h)
Airing == \E f, h : f = Sound /\ AtAir(f, h)
Uncoarse == \E f, h : f = Sound /\ AtUncoarse(f, h)
Unchoosing == \E f, h : f = Sound /\ AtUnchoices(f, h)
Unbanding == \E f, h : f = Sound /\ AtUnbands(f, h)

FrameInv ==
    /\ FrameTypes
    /\ turn = "record" => Between
    /\ turn = "coarse" => Coarse
    /\ turn = "choices" => Deciding
    /\ turn = "size" => Sizing
    /\ turn = "bands" => Banding
    /\ turn = "air" => Airing
    /\ turn = "uncoarse" => Uncoarse
    /\ turn = "unchoices" => Unchoosing
    /\ turn = "unbands" => Unbanding
    /\ turn = "heard" => AtHeard

(* The tape is not cut: what a frame is does not change while it is at work. *)
Stays(f, h) ==
    /\ Front(f, h)' = Front(f, h) /\ Short(f, h)' = Short(f, h) /\ Par(f, h)' = Par(f, h) /\ Lev(f, h)' = Lev(f, h)
    /\ Picked(f, h)' = Picked(f, h) /\ Told(f, h)' = Told(f, h) /\ Cut(f, h)' = Cut(f, h) /\ Decided(f, h)' = Decided(f, h)
    /\ Whole(f, h)' = Whole(f, h) /\ Symbols(f, h)' = Symbols(f, h) /\ Levelled(f, h)' = Levelled(f, h)
    /\ (Fair1(f, h) => Fair1(f, h)') /\ (Fair2(f, h) => Fair2(f, h)') /\ (Fair3(f, h) => Fair3(f, h)')
    /\ (SparedAt(f, h) => SparedAt(f, h)')

(* A frame's story depends on the clip alone, which no step changes.        *)
LEMMA StoryStays ==
  ASSUME NEW f, NEW h, tape' = tape
  PROVE  Stays(f, h)
<1>1. Front(f, h)' = Front(f, h) /\ Short(f, h)' = Short(f, h)
  OBVIOUS
<1>2. Par(f, h)' = Par(f, h)
  BY <1>1 DEF Par, Params
<1>3. Lev(f, h)' = Lev(f, h)
  BY <1>1, <1>2 DEF Lev
<1>4. Picked(f, h)' = Picked(f, h) /\ Told(f, h)' = Told(f, h) /\ TfDecided(f, h)' = TfDecided(f, h)
  BY <1>1, <1>2, <1>3 DEF Picked, Told, TfDecided
<1>5. Cut(f, h)' = Cut(f, h)
  BY <1>4 DEF Cut
<1>6. SpreadDecided(f, h)' = SpreadDecided(f, h) /\ TrimDecided(f, h)' = TrimDecided(f, h)
  BY <1>4 DEF SpreadDecided, TrimDecided
<1>7. Decided(f, h)' = Decided(f, h)
  BY <1>1, <1>3, <1>4, <1>6 DEF Decided
<1>8. Whole(f, h)' = Whole(f, h)
  BY <1>2, <1>5, <1>7 DEF Whole
<1>9. Symbols(f, h)' = Symbols(f, h) /\ Levelled(f, h)' = Levelled(f, h)
  BY <1>3, <1>8 DEF Symbols, Levelled
<1>10. Fair1(f, h) => Fair1(f, h)'
  BY DEF Fair1, Framed
<1>11. Fair2(f, h) => Fair2(f, h)'
  BY <1>1, <1>10 DEF Fair2
<1>12. Fair3(f, h) => Fair3(f, h)'
  BY <1>4, <1>11 DEF Fair3
<1>13. SparedAt(f, h) => SparedAt(f, h)'
  BY <1>1, <1>2 DEF SparedAt
<1> QED
  BY <1>1, <1>2, <1>3, <1>4, <1>5, <1>7, <1>8, <1>9, <1>10, <1>11, <1>12, <1>13 DEF Stays

-----------------------------------------------------------------------------
(* The encoder's steps.                                                     *)
PairMade(q, applied, before, z) == z = [q EXCEPT !.applied = applied, !.before = before]
(* The record of a frame coded: which crossfades were made.                 *)
LEMMA PairCoded ==
  ASSUME NEW q, PairShape(q), NEW a, NEW b, NEW z, PairMade(q, a, b, z)
  PROVE  /\ PairShape(z) /\ z.apart = q.apart /\ z.hushed = q.hushed /\ z.streak = q.streak /\ z.heard = q.heard
         /\ z.applied = a /\ z.before = b /\ z.strayed = q.strayed
<1>1. PICK c, d, e, f, g, h, i :
        q = [before |-> c, applied |-> d, heard |-> e, streak |-> f, apart |-> g, hushed |-> h, strayed |-> i]
  BY DEF PairShape
<1>2. z = [before |-> b, applied |-> a, heard |-> e, streak |-> f, apart |-> g, hushed |-> h, strayed |-> i]
  BY <1>1 DEF PairMade
<1>3. q.heard = e /\ q.streak = f /\ q.apart = g /\ q.hushed = h /\ q.strayed = i
  BY <1>1
<1>4. z.before = b /\ z.applied = a /\ z.heard = e /\ z.streak = f /\ z.apart = g /\ z.hushed = h /\ z.strayed = i
  BY <1>2
<1> QED
  BY <1>2, <1>3, <1>4 DEF PairShape

(* The header is coded.                                                     *)
HeaderDone(f, pitch) ==
    /\ tape' = tape /\ spool' = spool + 1 /\ turn' = "coarse" /\ encst' = encst /\ decst' = decst
    /\ rcod' = HeaderCoded(f, pitch)
    /\ work' = [NoFrame EXCEPT !.silent = WasSilent(f), !.pitch = pitch, !.transient = CodedTransient(f, pitch)]
    /\ PairMade(pairing, IF Filters(f, Plain(f)) THEN FilterUnits(f.lm, encst.pitch, pitch) ELSE <<>>, pairing.applied, pairing')

(* What EncodeHeader does, in the terms of the story.                       *)
LEMMA HeaderStep ==
  ASSUME EncodeHeader
  PROVE  HeaderDone(tape.sounds[spool + 1], Filtered(tape.sounds[spool + 1], Plain(tape.sounds[spool + 1])))
<1> DEFINE f == tape.sounds[spool + 1]
           pitch == Filtered(f, Plain(f))
<1>1. /\ tape' = tape /\ spool' = spool + 1 /\ turn' = "coarse" /\ encst' = encst /\ decst' = decst
  BY DEF EncodeHeader
<1> DEFINE P7(g, opened, silent, was, tuned, flagged) ==
               /\ rcod' = flagged
               /\ work' = [NoFrame EXCEPT !.silent = silent, !.pitch = was,
                                          !.transient = g.transient /\ TransientSent(tuned, g.lm)]
               /\ pairing' = [pairing EXCEPT
                      !.applied = IF Filters(g, opened) THEN FilterUnits(g.lm, encst.pitch, was) ELSE <<>>,
                      !.before = pairing.applied]
           P6(g, opened, silent, was, tuned) ==
               \E flagged \in {IF TransientSent(tuned, g.lm) THEN EncBit(tuned, 3, g.transient) ELSE tuned} :
                  P7(g, opened, silent, was, tuned, flagged)
           P5(g, opened, hush, silent, was) ==
               \E tuned \in {IF PitchSent(hush, g.start, silent) THEN EncPitch(hush, was) ELSE hush} : P6(g, opened, silent, was, tuned)
           P4(g, opened, hush, silent) == \E was \in {Filtered(g, opened)} : P5(g, opened, hush, silent, was)
           P3(g, opened, hush) == \E silent \in {g.silent /\ TellBits(opened) = 1} : P4(g, opened, hush, silent)
           P2(g, opened) == \E hush \in {EncSilence(opened, g.silent, g.vbr)} : P3(g, opened, hush)
           P1(g) == \E opened \in {FreshCoder(g, g.bytes, <<>>)} : P2(g, opened)
<1>2. \E g \in {tape.sounds[spool + 1]} : P1(g)
  BY DEF EncodeHeader
<1> HIDE DEF P1, P2, P3, P4, P5, P6, P7
<1>3. P1(f)
  BY <1>2
<1>4. P2(f, Plain(f))
  BY <1>3 DEF P1, Plain
<1>5. P3(f, Plain(f), HushSent(f))
  BY <1>4 DEF P2, HushSent
<1>6. P4(f, Plain(f), HushSent(f), WasSilent(f))
  BY <1>5 DEF P3, WasSilent
<1>7. P5(f, Plain(f), HushSent(f), WasSilent(f), pitch)
  BY <1>6 DEF P4
<1>8. P6(f, Plain(f), WasSilent(f), pitch, PitchCoded(f, pitch))
  BY <1>7 DEF P5, PitchCoded
<1>9. P7(f, Plain(f), WasSilent(f), pitch, PitchCoded(f, pitch), HeaderCoded(f, pitch))
  BY <1>8 DEF P6, HeaderCoded
<1>10. (f.transient /\ TransientSent(PitchCoded(f, pitch), f.lm)) = CodedTransient(f, pitch)
  BY DEF CodedTransient
<1> QED
  BY <1>1, <1>9, <1>10 DEF P7, HeaderDone, PairMade

(* Energies in step stay so in a step that leaves the decoder alone.        *)
LEMMA TiedStays ==
  ASSUME NEW e, tape' = tape, decst' = decst, pairing'.apart = pairing.apart, pairing'.hushed = pairing.hushed, Tied(e)
  PROVE  Tied(e)'
BY DEF Tied

(* EncodeHeader begins the story of a frame.                                *)
LEMMA HeaderGoes ==
  ASSUME FrameTypes, turn = "record", Between, EncodeHeader
  PROVE  FrameTypes' /\ turn' = "coarse" /\ Coarse'
<1>0a. PICK f : f = tape.sounds[spool + 1]
  OBVIOUS
<1>0b. PICK pitch : pitch = Filtered(f, Plain(f))
  OBVIOUS
<1>0c. PICK h : h = [pitch |-> pitch]
  OBVIOUS
<1>1. HeaderDone(f, pitch)
  BY <1>0a, <1>0b, HeaderStep
<1>2. spool + 1 \in 1..Len(tape.sounds) /\ Len(tape.sounds) \in Nat /\ spool \in Nat
  <2>1. spool < Len(tape.sounds) /\ tape \in Clips /\ spool \in 0..Len(tape.sounds)
    BY DEF EncodeHeader, FrameTypes
  <2>2. Len(tape.sounds) \in Nat
    BY <2>1, ClipsAssumption
  <2> QED
    BY <2>1, <2>2
<1>3. Framed(f) /\ f.pitch \in Pitches
  BY <1>0a, <1>2, SoundsFramed DEF FrameTypes
<1>4. PitchWorth(f, pitch)
  BY <1>0b, <1>3, FilteredWorth
<1>5. h.pitch = pitch
  BY <1>0c
<1>6. Fair1(f, h)
  BY <1>3, <1>4, <1>5 DEF Fair1
<1>7. /\ tape' = tape /\ spool' = spool + 1 /\ turn' = "coarse" /\ encst' = encst /\ decst' = decst
      /\ rcod' = Front(f, h)
  BY <1>1, <1>5 DEF HeaderDone, Front
<1>8. WorkShape(work') /\ work'.pitch = pitch /\ work'.transient = Short(f, h)
  <2> DEFINE w == work'
             a == WasSilent(f)
             t == CodedTransient(f, pitch)
  <2>1. w = [NoFrame EXCEPT !.silent = a, !.pitch = pitch, !.transient = t]
    BY <1>1 DEF HeaderDone
  <2>2. t = Short(f, h)
    BY <1>5 DEF Short
  <2> DEFINE n == NoFrame
  <2>0. WorkShape(n) /\ Heading(n, a, pitch, t, w)
    BY <2>1, NothingKnown DEF Heading
  <2> HIDE DEF n, w, a, t
  <2>3. WorkShape(w) /\ w.pitch = pitch /\ w.transient = t
    BY <2>0, HeaderKnows
  <2> QED
    BY <2>2, <2>3 DEF w
<1>9. PairShape(pairing') /\ pairing'.apart = pairing.apart /\ pairing'.hushed = pairing.hushed /\ pairing'.strayed = pairing.strayed
  <2> DEFINE a == IF Filters(f, Plain(f)) THEN FilterUnits(f.lm, encst.pitch, pitch) ELSE <<>>
  <2>1. PairMade(pairing, a, pairing.applied, pairing') /\ PairShape(pairing)
    BY <1>1 DEF HeaderDone, FrameTypes
  <2> HIDE DEF a
  <2> QED
    BY <2>1, PairCoded
<1>10. tape'.sounds[spool'] = f
  BY <1>0a, <1>7
<1>11. Stays(f, h)
  BY <1>7, StoryStays
<1>12. AtCoarse(f, h)'
  <2>1. Tied(encst.e)'
    BY <1>7, <1>9, TiedStays DEF Between, Tied
  <2>2. Fair1(f, h)' /\ rcod' = Front(f, h)' /\ work'.pitch = h.pitch /\ work'.transient = Short(f, h)'
    BY <1>5, <1>6, <1>7, <1>8, <1>11 DEF Stays
  <2> QED
    BY <2>1, <2>2 DEF AtCoarse
<1>13. Coarse'
  <2>1. Sound' = f
    BY <1>10 DEF Sound
  <2> QED
    BY <1>12, <2>1 DEF Coarse
<1>14. FrameTypes'
  BY <1>2, <1>7, <1>8, <1>9 DEF FrameTypes, TURNS
<1> QED
  BY <1>7, <1>13, <1>14

-----------------------------------------------------------------------------
(* With prediction or without, one of the two is coded.                     *)
QuantAsked(rc, p, x, e, delayed, two, force, q) ==
    two \in BOOLEAN /\ force \in BOOLEAN /\ q = quant_coarse_energy(rc, p, x, e, delayed, two, force)
QuantMade(rc, p, x, e, q) ==
    \E i \in BOOLEAN : /\ q.intra = i /\ q.s = quant_coarse_energy_impl(rc, [p EXCEPT !.intra = i], x, e)
                       /\ i => TellBits(rc) + 3 <= p.budget

(* quant_coarse_energy leaves what one of its two trials left, the other    *)
(* rewound.                                                                 *)
LEMMA QuantChooses ==
  ASSUME NEW rc, NEW p, NEW x, NEW e, NEW delayed, NEW two, NEW force, NEW q, QuantAsked(rc, p, x, e, delayed, two, force, q)
  PROVE  QuantMade(rc, p, x, e, q)
<1>0. two \in BOOLEAN /\ force \in BOOLEAN /\ q = quant_coarse_energy(rc, p, x, e, delayed, two, force)
  BY DEF QuantAsked
<1> DEFINE room == TellBits(rc) + 3 <= p.budget
           weary == ~two /\ delayed > 128 * Steps(p) /\ (p.budget \div 8) > Steps(p)
           both == two /\ room
           intra == room /\ (force \/ weary)
           with == quant_coarse_energy_impl(rc, [p EXCEPT !.intra = FALSE], x, e)
           without == quant_coarse_energy_impl(rc, [p EXCEPT !.intra = TRUE], x, e)
           lost == loss_distortion(p, x, e)
<1>1. q = Chosen(p, delayed, both, intra, with, without, lost)
  BY <1>0 DEF quant_coarse_energy
<1>2. Takes(both, intra, with, without) => room
  BY <1>0 DEF Takes
<1> HIDE DEF both, intra, with, without, lost, room
<1>3. CASE Takes(both, intra, with, without)
  <2>1. q = Outcome(p, delayed, without, TRUE, lost)
    BY <1>1, <1>3 DEF Chosen
  <2>2. q.intra = TRUE /\ q.s = without
    BY <2>1 DEF Outcome
  <2> QED
    BY <1>2, <1>3, <2>2 DEF QuantMade, without, room
<1>4. CASE ~Takes(both, intra, with, without)
  <2>1. q = Outcome(p, delayed, with, FALSE, lost)
    BY <1>1, <1>4 DEF Chosen
  <2>2. q.intra = FALSE /\ q.s = with
    BY <2>1 DEF Outcome
  <2> QED
    BY <2>2 DEF QuantMade, with
<1> QED
  BY <1>3, <1>4

(* Parameters differ in nothing but the prediction.                         *)
LEMMA ParamsChanged ==
  ASSUME NEW f, NEW x, NEW i
  PROVE  [Params(f, FALSE, x) EXCEPT !.intra = i] = Params(f, i, x) /\ Params(f, i, x).budget = TotalBits(x)
<1> DEFINE m == IF f.end - f.start > 10 THEN MinOf(16 * ONE, 128 * x.bytes) ELSE 16 * ONE
           b == TotalBits(x)
           a == f.start
           z == f.end
           c == tape.channels
           l == f.lm
<1>1. \A j : Params(f, j, x) = [start |-> a, end |-> z, channels |-> c, lm |-> l, intra |-> j, budget |-> b, max_decay |-> m]
  BY DEF Params
<1> DEFINE r == Params(f, FALSE, x)
           t == Params(f, i, x)
<1>2. r = [start |-> a, end |-> z, channels |-> c, lm |-> l, intra |-> FALSE, budget |-> b, max_decay |-> m]
  BY <1>1
<1>3. t = [start |-> a, end |-> z, channels |-> c, lm |-> l, intra |-> i, budget |-> b, max_decay |-> m]
  BY <1>1
<1> HIDE DEF m, b, a, z, c, l, r, t
<1>4. [r EXCEPT !.intra = i] = t /\ t.budget = b
  BY <1>2, <1>3
<1> QED
  BY <1>4 DEF b, r, t

(* Coarse energies are coded.                                               *)
PairStrayed(q, strayed, z) == z = [q EXCEPT !.strayed = strayed]
(* The record of a frame's energies: whether they strayed.                  *)
LEMMA PairAstray ==
  ASSUME NEW q, PairShape(q), NEW a, NEW z, PairStrayed(q, a, z)
  PROVE  /\ PairShape(z) /\ z.streak = q.streak /\ z.heard = q.heard /\ z.apart = q.apart /\ z.hushed = q.hushed
         /\ z.applied = q.applied /\ z.before = q.before /\ z.strayed = a
<1>1. PICK i, j, k, l, m, n, o :
        q = [before |-> i, applied |-> j, heard |-> k, streak |-> l, apart |-> m, hushed |-> n, strayed |-> o]
  BY DEF PairShape
<1>2. z = [before |-> i, applied |-> j, heard |-> k, streak |-> l, apart |-> m, hushed |-> n, strayed |-> a]
  BY <1>1 DEF PairStrayed
<1>3. q.before = i /\ q.applied = j /\ q.heard = k /\ q.streak = l /\ q.apart = m /\ q.hushed = n
  BY <1>1
<1>4. z.before = i /\ z.applied = j /\ z.heard = k /\ z.streak = l /\ z.apart = m /\ z.hushed = n /\ z.strayed = a
  BY <1>2
<1> QED
  BY <1>2, <1>3, <1>4 DEF PairShape

CoarseDoneBy(i, q) ==
    /\ tape' = tape /\ spool' = spool /\ turn' = "choices" /\ decst' = decst
    /\ PairStrayed(pairing, LastBitFirst(i), pairing')
    /\ rcod' = q.s.rc /\ encst' = [encst EXCEPT !.delayed = q.delayed]
    /\ Coarsening(work, [e |-> q.s.e, error |-> q.s.error], Params(Sound, i, rcod), work')
    /\ i \in BOOLEAN /\ CoarseCoded.intra = i
    /\ q.s = quant_coarse_energy_impl(rcod, Params(Sound, i, rcod), Sound.levels, encst.e)
    /\ i => TellBits(rcod) + 3 <= TotalBits(rcod)

(* What EncodeCoarse does, in the terms of the story.                       *)
LEMMA CoarseStepDone ==
  ASSUME EncodeCoarse, work.transient \in BOOLEAN
  PROVE  \E i, q : CoarseDoneBy(i, q)
<1> DEFINE two == tape.quality >= 4
           force == work.transient \/ AllQuiet
           p0 == Params(Sound, FALSE, rcod)
<1>1. two \in BOOLEAN /\ force \in BOOLEAN
  BY DEF AllQuiet
<1>2. PICK q : q = CoarseCoded
  OBVIOUS
<1>3. q = quant_coarse_energy(rcod, p0, Sound.levels, encst.e, encst.delayed, two, force)
  BY <1>2 DEF CoarseCoded
<1> HIDE DEF two, force, p0
<1>4. PICK i \in BOOLEAN : /\ q.intra = i /\ q.s = quant_coarse_energy_impl(rcod, [p0 EXCEPT !.intra = i], Sound.levels, encst.e)
                           /\ i => TellBits(rcod) + 3 <= p0.budget
  <2>1. QuantAsked(rcod, p0, Sound.levels, encst.e, encst.delayed, two, force, q)
    BY <1>1, <1>3 DEF QuantAsked
  <2>2. QuantMade(rcod, p0, Sound.levels, encst.e, q)
    BY <2>1, QuantChooses
  <2> QED
    BY <2>2 DEF QuantMade
<1>5. [p0 EXCEPT !.intra = i] = Params(Sound, i, rcod) /\ p0.budget = TotalBits(rcod)
  BY ParamsChanged DEF p0
<1>6. /\ tape' = tape /\ spool' = spool /\ turn' = "choices" /\ decst' = decst
  BY DEF EncodeCoarse
<1>7. /\ rcod' = q.s.rc
      /\ pairing' = [pairing EXCEPT !.strayed = LastBitFirst(q.intra)]
      /\ encst' = [encst EXCEPT !.delayed = q.delayed]
      /\ work' = [work EXCEPT !.s = [e |-> q.s.e, error |-> q.s.error], !.p = Params(Sound, q.intra, rcod)]
  BY <1>2 DEF EncodeCoarse
<1> HIDE DEF EncodeCoarse
<1>8. CoarseDoneBy(i, q)
  BY <1>2, <1>4, <1>5, <1>6, <1>7 DEF CoarseDoneBy, Coarsening, PairStrayed
<1> QED
  BY <1>8

(* EncodeCoarse tells the coarse stage of the story.                        *)
LEMMA CoarseGoesOn ==
  ASSUME FrameTypes, turn = "coarse", Coarse, EncodeCoarse
  PROVE  FrameTypes' /\ turn' = "choices" /\ Deciding'
<1>1. PICK f, h : f = Sound /\ AtCoarse(f, h)
  BY DEF Coarse
<1>2. Fair1(f, h) /\ rcod = Front(f, h) /\ work.pitch = h.pitch /\ work.transient = Short(f, h) /\ Tied(encst.e)
  BY <1>1 DEF AtCoarse
<1>3. Short(f, h) \in BOOLEAN
  BY <1>2 DEF Short, CodedTransient, TransientSent, Fair1, Framed
<1>4. PICK i, q : CoarseDoneBy(i, q)
  BY <1>2, <1>3, CoarseStepDone
<1>5. PICK g : g = [pitch |-> h.pitch, intra |-> i, eb |-> encst.e]
  OBVIOUS
<1>6. g.pitch = h.pitch /\ g.intra = i /\ g.eb = encst.e
  BY <1>5
<1>7. Front(f, g) = Front(f, h) /\ Short(f, g) = Short(f, h)
  BY <1>6, Retold1
<1>8. /\ tape' = tape /\ spool' = spool /\ turn' = "choices" /\ decst' = decst
      /\ rcod' = q.s.rc /\ encst' = [encst EXCEPT !.delayed = q.delayed] /\ i \in BOOLEAN /\ CoarseCoded.intra = i
      /\ i => TellBits(rcod) + 3 <= TotalBits(rcod)
  BY <1>4 DEF CoarseDoneBy
<1>9. Par(f, g) = Params(Sound, i, rcod)
  BY <1>1, <1>2, <1>6, <1>7 DEF Par
<1>10. Lev(f, g) = q.s
  BY <1>1, <1>2, <1>4, <1>6, <1>7, <1>9 DEF Lev, CoarseDoneBy
<1>11. Fair2(f, g)
  <2>1. Fair1(f, g)
    BY <1>2, <1>6 DEF Fair1
  <2>2. encst.e \in Energies
    BY DEF FrameTypes, EncKept
  <2> QED
    BY <1>2, <1>6, <1>7, <1>8, <2>1, <2>2 DEF Fair2
<1>12. EncKept(encst') /\ encst'.e = encst.e /\ encst'.pitch = encst.pitch
  <2>1. EncKept(encst)
    BY DEF FrameTypes
  <2> QED
    BY <1>8, <2>1, EncDelayed
<1>13. WorkShape(work') /\ work'.s = Levelled(f, g) /\ work'.p = Par(f, g) /\ work'.pitch = g.pitch /\ work'.transient = Short(f, g)
  <2> DEFINE s == [e |-> q.s.e, error |-> q.s.error]
  <2>1. Coarsening(work, s, Par(f, g), work') /\ WorkShape(work) /\ s = Levelled(f, g)
    BY <1>4, <1>9, <1>10 DEF CoarseDoneBy, FrameTypes, Levelled
  <2> HIDE DEF s
  <2>2. WorkShape(work') /\ work'.s = s /\ work'.p = Par(f, g) /\ work'.pitch = work.pitch /\ work'.transient = work.transient
    BY <2>1, CoarseKnows
  <2> QED
    BY <1>2, <1>6, <1>7, <2>1, <2>2
<1>19. /\ PairShape(pairing') /\ pairing'.apart = pairing.apart /\ pairing'.hushed = pairing.hushed
       /\ pairing'.strayed = LastBitFirst(i)
  <2> DEFINE z == pairing'
             b == LastBitFirst(i)
             w == pairing
  <2>1. PairShape(w) /\ PairStrayed(w, b, z)
    BY <1>4 DEF CoarseDoneBy, FrameTypes
  <2> HIDE DEF z, b, w
  <2>2. PairShape(z) /\ z.apart = w.apart /\ z.hushed = w.hushed /\ z.strayed = b
    BY <2>1, PairAstray
  <2> QED
    BY <2>2 DEF z, b, w
<1>14. ~pairing'.strayed => SparedAt(f, g)
  <2> SUFFICES ASSUME ~pairing'.strayed
               PROVE  SparedAt(f, g)
    OBVIOUS
  <2> DEFINE p == Par(f, g)
             x == rcod
             e == encst.e
  <2>1. \A k \in 0..(tape.channels - 1) : TellBits(CoarseFrom(CoarseStart(x, p, e), p, f.levels, k).rc) + 1 # p.budget
    BY <1>1, <1>9, <1>19 DEF LastBitFirst
  <2>2. p.channels = tape.channels /\ tape.channels \in 1..2
    BY <1>2, <1>11, ParIs DEF Fair1, Framed
  <2>3. x = Front(f, g) /\ e = g.eb
    BY <1>2, <1>6, <1>7
  <2> HIDE DEF p, x, e
  <2>4. Spared(CoarseStart(x, p, e), p, f.levels)
    BY <2>1, <2>2 DEF Spared
  <2> QED
    BY <2>3, <2>4 DEF SparedAt, p
<1>15. Stays(f, g)
  BY <1>8, StoryStays
<1>16. AtChoices(f, g)'
  <2>1. Tied(encst.e)'
    BY <1>2, <1>8, <1>12, <1>19 DEF Tied
  <2>2. Fair2(f, g)' /\ rcod' = Lev(f, g)'.rc /\ (~pairing'.strayed => SparedAt(f, g)')
    BY <1>8, <1>10, <1>11, <1>14, <1>15 DEF Stays
  <2>3. EncKnows(f, g)'
    BY <1>13, <1>15 DEF Stays, EncKnows
  <2>4. g.eb = encst'.e
    BY <1>6, <1>12
  <2> QED
    BY <2>1, <2>2, <2>3, <2>4 DEF AtChoices
<1>17. Deciding'
  <2>1. f = Sound'
    BY <1>1, <1>8 DEF Sound
  <2> QED
    BY <1>16, <2>1 DEF Deciding
<1>18. FrameTypes'
  <2>1. pairing'.strayed \in BOOLEAN
    BY <1>19 DEF LastBitFirst
  <2> QED
    BY <1>8, <1>12, <1>13, <1>19, <2>1 DEF FrameTypes, TURNS
<1> QED
  BY <1>8, <1>17, <1>18

-----------------------------------------------------------------------------
(* The choices are coded.                                                   *)
ChoicesDoneBy(f, x, p, t) ==
    /\ tape' = tape /\ spool' = spool /\ turn' = "size" /\ encst' = encst /\ decst' = decst /\ pairing' = pairing
    /\ rcod' = ChoicesCoded(f, x, p, t)
    /\ Choosing(work, TfCoded(f, x, t)[2], SpreadOf(f, TfCoded(f, x, t)[1]), Chose(f, x, p, t).boosts, Chose(f, x, p, t).total,
                TrimOf(f, Chose(f, x, p, t)), work')

(* What EncodeChoices does, in the terms of the story.                      *)
LEMMA ChoicesStepDone ==
  ASSUME EncodeChoices
  PROVE  ChoicesDoneBy(Sound, rcod, work.p, work.transient)
<1> DEFINE x == rcod
           p == work.p
           t == work.transient
           P4(tf, sp, d) ==
               /\ rcod' = IF TrimSent(d.rc, d.total) THEN PutSym(d.rc, "trim", 11, Sound.trim, TRIM_COST[Sound.trim + 1]) ELSE d.rc
               /\ work' = [work EXCEPT !.tf = tf[2], !.spread = sp, !.boosts = d.boosts, !.boosted = d.total,
                                       !.trim = IF TrimSent(d.rc, d.total) THEN Sound.trim ELSE 5]
           P3(tf, sp) ==
               \E d \in {EncDynalloc(NoBoosts(IF SpreadSent(tf[1]) THEN PutSym(tf[1], "spread", 4, sp, SPREAD_COST[sp + 1])
                                              ELSE tf[1]),
                                     p, Sound.boosts, p.end - p.start)} : P4(tf, sp, d)
           P2(tf) == \E sp \in {IF SpreadSent(tf[1]) THEN Sound.spread ELSE 2} : P3(tf, sp)
<1>1. \E tf \in {tf_encode(x, SubSeq(Sound.tf, Sound.start + 1, Sound.end), Sound.tf_select, Sound.lm, t)} : P2(tf)
  BY DEF EncodeChoices
<1>2. /\ tape' = tape /\ spool' = spool /\ turn' = "size" /\ encst' = encst /\ decst' = decst /\ pairing' = pairing
  BY DEF EncodeChoices
<1> DEFINE y == TfCoded(Sound, x, t)
           c == Chose(Sound, x, p, t)
<1> HIDE DEF EncodeChoices, P2, P3, P4
<1>3. P2(y)
  BY <1>1 DEF TfCoded
<1>4. P3(y, SpreadOf(Sound, y[1]))
  BY <1>3 DEF P2, SpreadOf
<1>5. (IF SpreadSent(y[1]) THEN PutSym(y[1], "spread", 4, SpreadOf(Sound, y[1]), SPREAD_COST[SpreadOf(Sound, y[1]) + 1]) ELSE y[1])
        = SpreadCoded(Sound, y[1])
  BY DEF SpreadOf, SpreadCoded
<1>6. P4(y, SpreadOf(Sound, y[1]), c)
  BY <1>4, <1>5 DEF P3, Chose, DynCoded
<1> HIDE DEF y, c, x, p, t
<1>7. /\ rcod' = TrimCoded(Sound, c)
      /\ work' = [work EXCEPT !.tf = y[2], !.spread = SpreadOf(Sound, y[1]), !.boosts = c.boosts, !.boosted = c.total,
                                       !.trim = TrimOf(Sound, c)]
  BY <1>6 DEF P4, TrimCoded, TrimOf
<1> QED
  BY <1>2, <1>7 DEF ChoicesDoneBy, Choosing, ChoicesCoded, c, y, x, p, t

(* EncodeChoices tells the choices of the story.                            *)
LEMMA ChoicesGoOn ==
  ASSUME FrameTypes, turn = "choices", Deciding, EncodeChoices
  PROVE  FrameTypes' /\ turn' = "size" /\ Sizing'
<1>1. PICK f, h : f = Sound /\ AtChoices(f, h)
  BY DEF Deciding
<1>2. /\ Fair2(f, h) /\ rcod = Lev(f, h).rc /\ EncKnows(f, h) /\ h.eb = encst.e
      /\ Tied(encst.e) /\ (~pairing.strayed => SparedAt(f, h))
  BY <1>1 DEF AtChoices
<1>3. ChoicesDoneBy(f, rcod, work.p, work.transient)
  BY <1>1, ChoicesStepDone
<1>4. work.p = Par(f, h) /\ work.transient = Short(f, h) /\ work.s = Levelled(f, h) /\ work.pitch = h.pitch
  BY <1>2 DEF EncKnows
<1>5. ChoicesDoneBy(f, Lev(f, h).rc, Par(f, h), Short(f, h))
  BY <1>2, <1>3, <1>4
<1>6. /\ tape' = tape /\ spool' = spool /\ turn' = "size" /\ encst' = encst /\ decst' = decst /\ pairing' = pairing
      /\ rcod' = Told(f, h)
      /\ Choosing(work, TfDecided(f, h)[2], SpreadDecided(f, h), Picked(f, h).boosts, Picked(f, h).total, TrimDecided(f, h), work')
  BY <1>5 DEF ChoicesDoneBy, Told, TfDecided, SpreadDecided, Picked, TrimDecided
<1>7. /\ WorkShape(work') /\ work'.pitch = work.pitch /\ work'.transient = work.transient /\ work'.p = work.p /\ work'.s = work.s
      /\ work'.tf = TfDecided(f, h)[2] /\ work'.spread = SpreadDecided(f, h) /\ work'.boosts = Picked(f, h).boosts
      /\ work'.boosted = Picked(f, h).total /\ work'.trim = TrimDecided(f, h)
  <2>1. WorkShape(work)
    BY DEF FrameTypes
  <2> DEFINE a == TfDecided(f, h)[2]
             b == SpreadDecided(f, h)
             c == Picked(f, h).boosts
             d == Picked(f, h).total
             e == TrimDecided(f, h)
             z == work'
  <2>2. Choosing(work, a, b, c, d, e, z)
    BY <1>6
  <2> HIDE DEF a, b, c, d, e, z
  <2>3. /\ WorkShape(z) /\ z.silent = work.silent /\ z.pitch = work.pitch /\ z.transient = work.transient /\ z.p = work.p
        /\ z.s = work.s /\ z.tf = a /\ z.spread = b /\ z.boosts = c /\ z.boosted = d /\ z.trim = e
    BY <2>1, <2>2, ChoicesKnow
  <2> QED
    BY <2>3 DEF a, b, c, d, e, z
<1>8. Stays(f, h)
  BY <1>6, StoryStays
<1>9. SameChoices(Decided(f, h), work')
  <2>1. /\ Decided(f, h).transient = Short(f, h) /\ Decided(f, h).tf = TfDecided(f, h)[2]
        /\ Decided(f, h).spread = SpreadDecided(f, h) /\ Decided(f, h).boosts = Picked(f, h).boosts
        /\ Decided(f, h).trim = TrimDecided(f, h)
    BY DEF Decided
  <2> QED
    BY <1>4, <1>7, <2>1 DEF SameChoices
<1>10. AtSize(f, h)'
  <2>1. Fair2(f, h)' /\ rcod' = Told(f, h)' /\ h.eb = encst'.e
    BY <1>2, <1>6, <1>8 DEF Stays
  <2>2. EncKnows(f, h)'
    BY <1>4, <1>7, <1>8 DEF Stays, EncKnows
  <2>3. SameChoices(Decided(f, h), work)' /\ work'.boosted = Picked(f, h)'.total
    BY <1>7, <1>8, <1>9 DEF Stays, SameChoices
  <2>4. Tied(encst.e)' /\ (~pairing'.strayed => SparedAt(f, h)')
    BY <1>2, <1>6, <1>8 DEF Stays, Tied
  <2> QED
    BY <2>1, <2>2, <2>3, <2>4 DEF AtSize
<1>11. Sizing'
  <2>1. f = Sound'
    BY <1>1, <1>6 DEF Sound
  <2> QED
    BY <1>10, <2>1 DEF Sizing
<1>12. FrameTypes'
  BY <1>6, <1>7 DEF FrameTypes, TURNS
<1> QED
  BY <1>6, <1>11, <1>12

(* A frame of variable rate is capped above what is coded of it, or not at  *)
(* all: its bands ask for little where its buffer is longer than the cap.   *)
LEMMA CapSpares ==
  ASSUME FrameTypes, turn # "record", NEW f, f = Sound, NEW h, Fair2(f, h), f.vbr # 0
  PROVE  \/ CapBytes(f, Told(f, h)) = Told(f, h).bytes
         \/ MinAllowed(f, Told(f, h), Picked(f, h).total) <= CapBytes(f, Told(f, h))
<1> DEFINE x == Told(f, h)
           b == Picked(f, h).total
           y == Lev(f, h).rc
           z == Front(f, h)
           p == Par(f, h)
           most == Longest(f)
           c == CapBytes(f, x)
           m == f.end - f.start
           pd == [start |-> f.start, channels |-> tape.channels, lm |-> f.lm]
           a == BoostsAsked(p, f.boosts, m)
           hybrid == (f.tell0 + 8 * 37 + b + 63) \div 64
<1>1. tape \in Clips /\ spool \in 1..Len(tape.sounds) /\ f = tape.sounds[spool]
  BY DEF FrameTypes, Sound
<1>2. /\ Fair1(f, h) /\ Framed(f) /\ Sized(f) /\ Asking(f) /\ PitchWorth(f, h.pitch) /\ f.lm \in 0..3 /\ f.bytes \in Nat
      /\ f.tell0 \in Nat /\ f.levels \in Energies /\ h.eb \in Energies
  BY DEF Fair2, Fair1, Framed, Rated, Sized
<1>3. Coder(x) /\ x.bytes = z.bytes /\ b \in Nat /\ Grows(y, x)
  BY ToldCodes
<1>4. x.bytes \in Nat /\ x.bytes <= f.bytes
  <2>1. HeaderLeaves(f, HeaderCoded(f, h.pitch))
    BY <1>2, HeaderGrows
  <2> QED
    BY <1>3, <2>1 DEF HeaderLeaves, Front
<1>5. most \in Nat /\ most >= 159
  <2>1. f.lm = 0 \/ f.lm = 1 \/ f.lm = 2 \/ f.lm = 3
    BY <1>2
  <2> QED
    BY <2>1 DEF Longest, LmDiff, Pow2, POWERS
<1>6. c = MinOf(x.bytes, most)
  BY DEF CapBytes
<1>7. CASE x.bytes <= most
  <2> HIDE DEF x, most, c
  <2>1. c = x.bytes
    BY <1>4, <1>5, <1>6, <1>7 DEF MinOf
  <2> QED
    BY <2>1 DEF x, c
<1>8. CASE ~(x.bytes <= most)
  <2>1. ~WasSilent(f)
    <3> SUFFICES ASSUME WasSilent(f) PROVE FALSE
      OBVIOUS
    <3>1. HeaderCoded(f, h.pitch).bytes <= 4
      BY <1>2, SilenceShort
    <3> HIDE DEF most, x
    <3> QED
      BY <1>3, <1>4, <1>5, <1>8, <3>1 DEF Front
  <2>2. z.frac <= f.tell0 + 165 /\ f.tell0 <= z.frac
    <3>1. HeaderCoded(f, h.pitch).frac <= f.tell0 + 165
      BY <1>2, <2>1, HeaderCosts
    <3>2. HushSent(f).frac = f.tell0
      BY <1>2, <2>1, SilenceCodes DEF HushLeaves
    <3>3. Grows(HushSent(f), PitchCoded(f, h.pitch)) /\ Grows(PitchCoded(f, h.pitch), HeaderCoded(f, h.pitch))
      BY <1>2, PitchCodedGrows, HeaderGrows
    <3>4. HushSent(f).frac <= HeaderCoded(f, h.pitch).frac
      BY <3>3 DEF Grows, Coder
    <3> QED
      BY <3>1, <3>2, <3>4 DEF Front
  <2>3. y.frac <= z.frac + 5064 /\ Grows(z, y)
    <3>1. Coder(z) /\ TellBits(z) <= TotalBits(z)
      BY <1>2, HeadCodes
    <3>2. BandParams(p) /\ p.budget = TotalBits(z) /\ Grows(z, y)
      BY ParIs, LevCodes
    <3>3. y = quant_coarse_energy_impl(z, p, f.levels, h.eb).rc
      BY DEF Lev
    <3> HIDE DEF y, z, p
    <3> QED
      BY <1>2, <3>1, <3>2, <3>3, EnergiesCost
  <2>4. p.start = f.start /\ p.end = f.end /\ p.channels = tape.channels /\ p.lm = f.lm /\ BandParams(p)
    BY ParIs
  <2>5. x.frac + b <= y.frac + a + 1936
    <3>1. Asked(f, y, p, Short(f, h))
      BY ToldAsked
    <3>2. ChoicesCoded(f, y, p, Short(f, h)).frac + Chose(f, y, p, Short(f, h)).total
              <= y.frac + BoostsAsked(p, f.boosts, p.end - p.start) + 1936
      BY <3>1, ChoicesCost
    <3> QED
      BY <2>4, <3>2 DEF Told, Picked
  <2>6. a \in Nat /\ BoostsAsked(pd, f.boosts, m) = a
    <3>1. DynWants(p, f.boosts)
      BY <1>2 DEF Asking, DynWants
    <3>2. m \in Nat /\ m <= p.end - p.start
      BY <1>2, <2>4 DEF Asking, NbBands
    <3>3. pd.start = p.start /\ pd.channels = p.channels /\ pd.lm = p.lm
      BY <2>4
    <3> HIDE DEF p, pd, m
    <3> QED
      BY <2>4, <3>1, <3>2, <3>3, AskedIs
  <2>7. f.tell0 + a + 7168 <= 64 * (most - 2)
    <3>1. f.bytes > most
      <4> HIDE DEF x, most
      <4> QED
        BY <1>2, <1>4, <1>5, <1>8
    <3>2. f.tell0 + BoostsAsked(pd, f.boosts, m) + WORDS <= 64 * (most - 2)
      BY <1>1, <3>1, BoostsAssumption
    <3> QED
      BY <2>6, <3>2 DEF WORDS
  <2>8. x.frac \in Nat /\ y.frac \in Nat /\ z.frac \in Nat /\ y.frac <= x.frac
    BY <1>3, <2>3 DEF Grows, Coder
  <2>9. MinAllowed(f, x, b) = MaxOf(((x.frac + b + 63) \div 64) + 2, IF Hybrid(f) THEN hybrid ELSE 0)
    BY DEF MinAllowed
  <2> HIDE DEF x, b, y, z, p, most, c, a, hybrid
  <2>10. x.frac + b <= 64 * (most - 2) /\ f.tell0 + b + 8 * 37 <= 64 * (most - 2)
    BY <1>2, <1>3, <1>5, <2>2, <2>3, <2>5, <2>6, <2>7, <2>8
  <2>11. ((x.frac + b + 63) \div 64) + 2 <= most /\ ((x.frac + b + 63) \div 64) + 2 \in Int
    BY <1>3, <1>5, <2>8, <2>10
  <2>12. hybrid <= most /\ hybrid \in Int
    <3>1. (f.tell0 + 8 * 37 + b + 63) \div 64 <= most /\ (f.tell0 + 8 * 37 + b + 63) \div 64 \in Int
      BY <1>2, <1>3, <1>5, <2>10
    <3> QED
      BY <3>1 DEF hybrid
  <2>13. MinAllowed(f, x, b) <= most
    BY <1>5, <2>9, <2>11, <2>12 DEF MaxOf
  <2>14. c = most
    BY <1>4, <1>5, <1>6, <1>8 DEF MinOf
  <2> QED
    BY <2>13, <2>14 DEF x, b, c
<1> QED
  BY <1>7, <1>8

(* The size chosen affords what is coded and promised.                      *)
LEMMA SizeTaken ==
  ASSUME FrameTypes, turn = "size", ChooseSize, NEW f, f = Sound, NEW h, AtSize(f, h)
  PROVE  \E n : /\ n \in Nat /\ n <= Told(f, h).bytes
                /\ Afford(Told(f, h).frac, Picked(f, h).total, Told(f, h).bytes, n)
                /\ rcod' = [Told(f, h) EXCEPT !.bytes = n]
                /\ EncKept(encst') /\ encst'.e = encst.e /\ encst'.pitch = encst.pitch
<1>1. f = Sound /\ AtSize(f, h)
  OBVIOUS
<1>2. Fair2(f, h) /\ rcod = Told(f, h) /\ work.boosted = Picked(f, h).total
  BY DEF AtSize
<1>3. Rated(f) /\ tape.channels \in 1..2 /\ EncKept(encst) /\ f.vbr \in Nat
  BY <1>2 DEF Fair2, Fair1, Framed, FrameTypes, Rated
<1> DEFINE x == Told(f, h)
           boosted == Picked(f, h).total
<1>4. Coder(x) /\ x.bytes >= 2 /\ x.bytes \in Nat /\ boosted \in Nat
  <2>1. Fair1(f, h)
    BY <1>2 DEF Fair2
  <2> QED
    BY <1>2, <2>1, ToldCodes, HeadCodes
<1> DEFINE Taken(n) == /\ n \in Nat /\ n <= x.bytes /\ Afford(x.frac, boosted, x.bytes, n) /\ rcod' = [x EXCEPT !.bytes = n]
                       /\ EncKept(encst') /\ encst'.e = encst.e /\ encst'.pitch = encst.pitch
<1>5. \E n : Taken(n)
  <2>1. CASE f.vbr = 0
    <3>1. rcod' = x /\ encst' = encst
      BY <1>1, <1>2, <2>1 DEF ChooseSize
    <3>2. [x EXCEPT !.bytes = x.bytes] = x
      <4>1. x = [frac |-> x.frac, bytes |-> x.bytes, syms |-> x.syms, place |-> x.place, ok |-> x.ok, got |-> x.got]
        BY <1>4 DEF Coder
      <4> HIDE DEF x
      <4> QED
        BY <4>1
    <3> HIDE DEF x, boosted
    <3>3. Afford(x.frac, boosted, x.bytes, x.bytes)
      BY <1>4 DEF Afford
    <3> QED
      BY <1>3, <1>4, <3>1, <3>2, <3>3
  <2>2. CASE f.vbr # 0
    <3>1. PICK size : /\ size = Available(f, x, boosted)
                      /\ rcod' = [x EXCEPT !.bytes = SizeChosen(f, x, size)]
                      /\ encst' = Settled(f, Target(f) + x.frac - f.vbr, size)
      BY <1>1, <1>2, <2>2 DEF ChooseSize
    <3>2. PICK B : B = SizeChosen(f, x, size)
      OBVIOUS
    <3>3. SizeIs(f, x, boosted, size, B)
      BY <3>1, <3>2 DEF SizeIs
    <3>4. CapBytes(f, x) = x.bytes \/ MinAllowed(f, x, boosted) <= CapBytes(f, x)
      BY <1>1, <1>2, <2>2, CapSpares
    <3>5. Target(f) \in Int /\ x.frac \in Nat
      BY <1>3, <1>4, TargetInt DEF Coder
    <3> HIDE DEF x, boosted
    <3>6. size \in Int /\ B \in Nat /\ 2 <= B /\ B <= x.bytes /\ Afford(x.frac, boosted, x.bytes, B)
      BY <1>3, <1>4, <3>3, <3>4, SizeAffords
    <3>7. PICK delta : delta = Target(f) + x.frac - f.vbr
      OBVIOUS
    <3>8. delta \in Int
      BY <1>3, <3>5, <3>7
    <3>9. EncKept(encst') /\ encst'.e = encst.e /\ encst'.pitch = encst.pitch
      BY <1>3, <3>1, <3>6, <3>7, <3>8, SettledKept
    <3> QED
      BY <3>1, <3>2, <3>6, <3>9
  <2> QED
    BY <2>1, <2>2
<1> QED
  BY <1>5

(* The size is chosen.                                                      *)
LEMMA SizeGoesOn ==
  ASSUME FrameTypes, turn = "size", Sizing, ChooseSize
  PROVE  FrameTypes' /\ turn' = "bands" /\ Banding'
<1>1. PICK f, h : f = Sound /\ AtSize(f, h)
  BY DEF Sizing
<1>2. /\ Fair2(f, h) /\ rcod = Told(f, h) /\ EncKnows(f, h) /\ h.eb = encst.e
      /\ SameChoices(Decided(f, h), work) /\ work.boosted = Picked(f, h).total
      /\ Tied(encst.e) /\ (~pairing.strayed => SparedAt(f, h))
  BY <1>1 DEF AtSize
<1>3. /\ tape' = tape /\ spool' = spool /\ turn' = "bands" /\ work' = work /\ decst' = decst /\ pairing' = pairing
  BY DEF ChooseSize
<1>4. PICK n : /\ n \in Nat /\ n <= Told(f, h).bytes
               /\ Afford(Told(f, h).frac, Picked(f, h).total, Told(f, h).bytes, n)
               /\ rcod' = [Told(f, h) EXCEPT !.bytes = n]
               /\ EncKept(encst') /\ encst'.e = encst.e /\ encst'.pitch = encst.pitch
  BY <1>1, SizeTaken
<1>5. PICK g : g = [pitch |-> h.pitch, intra |-> h.intra, eb |-> h.eb, n |-> n]
  OBVIOUS
<1>6. g.pitch = h.pitch /\ g.intra = h.intra /\ g.eb = h.eb /\ g.n = n
  BY <1>5
<1>7. /\ Front(f, g) = Front(f, h) /\ Short(f, g) = Short(f, h) /\ Par(f, g) = Par(f, h) /\ Lev(f, g) = Lev(f, h)
      /\ Picked(f, g) = Picked(f, h) /\ Told(f, g) = Told(f, h) /\ Decided(f, g) = Decided(f, h) /\ Fair2(f, g)
  BY <1>2, <1>6, Retold2
<1>8. Fair3(f, g) /\ rcod' = Cut(f, g)
  BY <1>4, <1>6, <1>7 DEF Fair3, Cut
<1>9. EncKnows(f, g) /\ (SparedAt(f, h) => SparedAt(f, g))
  BY <1>2, <1>6, <1>7 DEF EncKnows, SparedAt, Levelled
<1>10. Stays(f, g)
  BY <1>3, StoryStays
<1>11. AtBands(f, g)'
  <2>1. Fair3(f, g)' /\ rcod' = Cut(f, g)' /\ g.eb = encst'.e
    BY <1>2, <1>4, <1>6, <1>8, <1>10 DEF Stays
  <2>2. EncKnows(f, g)'
    BY <1>3, <1>9, <1>10 DEF Stays, EncKnows
  <2>3. SameChoices(Decided(f, g), work)'
    BY <1>2, <1>3, <1>7, <1>10 DEF Stays, SameChoices
  <2>4. Tied(encst.e)' /\ (~pairing'.strayed => SparedAt(f, g)')
    BY <1>2, <1>3, <1>4, <1>9, <1>10 DEF Stays, Tied
  <2> QED
    BY <2>1, <2>2, <2>3, <2>4 DEF AtBands
<1>12. Banding'
  <2>1. f = Sound'
    BY <1>1, <1>3 DEF Sound
  <2> QED
    BY <1>11, <2>1 DEF Banding
<1>13. FrameTypes'
  BY <1>3, <1>4 DEF FrameTypes, TURNS
<1> QED
  BY <1>3, <1>12, <1>13

-----------------------------------------------------------------------------
(* The bands are coded.                                                     *)
BandsDoneBy(f, x, p, w, v, n) ==
    /\ tape' = tape /\ spool' = spool /\ turn' = "air" /\ decst' = decst /\ pairing' = pairing /\ work' = work
    /\ rcod' = BandsCoded(x, p, w, f.spare, v).rc
    /\ EncToSent(encst, Coded(p, BandsCoded(x, p, w, f.spare, v).e, 0), w.pitch, n, encst')

(* Told to spread the energy after fewer than two transients in a row.      *)
Flagged == IF encst.transients < 2 THEN 1 ELSE 0
Transients == IF work.transient THEN encst.transients + 1 ELSE 0

(* What EncodeBands does, in the terms of the story.                        *)
LEMMA BandsStepDone ==
  ASSUME EncodeBands
  PROVE  BandsDoneBy(Sound, rcod, work.p, work, Flagged, Transients)
<1> DEFINE p == work.p
           reserve == AntiCollapse(rcod, p, work.transient)
           avail == AllocBits(rcod, p, work.transient)
           bits == FineBits(p, avail, work.boosts, work.trim)
           P4(done) ==
             /\ rcod' = done.rc
             /\ encst' = [encst EXCEPT !.e = Coded(p, done.e, 0), !.pitch = work.pitch,
                                       !.transients = IF work.transient THEN @ + 1 ELSE 0]
             /\ work' = work
           P3(fine, settled) ==
             \E done \in {quant_energy_finalise([fine EXCEPT !.rc = settled], p, bits, Priorities(avail),
                                              TotalBits(settled) - TellBits(settled))} : P4(done)
           P2(fine, shaped) ==
             \E settled \in {IF reserve > 0 THEN EncRaw(shaped, IF encst.transients < 2 THEN 1 ELSE 0, 1) ELSE shaped} :
               P3(fine, settled)
           P1(fine) ==
             \E shaped \in {PutSym(fine.rc, "shapes", ShapesContext(fine.rc, work, bits), 1, ShapesCost(fine.rc, Sound.spare, reserve))} :
               P2(fine, shaped)
<1>1. \E fine \in {quant_fine_energy(
                          [rc |-> PutSym(rcod, "alloc", AllocContext(p, avail, work.boosts, work.trim), 1, AllocCost(avail)),
                           e |-> work.s.e, error |-> work.s.error], p, bits)} : P1(fine)
  BY DEF EncodeBands
<1>2. /\ tape' = tape /\ spool' = spool /\ turn' = "air" /\ decst' = decst /\ pairing' = pairing
  BY DEF EncodeBands
<1>3. reserve = BandReserve(rcod, p, work) /\ avail = BandAvail(rcod, p, work) /\ bits = BandBits(rcod, p, work)
  BY DEF BandReserve, BandAvail, BandBits
<1> HIDE DEF EncodeBands, P1, P2, P3, P4, reserve, avail, bits
<1> DEFINE fine == FineCoded(rcod, p, work)
           shaped == ShapesCoded(rcod, p, work, Sound.spare)
           settled == SettledCoded(rcod, p, work, Sound.spare, Flagged)
           done == BandsCoded(rcod, p, work, Sound.spare, Flagged)
<1>4. P1(fine)
  BY <1>1, <1>3 DEF FineCoded, FineOpen, AllocCoded
<1>5. P2(fine, shaped)
  BY <1>3, <1>4 DEF P1, ShapesCoded
<1>6. P3(fine, settled)
  BY <1>3, <1>5 DEF P2, SettledCoded, Flagged
<1>7. P4(done)
  BY <1>3, <1>6 DEF P3, BandsCoded
<1> HIDE DEF fine, shaped, settled, done
<1>8. /\ rcod' = done.rc /\ work' = work
      /\ encst' = [encst EXCEPT !.e = Coded(p, done.e, 0), !.pitch = work.pitch, !.transients = Transients]
  BY <1>7 DEF P4, Transients
<1> QED
  BY <1>2, <1>8 DEF BandsDoneBy, EncToSent, done

(* What is coded depends on nothing else.                                   *)
LEMMA SameBandsCoded ==
  ASSUME NEW x, NEW p, NEW w, NEW u, SameChoices(w, u), u.s.e = w.s.e, u.s.error = w.s.error, NEW spare, NEW flag
  PROVE  BandsCoded(x, p, u, spare, flag) = BandsCoded(x, p, w, spare, flag)
<1>1. u.transient = w.transient /\ u.tf = w.tf /\ u.spread = w.spread /\ u.boosts = w.boosts /\ u.trim = w.trim
  BY DEF SameChoices
<1>2. BandReserve(x, p, u) = BandReserve(x, p, w) /\ BandAvail(x, p, u) = BandAvail(x, p, w)
  BY <1>1 DEF BandReserve, BandAvail
<1>3. BandBits(x, p, u) = BandBits(x, p, w)
  BY <1>1, <1>2 DEF BandBits
<1>4. FineOpen(x, p, u) = FineOpen(x, p, w)
  BY <1>1, <1>2 DEF FineOpen, AllocCoded
<1>5. FineCoded(x, p, u) = FineCoded(x, p, w)
  BY <1>3, <1>4 DEF FineCoded
<1> DEFINE rc == FineCoded(x, p, w).rc
<1>6. ShapesContext(rc, u, BandBits(x, p, w)) = ShapesContext(rc, w, BandBits(x, p, w))
  BY <1>1 DEF ShapesContext
<1>7. ShapesCoded(x, p, u, spare) = ShapesCoded(x, p, w, spare)
  BY <1>2, <1>3, <1>5, <1>6 DEF ShapesCoded
<1>8. SettledCoded(x, p, u, spare, flag) = SettledCoded(x, p, w, spare, flag)
  BY <1>2, <1>7 DEF SettledCoded
<1> QED
  BY <1>2, <1>3, <1>5, <1>8 DEF BandsCoded

(* EncodeBands ends the story, within the frame.                            *)
LEMMA BandsGoOn ==
  ASSUME FrameTypes, turn = "bands", Banding, EncodeBands
  PROVE  FrameTypes' /\ turn' = "air" /\ Airing'
<1>1. PICK f, h : f = Sound /\ AtBands(f, h)
  BY DEF Banding
<1>2. /\ Fair3(f, h) /\ rcod = Cut(f, h) /\ EncKnows(f, h) /\ h.eb = encst.e /\ SameChoices(Decided(f, h), work)
      /\ Tied(encst.e) /\ (~pairing.strayed => SparedAt(f, h))
  BY <1>1 DEF AtBands
<1>3. PICK v, n : v = Flagged /\ n = Transients
  OBVIOUS
<1>4. work.p = Par(f, h) /\ work.s = Levelled(f, h) /\ work.pitch = h.pitch
  BY <1>2 DEF EncKnows
<1>5. BandsDoneBy(f, Cut(f, h), Par(f, h), work, v, n)
  BY <1>1, <1>2, <1>3, <1>4, BandsStepDone
<1>6. BandsCoded(Cut(f, h), Par(f, h), work, f.spare, v) = BandsCoded(Cut(f, h), Par(f, h), Decided(f, h), f.spare, v)
  <2> DEFINE w == Decided(f, h)
             u == work
  <2>1. SameChoices(w, u) /\ u.s.e = w.s.e /\ u.s.error = w.s.error
    BY <1>2, <1>4 DEF Decided, Levelled
  <2> HIDE DEF w, u
  <2>2. \A x, p, spare, flag : BandsCoded(x, p, u, spare, flag) = BandsCoded(x, p, w, spare, flag)
    BY <2>1, SameBandsCoded
  <2> QED
    BY <2>2 DEF w, u
<1>7. PICK g : g = [pitch |-> h.pitch, intra |-> h.intra, eb |-> h.eb, n |-> h.n, v |-> v]
  OBVIOUS
<1>8. g.pitch = h.pitch /\ g.intra = h.intra /\ g.eb = h.eb /\ g.n = h.n /\ g.v = v
  BY <1>7
<1>9. /\ Front(f, g) = Front(f, h) /\ Short(f, g) = Short(f, h) /\ Par(f, g) = Par(f, h) /\ Lev(f, g) = Lev(f, h)
      /\ Picked(f, g) = Picked(f, h) /\ Told(f, g) = Told(f, h) /\ Decided(f, g) = Decided(f, h) /\ (Fair2(f, h) => Fair2(f, g))
  BY <1>8, Retold2
<1>10. Cut(f, g) = Cut(f, h) /\ Fair3(f, g)
  BY <1>2, <1>8, <1>9, Retold2 DEF Cut, Fair3
<1>11. Whole(f, g) = BandsCoded(Cut(f, h), Par(f, h), work, f.spare, v)
  BY <1>6, <1>8, <1>9, <1>10 DEF Whole
<1>12. SparedAt(f, h) => SparedAt(f, g)
  BY <1>8, <1>9 DEF SparedAt
<1>13. /\ tape' = tape /\ spool' = spool /\ turn' = "air" /\ decst' = decst /\ pairing' = pairing /\ work' = work
       /\ rcod' = Whole(f, g).rc /\ EncToSent(encst, Coded(Par(f, g), Whole(f, g).e, 0), g.pitch, n, encst')
  BY <1>4, <1>5, <1>8, <1>9, <1>11 DEF BandsDoneBy
<1>14. EncKept(encst') /\ encst'.e = Coded(Par(f, g), Whole(f, g).e, 0) /\ encst'.pitch = g.pitch
  <2> DEFINE e1 == Coded(Par(f, g), Whole(f, g).e, 0)
             q == g.pitch
             z == encst'
  <2>1. Whole(f, g).e \in Energies
    BY <1>10, WholeCodes DEF FineState
  <2>2. e1 \in Energies
    <3> DEFINE w == Whole(f, g).e
               p == Par(f, g)
    <3>1. w \in Energies /\ 0 \in Int
      BY <2>1
    <3> HIDE DEF w, p
    <3>2. Coded(p, w, 0) \in Energies
      BY <3>1, CodedKept
    <3> QED
      BY <3>2 DEF w, p
  <2>3. EncKept(encst) /\ EncToSent(encst, e1, q, n, z)
    BY <1>13 DEF FrameTypes
  <2> HIDE DEF e1, q, z
  <2>4. EncKept(z) /\ z.e = e1 /\ z.pitch = q
    BY <2>2, <2>3, EncSent
  <2> QED
    BY <2>4 DEF e1, q, z
<1>15. Stays(f, g)
  BY <1>13, StoryStays
<1>16. AtAir(f, g)'
  <2>1. Fair3(f, g)' /\ rcod' = Whole(f, g)'.rc
    BY <1>10, <1>13, <1>15 DEF Stays
  <2>2. Sent(f, g)'
    BY <1>14, <1>15 DEF Stays, Sent
  <2>3. Tied(g.eb)' /\ (~pairing'.strayed => SparedAt(f, g)')
    BY <1>2, <1>8, <1>12, <1>13, <1>15 DEF Stays, Tied
  <2> QED
    BY <2>1, <2>2, <2>3 DEF AtAir
<1>17. Airing'
  <2>1. f = Sound'
    BY <1>1, <1>13 DEF Sound
  <2> QED
    BY <1>16, <2>1 DEF Airing
<1>18. FrameTypes'
  BY <1>13, <1>14 DEF FrameTypes, TURNS
<1> QED
  BY <1>13, <1>17, <1>18

-----------------------------------------------------------------------------
(* The decoder's steps.                                                     *)
Merged == IF tape.channels = 1 THEN Loudest(decst.e) ELSE decst.e
Foreseen(f, d) == IF d.got = 0 /\ decst.loss_duration # 0 THEN Recovered(f, Merged) ELSE Merged

(* The header is read.                                                      *)
HeaderReadBy(f, B, all) ==
    /\ tape' = tape /\ spool' = spool /\ turn' = "uncoarse" /\ encst' = encst /\ pairing' = pairing
    /\ rcod' = IntraRead(HeaderRead(f, B, all))
    /\ HeadingRead(NoFrame, HushRead(f, B, all).got = 1, PitchRead(f, B, all)[2], HeaderRead(f, B, all).got = 1,
                   Params(f, IntraRead(HeaderRead(f, B, all)).got = 1, IntraRead(HeaderRead(f, B, all))), work')
    /\ DecToHeader(decst, decst.skip_plc /\ decst.loss_duration # 0, IF f.start = 0 THEN decst.pitch.g ELSE 0,
                   Foreseen(f, IntraRead(HeaderRead(f, B, all))), decst')

(* What DecodeHeader does, in the terms of the story.                       *)
LEMMA HeaderReadDone ==
  ASSUME DecodeHeader
  PROVE  HeaderReadBy(Sound, rcod.bytes, rcod.syms)
<1> DEFINE P7(f, silent, tuned, flagged, timed, merged) ==
             /\ rcod' = timed
             /\ work' = [NoFrame EXCEPT !.silent = silent, !.pitch = tuned[2], !.transient = flagged.got = 1,
                                        !.p = Params(f, timed.got = 1, timed)]
             /\ decst' = [decst EXCEPT !.skip_plc = @ /\ decst.loss_duration # 0,
                                       !.pitch.g = IF f.start = 0 THEN @ ELSE 0,
                                       !.e = IF timed.got = 0 /\ decst.loss_duration # 0 THEN Recovered(f, merged) ELSE merged]
           P6(f, silent, tuned, flagged, timed) ==
             \E merged \in {IF tape.channels = 1 THEN Loudest(decst.e) ELSE decst.e} : P7(f, silent, tuned, flagged, timed, merged)
           P5(f, silent, tuned, flagged) ==
             \E timed \in {IF TellBits(flagged) + 3 <= TotalBits(flagged) THEN DecBit(flagged, 3) ELSE [flagged EXCEPT !.got = 0]} :
               P6(f, silent, tuned, flagged, timed)
           P4(f, silent, tuned) ==
             \E flagged \in {IF TransientSent(tuned[1], f.lm) THEN DecBit(tuned[1], 3) ELSE [tuned[1] EXCEPT !.got = 0]} :
               P5(f, silent, tuned, flagged)
           P3(f, hush, silent) ==
             \E tuned \in {IF PitchSent(hush, f.start, silent) THEN DecPitch(hush) ELSE <<hush, NoPitch>>} : P4(f, silent, tuned)
           P2(f, hush) == \E silent \in {hush.got = 1} : P3(f, hush, silent)
           P1(f, opened) == \E hush \in {DecSilence(opened)} : P2(f, hush)
           P0(f) == \E opened \in {FreshCoder(f, rcod.bytes, rcod.syms)} : P1(f, opened)
<1>1. \E f \in {Sound} : P0(f)
  BY DEF DecodeHeader
<1>2. /\ tape' = tape /\ spool' = spool /\ turn' = "uncoarse" /\ encst' = encst /\ pairing' = pairing
  BY DEF DecodeHeader
<1> HIDE DEF DecodeHeader, P0, P1, P2, P3, P4, P5, P6, P7
<1> DEFINE f == Sound
           B == rcod.bytes
           all == rcod.syms
           hush == HushRead(f, B, all)
           tuned == PitchRead(f, B, all)
           flagged == HeaderRead(f, B, all)
           timed == IntraRead(flagged)
<1> HIDE DEF f, B, all
<1>3. P0(f)
  BY <1>1 DEF f
<1>4. P1(f, FreshCoder(f, B, all))
  BY <1>3 DEF P0, B, all
<1>5. P2(f, hush)
  BY <1>4 DEF P1, HushRead
<1>6. P3(f, hush, hush.got = 1)
  BY <1>5 DEF P2
<1>7. P4(f, hush.got = 1, tuned)
  BY <1>6 DEF P3, PitchRead
<1>8. P5(f, hush.got = 1, tuned, flagged)
  BY <1>7 DEF P4, HeaderRead
<1>9. P6(f, hush.got = 1, tuned, flagged, timed)
  BY <1>8 DEF P5, IntraRead
<1>10. P7(f, hush.got = 1, tuned, flagged, timed, Merged)
  BY <1>9 DEF P6, Merged
<1> HIDE DEF hush, tuned, flagged, timed
<1>11. /\ rcod' = timed
       /\ work' = [NoFrame EXCEPT !.silent = hush.got = 1, !.pitch = tuned[2], !.transient = flagged.got = 1,
                                        !.p = Params(f, timed.got = 1, timed)]
       /\ decst' = [decst EXCEPT !.skip_plc = @ /\ decst.loss_duration # 0,
                                       !.pitch.g = IF f.start = 0 THEN @ ELSE 0,
                                       !.e = IF timed.got = 0 /\ decst.loss_duration # 0 THEN Recovered(f, Merged) ELSE Merged]
  BY <1>10 DEF P7
<1>12. HeadingRead(NoFrame, hush.got = 1, tuned[2], flagged.got = 1, Params(f, timed.got = 1, timed), work')
  BY <1>11 DEF HeadingRead
<1>13. DecToHeader(decst, decst.skip_plc /\ decst.loss_duration # 0, IF f.start = 0 THEN decst.pitch.g ELSE 0, Foreseen(f, timed), decst')
  BY <1>11 DEF DecToHeader, Foreseen
<1>14. rcod' = timed
  BY <1>11
<1> QED
  BY <1>2, <1>12, <1>13, <1>14 DEF HeaderReadBy, hush, tuned, flagged, timed, f, B, all

(* What is foreseen of the energies.                                        *)
LEMMA ForeseenKept ==
  ASSUME DecKept(decst), NEW f, f.lm \in 0..3, NEW d
  PROVE  Merged \in Energies /\ Foreseen(f, d) \in Energies
<1>1. decst.e \in Energies
  BY DEF DecKept
<1>2. Merged \in Energies
  BY <1>1, LoudestKept DEF Merged
<1>3. Recovered(f, Merged) \in Energies
  BY <1>2, RecoveredKept
<1> QED
  BY <1>2, <1>3 DEF Foreseen

(* Merging the channels of a mono stream leaves its energies alone.         *)
LEMMA MergedSame ==
  ASSUME decst.e \in Energies, tape.channels \in 1..2, tape.channels = 1 => decst.e[1] = decst.e[2],
         NEW c \in 1..tape.channels, NEW j \in 1..NbBands
  PROVE  Merged[c][j] = decst.e[c][j]
<1>1. CASE tape.channels = 1
  <2> DEFINE e == decst.e
             r == [i \in 1..NbBands |-> MaxOf(e[1][i], e[2][i])]
  <2>1. Merged = [e EXCEPT ![1] = r] /\ c = 1 /\ e[1] = e[2] /\ e \in Energies
    BY <1>1 DEF Merged, Loudest
  <2>2. r[j] = MaxOf(e[1][j], e[1][j])
    BY <2>1
  <2>3. MaxOf(e[1][j], e[1][j]) = e[1][j]
    BY DEF MaxOf
  <2> HIDE DEF r, e
  <2>4. Merged[1] = r
    BY <2>1 DEF Energies
  <2> QED
    BY <2>1, <2>2, <2>3, <2>4 DEF e
<1>2. CASE tape.channels = 2
  BY <1>2 DEF Merged
<1> QED
  BY <1>1, <1>2

(* A pitch as it is read.                                                   *)
LEMMA PitchReadShape ==
  ASSUME NEW f, NEW B, NEW all
  PROVE  PitchShape(PitchRead(f, B, all)[2])
<1>1. PitchShape(NoPitch)
  BY DEF PitchShape, NoPitch
<1>2. \A r, t, g : PitchShape(DecTapset(r, t, g)[2])
  <2> SUFFICES ASSUME NEW r, NEW t, NEW g PROVE PitchShape(DecTapset(r, t, g)[2])
    OBVIOUS
  <2> DEFINE s == AskSym(r, "tapset", 2)
             m == s.got
  <2>1. DecTapset(r, t, g)[2] = [t |-> t, g |-> g, tapset |-> m] \/ DecTapset(r, t, g)[2] = [t |-> t, g |-> g, tapset |-> 0]
    BY DEF DecTapset
  <2> HIDE DEF m
  <2> QED
    BY <2>1 DEF PitchShape
<1>3. \A r : PitchShape(DecPitch(r)[2])
  BY <1>1, <1>2 DEF DecPitch, DecOctave, DecPeriod
<1> QED
  BY <1>1, <1>3 DEF PitchRead

-----------------------------------------------------------------------------
(* After the header, the decoder foresees the energies of the encoder.      *)
LEMMA ForeseenSame ==
  ASSUME DecKept(decst), NEW f, f.lm \in 0..3, NEW d, NEW p, BandParams(p), p.channels = tape.channels,
         NEW eb, Tied(eb), p.intra \/ (~pairing.apart /\ ~pairing.hushed)
  PROVE  SameUpTo(p, 0, eb, Foreseen(f, d))
<1>1. CASE p.intra
  BY <1>1 DEF SameUpTo
<1>2. CASE ~pairing.apart /\ ~pairing.hushed
  <2>1. decst.loss_duration = 0 /\ (tape.channels = 1 => decst.e[1] = decst.e[2])
        /\ \A c \in 1..tape.channels : decst.e[c] = eb[c]
    BY <1>2 DEF Tied
  <2>2. Foreseen(f, d) = Merged
    BY <2>1 DEF Foreseen
  <2>3. tape.channels \in 1..2 /\ decst.e \in Energies
    BY DEF BandParams, DecKept
  <2>4. \A c \in 1..tape.channels, j \in 1..NbBands : Merged[c][j] = decst.e[c][j]
    BY <2>1, <2>3, MergedSame
  <2>5. ASSUME NEW k \in Nat, k < Steps(p)
        PROVE  eb[ChannelOf(p, k)][BandOf(p, k) + 1] = Merged[ChannelOf(p, k)][BandOf(p, k) + 1]
    <3>1. ChannelOf(p, k) \in 1..tape.channels /\ BandOf(p, k) + 1 \in 1..NbBands
      BY <2>5, BandsOf
    <3> DEFINE c == ChannelOf(p, k)
               j == BandOf(p, k) + 1
    <3> HIDE DEF c, j
    <3>2. c \in 1..tape.channels /\ j \in 1..NbBands
      BY <3>1 DEF c, j
    <3>3. eb[c][j] = Merged[c][j]
      BY <2>1, <2>4, <3>2
    <3> QED
      BY <3>3 DEF c, j
  <2> QED
    BY <2>2, <2>5 DEF SameUpTo
<1> QED
  BY <1>1, <1>2

(* DecodeHeader reads the header of the story.                              *)
LEMMA HeaderHeardGoes ==
  ASSUME FrameTypes, turn = "air", Airing, DecodeHeader
  PROVE  FrameTypes' /\ turn' = "uncoarse" /\ Uncoarse'
<1>1. PICK f, h : f = Sound /\ AtAir(f, h)
  BY DEF Airing
<1>2. /\ Fair3(f, h) /\ rcod = Whole(f, h).rc /\ Sent(f, h) /\ Tied(h.eb) /\ (~pairing.strayed => SparedAt(f, h))
  BY <1>1 DEF AtAir
<1>3. rcod.bytes = h.n /\ rcod.syms = Symbols(f, h)
  BY <1>2, WholeCodes DEF Symbols
<1>4. HeaderReadBy(f, h.n, Symbols(f, h))
  BY <1>1, <1>3, HeaderReadDone
<1>5. PICK d, g : d = HeaderTold(f, h) /\ g = IntraTold(f, h)
  OBVIOUS
<1>6. /\ Coder(d) /\ d.got = (IF Short(f, h) THEN 1 ELSE 0)
      /\ Follows(g, Intra(Front(f, h), Par(f, h)), Symbols(f, h)) /\ g.bytes = h.n
      /\ g.got = (IF h.intra THEN 1 ELSE 0)
      /\ PitchAlike(f, h.pitch, PitchRead(f, h.n, Symbols(f, h))[2])
  BY <1>2, <1>5, HeaderIsKnown DEF HeaderKnown
<1>7. Fair2(f, h) /\ Framed(f) /\ h.intra \in BOOLEAN /\ f.lm \in 0..3
  BY <1>2 DEF Fair3, Fair2, Fair1, Framed, Asking
<1>8. /\ tape' = tape /\ spool' = spool /\ turn' = "uncoarse" /\ encst' = encst /\ pairing' = pairing /\ rcod' = g
      /\ HeadingRead(NoFrame, HushRead(f, h.n, Symbols(f, h)).got = 1, PitchRead(f, h.n, Symbols(f, h))[2], d.got = 1,
                     Params(f, g.got = 1, g), work')
      /\ DecToHeader(decst, decst.skip_plc /\ decst.loss_duration # 0, IF f.start = 0 THEN decst.pitch.g ELSE 0,
                     Foreseen(f, g), decst')
  BY <1>4, <1>5 DEF HeaderReadBy, HeaderTold, IntraTold
<1>9. (g.got = 1) = h.intra
  BY <1>6, <1>7
<1>10. Short(f, h) \in BOOLEAN
  <2>1. f.transient \in BOOLEAN
    BY <1>7 DEF Framed
  <2> QED
    BY <2>1 DEF Short, CodedTransient, TransientSent
<1>11. (d.got = 1) = Short(f, h)
  BY <1>6, <1>10
<1>12. PICK q, s, pd : q = PitchRead(f, h.n, Symbols(f, h))[2] /\ s = (HushRead(f, h.n, Symbols(f, h)).got = 1)
                       /\ pd = Params(f, h.intra, g)
  OBVIOUS
<1>13. PitchShape(q) /\ PitchAlike(f, h.pitch, q)
  BY <1>6, <1>12, PitchReadShape
<1>14. WorkShape(work') /\ work'.silent = s /\ work'.pitch = q /\ work'.transient = Short(f, h) /\ work'.p = pd
  <2> DEFINE n == NoFrame
             z == work'
             t == Short(f, h)
  <2>1. HeadingRead(n, s, q, t, pd, z) /\ WorkShape(n)
    BY <1>8, <1>9, <1>11, <1>12, NothingKnown
  <2> HIDE DEF n, z, t
  <2>2. WorkShape(z) /\ z.silent = s /\ z.pitch = q /\ z.transient = t /\ z.p = pd
    BY <2>1, HeaderKnowsBands
  <2> QED
    BY <2>2 DEF z, t
<1>15. SameBands(Par(f, h), pd) /\ pd.budget = TotalBits(g)
  <2>1. Coder(g)
    BY <1>6 DEF Follows
  <2>2. /\ pd.budget = TotalBits(g) /\ pd.intra = h.intra /\ pd.start = f.start /\ pd.end = f.end
        /\ pd.lm = f.lm /\ pd.channels = tape.channels
    BY <1>7, <1>12, <2>1, ParamsAre
  <2>3. /\ Par(f, h).intra = h.intra /\ Par(f, h).start = f.start /\ Par(f, h).end = f.end
        /\ Par(f, h).lm = f.lm /\ Par(f, h).channels = tape.channels
    BY <1>7, ParIs
  <2> QED
    BY <2>2, <2>3 DEF SameBands
<1>16. DecKept(decst)
  BY DEF FrameTypes
<1>17. PICK e1 : e1 = Foreseen(f, g)
  OBVIOUS
<1>18. e1 \in Energies
  BY <1>7, <1>16, <1>17, ForeseenKept
<1>19. DecKept(decst') /\ decst'.e = e1
  <2> DEFINE z == decst'
             d0 == decst
  <2>0. PICK k, n : k = (decst.skip_plc /\ decst.loss_duration # 0) /\ n = IF f.start = 0 THEN decst.pitch.g ELSE 0
    OBVIOUS
  <2>1. DecToHeader(d0, k, n, e1, z) /\ DecKept(d0)
    BY <1>8, <1>16, <1>17, <2>0
  <2> HIDE DEF z, d0
  <2>3. /\ DecKept(z) /\ z.e = e1 /\ z.pitch = [t |-> d0.pitch.t, g |-> n, tapset |-> d0.pitch.tapset]
        /\ z.pitch_old = d0.pitch_old /\ z.background = d0.background /\ z.last_end = d0.last_end
        /\ z.loss_duration = d0.loss_duration
    BY <1>18, <2>1, DecHeader
  <2>2. DecKept(z) /\ z.e = e1
    BY <2>3
  <2> QED
    BY <2>2 DEF z
<1>20. Stays(f, h)
  BY <1>8, StoryStays
<1>21. Abreast(h) => SameUpTo(Par(f, h), 0, h.eb, e1)
  <2> SUFFICES ASSUME Abreast(h) PROVE SameUpTo(Par(f, h), 0, h.eb, e1)
    OBVIOUS
  <2>1. BandParams(Par(f, h)) /\ Par(f, h).channels = tape.channels /\ Par(f, h).intra = h.intra
    BY <1>7, ParIs
  <2>2. PICK p : p = Par(f, h)
    OBVIOUS
  <2>3. PICK eb : eb = h.eb
    OBVIOUS
  <2>4. Tied(eb) /\ (p.intra \/ (~pairing.apart /\ ~pairing.hushed)) /\ BandParams(p) /\ p.channels = tape.channels
    BY <1>2, <2>1, <2>2, <2>3 DEF Abreast
  <2>5. SameUpTo(p, 0, eb, Foreseen(f, g))
    BY <1>7, <1>16, <2>4, ForeseenSame
  <2> QED
    BY <1>17, <2>2, <2>3, <2>5
<1>22. AtUncoarse(f, h)'
  <2>1. Fair3(f, h)'
    BY <1>2, <1>20 DEF Stays
  <2>2. Sent(f, h)'
    BY <1>2, <1>8, <1>20 DEF Stays, Sent
  <2>3. DecKnows(f, h)'
    BY <1>13, <1>14, <1>15, <1>20 DEF Stays, DecKnows
  <2>4. Follows(rcod', Intra(Front(f, h)', Par(f, h)'), Symbols(f, h)') /\ rcod'.bytes = h.n /\ work'.p.budget = TotalBits(rcod')
    BY <1>6, <1>8, <1>14, <1>15, <1>20 DEF Stays
  <2>5. (~pairing'.strayed => SparedAt(f, h)') /\ (Abreast(h)' => SameUpTo(Par(f, h)', 0, h.eb, decst'.e))
    BY <1>2, <1>8, <1>19, <1>20, <1>21 DEF Stays, Abreast
  <2> QED
    BY <2>1, <2>2, <2>3, <2>4, <2>5 DEF AtUncoarse
<1>23. Uncoarse'
  <2>1. f = Sound'
    BY <1>1, <1>8 DEF Sound
  <2> QED
    BY <1>22, <2>1 DEF Uncoarse
<1>24. FrameTypes'
  BY <1>8, <1>14, <1>19 DEF FrameTypes, TURNS
<1> QED
  BY <1>8, <1>23, <1>24

-----------------------------------------------------------------------------
(* The coarse energies are read.                                            *)
CoarseReadBy(d, pd) ==
    /\ tape' = tape /\ spool' = spool /\ turn' = "unchoices" /\ encst' = encst /\ pairing' = pairing /\ work' = work
    /\ rcod' = unquant_coarse_energy(d, pd, decst.e).rc
    /\ DecToCoarse(decst, unquant_coarse_energy(d, pd, decst.e).e, decst')

(* What DecodeCoarse does, in the terms of the story.                       *)
LEMMA CoarseReadDone ==
  ASSUME DecodeCoarse
  PROVE  CoarseReadBy(rcod, work.p)
<1> DEFINE P1(q) == /\ rcod' = q.rc
                    /\ decst' = [decst EXCEPT !.e = q.e]
<1>1. \E q \in {unquant_coarse_energy(rcod, work.p, decst.e)} : P1(q)
  BY DEF DecodeCoarse
<1>2. /\ tape' = tape /\ spool' = spool /\ turn' = "unchoices" /\ encst' = encst /\ pairing' = pairing /\ work' = work
  BY DEF DecodeCoarse
<1> HIDE DEF DecodeCoarse, P1
<1> DEFINE q == unquant_coarse_energy(rcod, work.p, decst.e)
<1>3. P1(q)
  BY <1>1
<1> HIDE DEF q
<1>4. rcod' = q.rc /\ decst' = [decst EXCEPT !.e = q.e]
  BY <1>3 DEF P1
<1> QED
  BY <1>2, <1>4 DEF CoarseReadBy, DecToCoarse, q

(* DecodeCoarse reads the coarse steps of the story.                        *)
LEMMA CoarseHeardGoes ==
  ASSUME FrameTypes, turn = "uncoarse", Uncoarse, DecodeCoarse
  PROVE  FrameTypes' /\ turn' = "unchoices" /\ Unchoosing'
<1>1. PICK f, h : f = Sound /\ AtUncoarse(f, h)
  BY DEF Uncoarse
<1>2. /\ Fair3(f, h) /\ Sent(f, h) /\ DecKnows(f, h)
      /\ Follows(rcod, Intra(Front(f, h), Par(f, h)), Symbols(f, h)) /\ rcod.bytes = h.n /\ work.p.budget = TotalBits(rcod)
      /\ (~pairing.strayed => SparedAt(f, h)) /\ (Abreast(h) => SameUpTo(Par(f, h), 0, h.eb, decst.e))
  BY <1>1 DEF AtUncoarse
<1>3. CoarseReadBy(rcod, work.p)
  BY CoarseReadDone
<1>4. DecKept(decst) /\ decst.e \in Energies /\ SameBands(Par(f, h), work.p)
  BY <1>2 DEF FrameTypes, DecKept, DecKnows
<1>5. PICK d, pd, e, q : d = rcod /\ pd = work.p /\ e = decst.e /\ q = unquant_coarse_energy(d, pd, e)
  OBVIOUS
<1>6. LevAsks(f, h, d, pd, e)
  BY <1>2, <1>4, <1>5 DEF LevAsks
<1>7. LevKnown(f, h, d, pd, e)
  BY <1>6, LevIsKnown
<1>8. /\ UncoarseState(q) /\ Follows(q.rc, Lev(f, h).rc, Symbols(f, h)) /\ q.rc.bytes = h.n
      /\ SparedAt(f, h) /\ SameUpTo(Par(f, h), 0, h.eb, e) => Same(Par(f, h), Lev(f, h).e, q.e)
  BY <1>5, <1>7 DEF LevKnown, SparedAt
<1>9. /\ tape' = tape /\ spool' = spool /\ turn' = "unchoices" /\ encst' = encst /\ pairing' = pairing /\ work' = work
      /\ rcod' = q.rc /\ DecToCoarse(decst, q.e, decst')
  BY <1>3, <1>5 DEF CoarseReadBy
<1>10. DecKept(decst') /\ decst'.e = q.e
  <2> DEFINE z == decst'
             d0 == decst
             e1 == q.e
  <2>1. DecToCoarse(d0, e1, z) /\ DecKept(d0) /\ e1 \in Energies
    BY <1>4, <1>8, <1>9 DEF UncoarseState
  <2> HIDE DEF z, d0, e1
  <2>2. /\ DecKept(z) /\ z.e = e1 /\ z.pitch = d0.pitch /\ z.pitch_old = d0.pitch_old /\ z.background = d0.background
        /\ z.last_end = d0.last_end /\ z.loss_duration = d0.loss_duration
    BY <2>1, DecCoarse
  <2> QED
    BY <2>2 DEF z, e1
<1>11. Stays(f, h)
  BY <1>9, StoryStays
<1>12. AtUnchoices(f, h)'
  <2>1. Fair3(f, h)'
    BY <1>2, <1>11 DEF Stays
  <2>2. Sent(f, h)'
    BY <1>2, <1>9, <1>11 DEF Stays, Sent
  <2>3. DecKnows(f, h)'
    BY <1>2, <1>9, <1>11 DEF Stays, DecKnows
  <2>4. Follows(rcod', Lev(f, h)'.rc, Symbols(f, h)') /\ rcod'.bytes = h.n
    BY <1>8, <1>9, <1>11 DEF Stays
  <2>5. Abreast(h)' /\ ~pairing'.strayed => Same(Par(f, h)', Lev(f, h)'.e, decst'.e)
    BY <1>2, <1>5, <1>8, <1>9, <1>10, <1>11 DEF Stays, Abreast
  <2> QED
    BY <2>1, <2>2, <2>3, <2>4, <2>5 DEF AtUnchoices
<1>13. Unchoosing'
  <2>1. f = Sound'
    BY <1>1, <1>9 DEF Sound
  <2> QED
    BY <1>12, <2>1 DEF Unchoosing
<1>14. FrameTypes'
  BY <1>9, <1>10 DEF FrameTypes, TURNS
<1> QED
  BY <1>9, <1>13, <1>14

(* The choices are read.                                                    *)
ChoicesReadBy(d, pd, t) ==
    /\ tape' = tape /\ spool' = spool /\ turn' = "unbands" /\ encst' = encst /\ decst' = decst /\ pairing' = pairing
    /\ rcod' = ChoicesRead(d, pd, t)
    /\ Choosing(work, TfRead(d, pd, t)[2], SpreadRead(TfRead(d, pd, t)[1]).got, Heard(d, pd, t).boosts, Heard(d, pd, t).total,
                ChoicesRead(d, pd, t).got, work')

(* What DecodeChoices does, in the terms of the story.                      *)
LEMMA ChoicesReadDone ==
  ASSUME DecodeChoices
  PROVE  ChoicesReadBy(rcod, work.p, work.transient)
<1> DEFINE P4(tf, sp, d, tr) ==
             /\ rcod' = tr
             /\ work' = [work EXCEPT !.tf = tf[2], !.spread = sp.got, !.boosts = d.boosts, !.boosted = d.total, !.trim = tr.got]
           P3(tf, sp, d) ==
             \E tr \in {IF TrimSent(d.rc, d.total) THEN AskSym(d.rc, "trim", 11) ELSE [d.rc EXCEPT !.got = 5]} : P4(tf, sp, d, tr)
           P2(tf, sp) == \E d \in {DecDynalloc(NoBoosts(sp), work.p, work.p.end - work.p.start)} : P3(tf, sp, d)
           P1(tf) == \E sp \in {IF SpreadSent(tf[1]) THEN AskSym(tf[1], "spread", 4) ELSE [tf[1] EXCEPT !.got = 2]} : P2(tf, sp)
<1>1. \E tf \in {tf_decode(rcod, work.p.end - work.p.start, work.p.lm, work.transient)} : P1(tf)
  BY DEF DecodeChoices
<1>2. /\ tape' = tape /\ spool' = spool /\ turn' = "unbands" /\ encst' = encst /\ decst' = decst /\ pairing' = pairing
  BY DEF DecodeChoices
<1> HIDE DEF DecodeChoices, P1, P2, P3, P4
<1> DEFINE p == work.p
           t == work.transient
           tf == TfRead(rcod, p, t)
           sp == SpreadRead(tf[1])
           d == Heard(rcod, p, t)
           tr == ChoicesRead(rcod, p, t)
<1>3. P1(tf)
  BY <1>1 DEF TfRead
<1>4. P2(tf, sp)
  BY <1>3 DEF P1, SpreadRead
<1>5. P3(tf, sp, d)
  BY <1>4 DEF P2, Heard, DynRead
<1>6. P4(tf, sp, d, tr)
  BY <1>5 DEF P3, ChoicesRead, TrimRead
<1> HIDE DEF tf, sp, d, tr
<1>7. rcod' = tr
      /\ work' = [work EXCEPT !.tf = tf[2], !.spread = sp.got, !.boosts = d.boosts, !.boosted = d.total, !.trim = tr.got]
  BY <1>6 DEF P4
<1> QED
  BY <1>2, <1>7 DEF ChoicesReadBy, Choosing, tf, sp, d, tr

(* DecodeChoices reads the choices of the story.                            *)
LEMMA ChoicesHeardGo ==
  ASSUME FrameTypes, turn = "unchoices", Unchoosing, DecodeChoices
  PROVE  FrameTypes' /\ turn' = "unbands" /\ Unbanding'
<1>1. PICK f, h : f = Sound /\ AtUnchoices(f, h)
  BY DEF Unchoosing
<1>2. /\ Fair3(f, h) /\ Sent(f, h) /\ DecKnows(f, h)
      /\ Follows(rcod, Lev(f, h).rc, Symbols(f, h)) /\ rcod.bytes = h.n
      /\ Abreast(h) /\ ~pairing.strayed => Same(Par(f, h), Lev(f, h).e, decst.e)
  BY <1>1 DEF AtUnchoices
<1>3. ChoicesReadBy(rcod, work.p, work.transient)
  BY ChoicesReadDone
<1>4. SameBands(Par(f, h), work.p) /\ work.transient = Short(f, h)
  BY <1>2 DEF DecKnows
<1>5. PICK d, pd : d = rcod /\ pd = work.p
  OBVIOUS
<1>6. ToldAsks(f, h, d, pd)
  BY <1>2, <1>4, <1>5 DEF ToldAsks
<1>7. ToldKnown(f, h, d, pd)
  BY <1>6, ToldIsKnown
<1>8. ChoicesReadBy(d, pd, Short(f, h))
  BY <1>3, <1>4, <1>5
<1>9. PICK x, tf, sp, bs, total, tr :
        /\ x = ChoicesRead(d, pd, Short(f, h)) /\ tf = TfRead(d, pd, Short(f, h))[2]
        /\ sp = SpreadRead(TfRead(d, pd, Short(f, h))[1]).got
        /\ bs = Heard(d, pd, Short(f, h)).boosts /\ total = Heard(d, pd, Short(f, h)).total /\ tr = x.got
  OBVIOUS
<1>10. /\ Follows(x, Told(f, h), Symbols(f, h)) /\ x.bytes = h.n /\ tf = TfDecided(f, h)[2] /\ sp = SpreadDecided(f, h)
       /\ bs = Picked(f, h).boosts /\ tr = TrimDecided(f, h)
  BY <1>7, <1>9 DEF ToldKnown
<1>11. /\ tape' = tape /\ spool' = spool /\ turn' = "unbands" /\ encst' = encst /\ decst' = decst /\ pairing' = pairing
       /\ rcod' = x /\ Choosing(work, tf, sp, bs, total, tr, work')
  BY <1>8, <1>9 DEF ChoicesReadBy
<1>12. /\ WorkShape(work') /\ work'.silent = work.silent /\ work'.pitch = work.pitch /\ work'.transient = work.transient /\ work'.p = work.p
       /\ work'.tf = tf /\ work'.spread = sp /\ work'.boosts = bs /\ work'.trim = tr
  <2> DEFINE z == work'
             w == work
  <2>1. Choosing(w, tf, sp, bs, total, tr, z) /\ WorkShape(w)
    BY <1>11 DEF FrameTypes
  <2> HIDE DEF z, w
  <2>2. /\ WorkShape(z) /\ z.silent = w.silent /\ z.pitch = w.pitch /\ z.transient = w.transient /\ z.p = w.p /\ z.s = w.s
        /\ z.tf = tf /\ z.spread = sp /\ z.boosts = bs /\ z.boosted = total /\ z.trim = tr
    BY <2>1, ChoicesKnow
  <2> QED
    BY <2>2 DEF z, w
<1>13. Stays(f, h)
  BY <1>11, StoryStays
<1>14. SameChoices(Decided(f, h), work')
  <2>1. /\ Decided(f, h).transient = Short(f, h) /\ Decided(f, h).tf = TfDecided(f, h)[2]
        /\ Decided(f, h).spread = SpreadDecided(f, h) /\ Decided(f, h).boosts = Picked(f, h).boosts
        /\ Decided(f, h).trim = TrimDecided(f, h)
    BY DEF Decided
  <2> QED
    BY <1>4, <1>10, <1>12, <2>1 DEF SameChoices
<1>15. AtUnbands(f, h)'
  <2>1. Fair3(f, h)'
    BY <1>2, <1>13 DEF Stays
  <2>2. Sent(f, h)'
    BY <1>2, <1>11, <1>13 DEF Stays, Sent
  <2>3. DecKnows(f, h)'
    BY <1>2, <1>12, <1>13 DEF Stays, DecKnows
  <2>4. Follows(rcod', Told(f, h)', Symbols(f, h)') /\ rcod'.bytes = h.n
    BY <1>10, <1>11, <1>13 DEF Stays
  <2>5. Abreast(h)' /\ ~pairing'.strayed => Same(Par(f, h)', Lev(f, h)'.e, decst'.e)
    BY <1>2, <1>11, <1>13 DEF Stays, Abreast
  <2>6. SameChoices(Decided(f, h), work)'
    BY <1>13, <1>14 DEF Stays, SameChoices
  <2> QED
    BY <2>1, <2>2, <2>3, <2>4, <2>5, <2>6 DEF AtUnbands
<1>16. Unbanding'
  <2>1. f = Sound'
    BY <1>1, <1>11 DEF Sound
  <2> QED
    BY <1>15, <2>1 DEF Unbanding
<1>17. FrameTypes'
  BY <1>11, <1>12 DEF FrameTypes, TURNS
<1> QED
  BY <1>11, <1>16, <1>17

-----------------------------------------------------------------------------
(* The bands are read.                                                      *)
PairRead(q, heard, streak, apart, hushed, z) ==
    z = [q EXCEPT !.heard = heard, !.streak = streak, !.apart = apart, !.hushed = hushed]
BandsReadBy(d, pd, w, e) ==
    /\ tape' = tape /\ spool' = spool /\ turn' = "heard" /\ encst' = encst /\ work' = work
    /\ rcod' = BandsRead(d, pd, w, e).rc
    /\ DecToKept(pd, Final(BandsRead(d, pd, w, e).e, w.silent), w.transient, w.pitch, decst')
    /\ PairRead(pairing, HeardUnits(pd.lm, w.pitch), (IF Untold THEN 0 ELSE MinOf(3, pairing.streak + 1)), pairing.apart /\ ~pd.intra,
                (pairing.hushed /\ ~pd.intra) \/ w.silent \/ pairing.strayed, pairing')

(* The record of a frame heard: which crossfades were undone.               *)
LEMMA PairHeard ==
  ASSUME NEW q, PairShape(q), NEW a, NEW b, NEW c, NEW d, NEW z, PairRead(q, a, b, c, d, z)
  PROVE  /\ PairShape(z) /\ z.heard = a /\ z.streak = b /\ z.apart = c /\ z.hushed = d
         /\ z.applied = q.applied /\ z.before = q.before /\ z.strayed = q.strayed
<1>1. PICK i, j, k, l, m, n, o :
        q = [before |-> i, applied |-> j, heard |-> k, streak |-> l, apart |-> m, hushed |-> n, strayed |-> o]
  BY DEF PairShape
<1>2. z = [before |-> i, applied |-> j, heard |-> a, streak |-> b, apart |-> c, hushed |-> d, strayed |-> o]
  BY <1>1 DEF PairRead
<1>3. q.before = i /\ q.applied = j /\ q.strayed = o
  BY <1>1
<1>4. z.before = i /\ z.applied = j /\ z.heard = a /\ z.streak = b /\ z.apart = c /\ z.hushed = d /\ z.strayed = o
  BY <1>2
<1> QED
  BY <1>2, <1>3, <1>4 DEF PairShape

(* What DecodeBands does, in the terms of the story.                        *)
LEMMA BandsReadDone ==
  ASSUME DecodeBands
  PROVE  BandsReadBy(rcod, work.p, work, decst.e)
<1> DEFINE p == work.p
           reserve == AntiCollapse(rcod, p, work.transient)
           avail == AllocBits(rcod, p, work.transient)
           bits == FineBits(p, avail, work.boosts, work.trim)
           P4(done) ==
             /\ rcod' = done.rc
             /\ decst' = Kept(p, Final(done.e, work.silent), work.transient, work.pitch)
             /\ pairing' = [pairing EXCEPT
                    !.heard = HeardUnits(p.lm, work.pitch),
                    !.streak = IF Untold THEN 0 ELSE MinOf(3, @ + 1),
                    !.apart = @ /\ ~p.intra, !.hushed = (@ /\ ~p.intra) \/ work.silent \/ pairing.strayed]
           P3(fine, settled) ==
             \E done \in {unquant_energy_finalise([fine EXCEPT !.rc = settled], p, bits, Priorities(avail),
                                                TotalBits(settled) - TellBits(settled))} : P4(done)
           P2(fine, shaped) == \E settled \in {IF reserve > 0 THEN DecRaw(shaped, 1) ELSE shaped} : P3(fine, settled)
           P1(fine) == \E shaped \in {AskSym(fine.rc, "shapes", ShapesContext(fine.rc, work, bits))} : P2(fine, shaped)
<1>1. \E fine \in {unquant_fine_energy(
                          [rc |-> AskSym(rcod, "alloc", AllocContext(p, avail, work.boosts, work.trim)), e |-> decst.e],
                          p, bits)} : P1(fine)
  BY DEF DecodeBands
<1>2. /\ tape' = tape /\ spool' = spool /\ turn' = "heard" /\ encst' = encst /\ work' = work
  BY DEF DecodeBands
<1>3. reserve = BandReserve(rcod, p, work) /\ avail = BandAvail(rcod, p, work) /\ bits = BandBits(rcod, p, work)
  BY DEF BandReserve, BandAvail, BandBits
<1> HIDE DEF DecodeBands, P1, P2, P3, P4, reserve, avail, bits
<1> DEFINE fine == FineRead(rcod, p, work, decst.e)
           shaped == ShapesRead(rcod, p, work, decst.e)
           settled == SettledRead(rcod, p, work, decst.e)
           done == BandsRead(rcod, p, work, decst.e)
<1>4. P1(fine)
  BY <1>1, <1>3 DEF FineRead, AllocRead
<1>5. P2(fine, shaped)
  BY <1>3, <1>4 DEF P1, ShapesRead
<1>6. P3(fine, settled)
  BY <1>3, <1>5 DEF P2, SettledRead
<1>7. P4(done)
  BY <1>3, <1>6 DEF P3, BandsRead
<1> HIDE DEF fine, shaped, settled, done
<1>8. /\ rcod' = done.rc
      /\ decst' = Kept(p, Final(done.e, work.silent), work.transient, work.pitch)
      /\ pairing' = [pairing EXCEPT
                    !.heard = HeardUnits(p.lm, work.pitch),
                    !.streak = (IF Untold THEN 0 ELSE MinOf(3, pairing.streak + 1)),
                    !.apart = pairing.apart /\ ~p.intra, !.hushed = (pairing.hushed /\ ~p.intra) \/ work.silent \/ pairing.strayed]
  BY <1>7 DEF P4
<1> QED
  BY <1>2, <1>8 DEF BandsReadBy, DecToKept, PairRead, done

(* Where all bands are the same, so is what is remembered of them.          *)
KeptAlike(p, pd, a, b) ==
    BandParams(p) /\ SameBands(p, pd) /\ a \in Energies /\ b \in Energies /\ Same(p, a, b) /\ p.channels = tape.channels

KeptAgree(p, pd, a, b) == \A c \in 1..tape.channels : Coded(pd, Final(b, FALSE), 0)[c] = Coded(p, a, 0)[c]

(* Energies that were the same are kept the same.                           *)
LEMMA KeptSame ==
  ASSUME NEW p, NEW pd, NEW a, NEW b, KeptAlike(p, pd, a, b)
  PROVE  KeptAgree(p, pd, a, b)
<1> SUFFICES ASSUME NEW c \in 1..tape.channels
             PROVE  Coded(pd, Final(b, FALSE), 0)[c] = Coded(p, a, 0)[c]
  BY DEF KeptAgree
<1>0. BandParams(p) /\ SameBands(p, pd) /\ a \in Energies /\ b \in Energies /\ Same(p, a, b) /\ p.channels = tape.channels
  BY DEF KeptAlike
<1>1. c \in 1..2 /\ pd.start = p.start /\ pd.end = p.end /\ tape.channels \in 1..2
  BY <1>0 DEF BandParams, SameBands
<1> DEFINE x == Final(b, FALSE)
<1>2. x[c] = b[c]
  <2> DEFINE fl == [i \in 1..2 |-> IF FALSE /\ i <= tape.channels THEN Flat(QUIET) ELSE b[i]]
  <2>1. x = IF tape.channels = 1 THEN [i \in 1..2 |-> fl[1]] ELSE fl
    BY DEF Final
  <2>2. fl[c] = b[c] /\ fl[1] = b[1]
    BY <1>1
  <2> HIDE DEF fl, x
  <2>3. CASE tape.channels = 1
    <3>1. c = 1
      BY <2>3
    <3>2. x[c] = fl[1]
      BY <1>1, <2>1, <2>3
    <3> QED
      BY <2>2, <3>1, <3>2
  <2>4. CASE tape.channels # 1
    BY <2>1, <2>2, <2>4
  <2> QED
    BY <2>3, <2>4
<1> HIDE DEF x
<1>3. ASSUME NEW j \in 1..NbBands, j - 1 \in p.start..(p.end - 1)
      PROVE  b[c][j] = a[c][j]
  <2>1. PICK k \in Nat : k < Steps(p) /\ ChannelOf(p, k) = c /\ BandOf(p, k) = j - 1
    BY <1>0, <1>3, StepOfBand
  <2>2. a[c][(j - 1) + 1] = b[c][(j - 1) + 1]
    BY <1>0, <2>1 DEF Same
  <2>3. j \in Int
    BY DEF NbBands
  <2>4. (j - 1) + 1 = j
    BY <2>3
  <2> QED
    BY <2>2, <2>4
<1>4. Coded(pd, x, 0)[c] = [j \in 1..NbBands |-> IF j - 1 \in p.start..(p.end - 1) THEN b[c][j] ELSE 0]
  BY <1>1, <1>2 DEF Coded
<1>5. Coded(p, a, 0)[c] = [j \in 1..NbBands |-> IF j - 1 \in p.start..(p.end - 1) THEN a[c][j] ELSE 0]
  BY <1>1 DEF Coded
<1>6. \A j \in 1..NbBands : (IF j - 1 \in p.start..(p.end - 1) THEN b[c][j] ELSE 0) = (IF j - 1 \in p.start..(p.end - 1) THEN a[c][j] ELSE 0)
  BY <1>3
<1> QED
  BY <1>4, <1>5, <1>6 DEF x

(* In a mono stream both rows kept are the same.                            *)
LEMMA KeptMono ==
  ASSUME tape.channels = 1, NEW p, NEW e, NEW silent
  PROVE  Coded(p, Final(e, silent), 0)[1] = Coded(p, Final(e, silent), 0)[2]
<1> DEFINE x == Final(e, silent)
<1>1. x[1] = x[2]
  BY DEF Final
<1> HIDE DEF x
<1> QED
  BY <1>1 DEF Coded, x

(* DecodeBands reads the story to its last symbol, and keeps the energies   *)
(* the encoder kept.                                                        *)
LEMMA BandsHeardGo ==
  ASSUME FrameTypes, turn = "unbands", Unbanding, DecodeBands
  PROVE  FrameTypes' /\ turn' = "heard" /\ AtHeard'
<1>1. PICK f, h : f = Sound /\ AtUnbands(f, h)
  BY DEF Unbanding
<1>2. /\ Fair3(f, h) /\ Sent(f, h) /\ DecKnows(f, h) /\ SameChoices(Decided(f, h), work)
      /\ Follows(rcod, Told(f, h), Symbols(f, h)) /\ rcod.bytes = h.n
      /\ Abreast(h) /\ ~pairing.strayed => Same(Par(f, h), Lev(f, h).e, decst.e)
  BY <1>1 DEF AtUnbands
<1>3. BandsReadBy(rcod, work.p, work, decst.e)
  BY BandsReadDone
<1>4. SameBands(Par(f, h), work.p) /\ PitchShape(work.pitch) /\ DecKept(decst) /\ decst.e \in Energies
  BY <1>2 DEF DecKnows, FrameTypes, DecKept
<1>5. PICK d, pd, w, e, q, was : d = rcod /\ pd = work.p /\ w = work /\ e = decst.e /\ q = BandsRead(d, pd, w, e) /\ was = pairing
  OBVIOUS
<1>6. WholeAsks(f, h, d, pd, w, e)
  BY <1>2, <1>4, <1>5 DEF WholeAsks
<1>7. WholeKnown(f, h, d, pd, w, e)
  BY <1>6, WholeIsKnown
<1>8. /\ q.e \in Energies /\ Follows(q.rc, Whole(f, h).rc, Symbols(f, h)) /\ q.rc.bytes = h.n
      /\ Same(Par(f, h), Lev(f, h).e, e) => Same(Par(f, h), Whole(f, h).e, q.e)
  BY <1>5, <1>7 DEF WholeKnown, UnfineState
<1>9. PICK e1, units, streak, apart, hushed :
        /\ e1 = Final(q.e, w.silent) /\ units = HeardUnits(pd.lm, w.pitch) /\ streak = (IF Untold THEN 0 ELSE MinOf(3, was.streak + 1))
        /\ apart = (was.apart /\ ~pd.intra) /\ hushed = ((was.hushed /\ ~pd.intra) \/ w.silent \/ was.strayed)
  OBVIOUS
<1>10. /\ tape' = tape /\ spool' = spool /\ turn' = "heard" /\ encst' = encst /\ work' = work /\ rcod' = q.rc
       /\ DecToKept(pd, e1, w.transient, w.pitch, decst') /\ PairRead(was, units, streak, apart, hushed, pairing')
  BY <1>3, <1>5, <1>9 DEF BandsReadBy
<1>11. /\ PairShape(pairing') /\ pairing'.apart = apart /\ pairing'.hushed = hushed /\ pairing'.strayed = was.strayed
  <2> DEFINE z == pairing'
  <2>1. PairShape(was) /\ PairRead(was, units, streak, apart, hushed, z)
    BY <1>5, <1>10 DEF FrameTypes
  <2> HIDE DEF z
  <2>2. /\ PairShape(z) /\ z.heard = units /\ z.streak = streak /\ z.apart = apart /\ z.hushed = hushed
        /\ z.applied = was.applied /\ z.before = was.before /\ z.strayed = was.strayed
    BY <2>1, PairHeard
  <2> QED
    BY <2>2 DEF z
<1>12. Fair2(f, h) /\ BandParams(Par(f, h)) /\ Par(f, h).channels = tape.channels /\ Par(f, h).intra = h.intra
       /\ Par(f, h).lm \in 0..3 /\ tape.channels \in 1..2
  BY <1>2, ParIs DEF Fair3, BandParams
<1>13. pd.intra = h.intra /\ pd.lm \in 0..3 /\ h.intra \in BOOLEAN
  BY <1>4, <1>5, <1>12 DEF SameBands, Fair2
<1>14. DecKept(decst') /\ decst'.e = Coded(pd, e1, 0) /\ decst'.loss_duration = 0
  <2> DEFINE z == decst'
             t == w.transient
             new == w.pitch
  <2>1. e1 \in Energies
    BY <1>8, <1>9, FinalKept
  <2>2. DecToKept(pd, e1, t, new, z) /\ PitchShape(new)
    BY <1>4, <1>5, <1>10
  <2> HIDE DEF z, t, new
  <2>3. DecHolds(pd, e1, new, z)
    BY <1>4, <1>13, <2>1, <2>2, DecFrame
  <2> QED
    BY <2>3 DEF DecHolds, z
<1>15. rcod'.ok /\ TellBits(rcod') <= TotalBits(rcod') /\ rcod'.place = Len(rcod'.syms)
  <2>1. /\ q.rc.ok /\ q.rc.frac = Whole(f, h).rc.frac /\ q.rc.bytes = Whole(f, h).rc.bytes
        /\ q.rc.place = Len(Symbols(f, h)) /\ q.rc.syms = Symbols(f, h)
    BY <1>2, <1>8, WholeCodes DEF Follows, Symbols
  <2>2. TellBits(Whole(f, h).rc) <= TotalBits(Whole(f, h).rc)
    BY <1>2, WholeCodes
  <2> QED
    BY <1>10, <2>1, <2>2 DEF TellBits, TotalBits
<1>16. Tied(encst.e)'
  <2>1. ASSUME tape'.channels = 1
        PROVE  decst'.e[1] = decst'.e[2]
    <3>1. tape.channels = 1
      BY <1>10, <2>1
    <3> QED
      BY <1>9, <1>14, <3>1, KeptMono
  <2>2. ASSUME ~apart, ~hushed, NEW c \in 1..tape.channels
        PROVE  decst'.e[c] = encst'.e[c]
    <3>1. Abreast(h) /\ ~w.silent /\ ~pairing.strayed
      <4>1. /\ was = pairing /\ apart = (was.apart /\ ~h.intra)
            /\ hushed = ((was.hushed /\ ~h.intra) \/ w.silent \/ was.strayed)
        BY <1>5, <1>9, <1>13
      <4>2. pairing.apart \in BOOLEAN /\ pairing.hushed \in BOOLEAN
        BY DEF FrameTypes
      <4> QED
        BY <1>13, <2>2, <4>1, <4>2 DEF Abreast
    <3>2. Same(Par(f, h), Whole(f, h).e, q.e)
      BY <1>2, <1>5, <1>8, <3>1
    <3>3. e1 = Final(q.e, FALSE)
      BY <1>9, <3>1 DEF Final
    <3>4. Whole(f, h).e \in Energies
      BY <1>2, WholeCodes DEF FineState
    <3>5. PICK p, a, b : p = Par(f, h) /\ a = Whole(f, h).e /\ b = q.e
      OBVIOUS
    <3>6. KeptAlike(p, pd, a, b)
      BY <1>4, <1>5, <1>8, <1>12, <3>2, <3>4, <3>5 DEF KeptAlike
    <3>9. KeptAgree(p, pd, a, b)
      BY <3>6, KeptSame
    <3>7. Coded(pd, Final(b, FALSE), 0)[c] = Coded(p, a, 0)[c]
      BY <3>9 DEF KeptAgree
    <3>8. encst'.e = Coded(p, a, 0)
      BY <1>2, <1>10, <3>5 DEF Sent
    <3> QED
      BY <1>14, <3>3, <3>5, <3>7, <3>8
  <2>3. tape'.channels = tape.channels
    BY <1>10
  <2> QED
    BY <1>11, <1>14, <2>1, <2>2, <2>3 DEF Tied
<1>17. AtHeard'
  BY <1>15, <1>16 DEF AtHeard, Between
<1>18. FrameTypes'
  <2>1. apart \in BOOLEAN /\ hushed \in BOOLEAN /\ was.strayed \in BOOLEAN
    BY <1>5, <1>9 DEF FrameTypes
  <2> QED
    BY <1>5, <1>10, <1>11, <1>14, <2>1 DEF FrameTypes, TURNS
<1> QED
  BY <1>10, <1>17, <1>18

-----------------------------------------------------------------------------
(* A step that changes nothing.                                             *)
LEMMA TiedRests ==
  ASSUME UNCHANGED cvars, NEW e
  PROVE  Tied(e)' <=> Tied(e)
BY DEF Tied, cvars

(* A stuttering step leaves every stage where it is.                        *)
LEMMA StagesRest ==
  ASSUME UNCHANGED cvars
  PROVE  /\ Coarse => Coarse'
         /\ Deciding => Deciding'
         /\ Sizing => Sizing'
         /\ Banding => Banding'
         /\ Airing => Airing'
         /\ Uncoarse => Uncoarse'
         /\ Unchoosing => Unchoosing'
         /\ Unbanding => Unbanding'
<1>1. /\ tape' = tape /\ spool' = spool /\ turn' = turn /\ encst' = encst /\ decst' = decst /\ rcod' = rcod /\ work' = work
      /\ pairing' = pairing
  BY DEF cvars
<1>2. Sound' = Sound
  BY <1>1 DEF Sound
<1>3. \A e : Tied(e)' = Tied(e)
  BY <1>1 DEF Tied
<1>4. Coarse => Coarse'
  <2> SUFFICES ASSUME Coarse PROVE Coarse'
    OBVIOUS
  <2>1. PICK f, h : f = Sound /\ AtCoarse(f, h)
    BY DEF Coarse
  <2>2. Stays(f, h)
    BY <1>1, StoryStays
  <2>3. AtCoarse(f, h)'
    BY <1>1, <1>3, <2>1, <2>2 DEF Stays, AtCoarse, Tied
  <2> QED
    BY <1>2, <2>1, <2>3 DEF Coarse
<1>5. Deciding => Deciding'
  <2> SUFFICES ASSUME Deciding PROVE Deciding'
    OBVIOUS
  <2>1. PICK f, h : f = Sound /\ AtChoices(f, h)
    BY DEF Deciding
  <2>2. Stays(f, h)
    BY <1>1, StoryStays
  <2>3. AtChoices(f, h)'
    BY <1>1, <1>3, <2>1, <2>2 DEF Stays, AtChoices, EncKnows, Tied
  <2> QED
    BY <1>2, <2>1, <2>3 DEF Deciding
<1>6. Sizing => Sizing'
  <2> SUFFICES ASSUME Sizing PROVE Sizing'
    OBVIOUS
  <2>1. PICK f, h : f = Sound /\ AtSize(f, h)
    BY DEF Sizing
  <2>2. Stays(f, h)
    BY <1>1, StoryStays
  <2>3. AtSize(f, h)'
    BY <1>1, <1>3, <2>1, <2>2 DEF Stays, AtSize, EncKnows, SameChoices, Tied
  <2> QED
    BY <1>2, <2>1, <2>3 DEF Sizing
<1>7. Banding => Banding'
  <2> SUFFICES ASSUME Banding PROVE Banding'
    OBVIOUS
  <2>1. PICK f, h : f = Sound /\ AtBands(f, h)
    BY DEF Banding
  <2>2. Stays(f, h)
    BY <1>1, StoryStays
  <2>3. AtBands(f, h)'
    BY <1>1, <1>3, <2>1, <2>2 DEF Stays, AtBands, EncKnows, SameChoices, Tied
  <2> QED
    BY <1>2, <2>1, <2>3 DEF Banding
<1>8. Airing => Airing'
  <2> SUFFICES ASSUME Airing PROVE Airing'
    OBVIOUS
  <2>1. PICK f, h : f = Sound /\ AtAir(f, h)
    BY DEF Airing
  <2>2. Stays(f, h)
    BY <1>1, StoryStays
  <2>3. AtAir(f, h)'
    BY <1>1, <1>3, <2>1, <2>2 DEF Stays, AtAir, Sent, Tied
  <2> QED
    BY <1>2, <2>1, <2>3 DEF Airing
<1>9. Uncoarse => Uncoarse'
  <2> SUFFICES ASSUME Uncoarse PROVE Uncoarse'
    OBVIOUS
  <2>1. PICK f, h : f = Sound /\ AtUncoarse(f, h)
    BY DEF Uncoarse
  <2>2. Stays(f, h)
    BY <1>1, StoryStays
  <2>3. AtUncoarse(f, h)'
    BY <1>1, <1>3, <2>1, <2>2 DEF Stays, AtUncoarse, Sent, DecKnows, Abreast, Tied
  <2> QED
    BY <1>2, <2>1, <2>3 DEF Uncoarse
<1>10. Unchoosing => Unchoosing'
  <2> SUFFICES ASSUME Unchoosing PROVE Unchoosing'
    OBVIOUS
  <2>1. PICK f, h : f = Sound /\ AtUnchoices(f, h)
    BY DEF Unchoosing
  <2>2. Stays(f, h)
    BY <1>1, StoryStays
  <2>3. AtUnchoices(f, h)'
    BY <1>1, <1>3, <2>1, <2>2 DEF Stays, AtUnchoices, Sent, DecKnows, Abreast, Tied
  <2> QED
    BY <1>2, <2>1, <2>3 DEF Unchoosing
<1>11. Unbanding => Unbanding'
  <2> SUFFICES ASSUME Unbanding PROVE Unbanding'
    OBVIOUS
  <2>1. PICK f, h : f = Sound /\ AtUnbands(f, h)
    BY DEF Unbanding
  <2>2. Stays(f, h)
    BY <1>1, StoryStays
  <2>3. AtUnbands(f, h)'
    BY <1>1, <1>3, <2>1, <2>2 DEF Stays, AtUnbands, Sent, DecKnows, Abreast, SameChoices, Tied
  <2> QED
    BY <1>2, <2>1, <2>3 DEF Unbanding
<1> QED
  BY <1>4, <1>5, <1>6, <1>7, <1>8, <1>9, <1>10, <1>11

(* A stuttering step keeps the invariant.                                   *)
LEMMA InvRests ==
  ASSUME FrameInv, UNCHANGED cvars
  PROVE  FrameInv'
<1>1. /\ tape' = tape /\ spool' = spool /\ turn' = turn /\ encst' = encst /\ decst' = decst /\ rcod' = rcod /\ work' = work
      /\ pairing' = pairing
  BY DEF cvars
<1>2. FrameTypes'
  BY <1>1 DEF FrameInv, FrameTypes
<1>3. (Between => Between') /\ (AtHeard => AtHeard')
  BY <1>1 DEF Between, AtHeard, Tied
<1> QED
  BY <1>1, <1>2, <1>3, StagesRest DEF FrameInv

(* A packet lost.                                                           *)
LEMMA NoCoderIs == NoCoder.ok /\ TellBits(NoCoder) <= TotalBits(NoCoder) /\ NoCoder.place = Len(NoCoder.syms)
<1> DEFINE t == <<>>
<1>1. NoCoder = [frac |-> 0, bytes |-> 0, syms |-> t, place |-> 0, ok |-> TRUE, got |-> 0] /\ Len(t) = 0
  BY DEF NoCoder
<1> HIDE DEF t
<1>2. NoCoder.frac = 0 /\ NoCoder.bytes = 0 /\ NoCoder.syms = t /\ NoCoder.place = 0 /\ NoCoder.ok
  BY <1>1
<1> QED
  BY <1>1, <1>2 DEF TellBits, TotalBits

PairLost(q, z) == z = [q EXCEPT !.streak = 0, !.apart = TRUE, !.heard = <<>>]
(* The record of a frame lost.                                              *)
LEMMA PairApart ==
  ASSUME NEW q, PairShape(q), NEW z, PairLost(q, z)
  PROVE  /\ PairShape(z) /\ z.streak = 0 /\ z.heard = <<>> /\ z.apart = TRUE /\ z.hushed = q.hushed
         /\ z.applied = q.applied /\ z.before = q.before /\ z.strayed = q.strayed
<1> DEFINE t == <<>>
<1>1. PICK i, j, k, l, m, n, o :
        q = [before |-> i, applied |-> j, heard |-> k, streak |-> l, apart |-> m, hushed |-> n, strayed |-> o]
  BY DEF PairShape
<1>0. z = [q EXCEPT !.streak = 0, !.apart = TRUE, !.heard = t]
  BY DEF PairLost
<1> HIDE DEF t
<1>2. z = [before |-> i, applied |-> j, heard |-> t, streak |-> 0, apart |-> TRUE, hushed |-> n, strayed |-> o]
  BY <1>0, <1>1
<1>3. q.before = i /\ q.applied = j /\ q.hushed = n /\ q.strayed = o
  BY <1>1
<1>4. z.before = i /\ z.applied = j /\ z.heard = t /\ z.streak = 0 /\ z.apart = TRUE /\ z.hushed = n /\ z.strayed = o
  BY <1>2
<1> QED
  BY <1>2, <1>3, <1>4 DEF PairShape, t

(* A loss ends the story unread, and sets the ends apart.                   *)
LEMMA LossGoes ==
  ASSUME FrameTypes, turn = "air", Lose
  PROVE  FrameTypes' /\ turn' = "heard" /\ AtHeard'
<1>1. /\ tape' = tape /\ spool' = spool /\ turn' = "heard" /\ encst' = encst /\ rcod' = NoCoder /\ work' = NoFrame
      /\ DecToHide(Sound, decst') /\ PairLost(pairing, pairing')
  BY DEF Lose, DecToHide, PairLost
<1>2. PICK f : f = Sound
  OBVIOUS
<1>3. f.lm \in 0..3
  <2>1. tape \in Clips /\ spool \in 1..Len(tape.sounds)
    <3>1. tape \in Clips /\ spool \in 0..Len(tape.sounds) /\ spool >= 1
      BY DEF FrameTypes
    <3>2. Len(tape.sounds) \in Nat
      BY <3>1, ClipsAssumption
    <3> QED
      BY <3>1, <3>2
  <2>2. Framed(tape.sounds[spool])
    BY <2>1, SoundsFramed
  <2> QED
    BY <1>2, <2>2 DEF Sound, Framed, Asking
<1>4. DecKept(decst')
  <2> DEFINE z == decst'
  <2>1. DecToHide(f, z) /\ DecKept(decst)
    BY <1>1, <1>2 DEF FrameTypes
  <2> HIDE DEF z
  <2>2. DecHidden(f, z)
    BY <1>3, <2>1, DecLost
  <2> QED
    BY <2>2 DEF DecHidden, z
<1>5. PairShape(pairing') /\ pairing'.apart = TRUE /\ pairing'.hushed = pairing.hushed /\ pairing'.strayed = pairing.strayed
  <2> DEFINE z == pairing'
             q == pairing
  <2>1. PairShape(q) /\ PairLost(q, z)
    BY <1>1 DEF FrameTypes
  <2> HIDE DEF z, q
  <2>2. /\ PairShape(z) /\ z.streak = 0 /\ z.heard = <<>> /\ z.apart = TRUE /\ z.hushed = q.hushed
        /\ z.applied = q.applied /\ z.before = q.before /\ z.strayed = q.strayed
    BY <2>1, PairApart
  <2> QED
    BY <2>2 DEF z, q
<1>6. AtHeard'
  <2>1. rcod'.ok /\ TellBits(rcod') <= TotalBits(rcod') /\ rcod'.place = Len(rcod'.syms)
    BY <1>1, NoCoderIs
  <2>2. Tied(encst.e)'
    BY <1>5 DEF Tied
  <2> QED
    BY <2>1, <2>2 DEF AtHeard, Between
<1>7. FrameTypes'
  BY <1>1, <1>4, <1>5, NothingKnown DEF FrameTypes, TURNS
<1> QED
  BY <1>1, <1>6, <1>7

(* The next frame.                                                          *)
LEMMA ReadyGoes ==
  ASSUME FrameTypes, turn = "heard", AtHeard, Ready
  PROVE  FrameTypes' /\ turn' = "record" /\ Between'
<1>1. /\ tape' = tape /\ spool' = spool /\ turn' = "record" /\ encst' = encst /\ decst' = decst /\ pairing' = pairing
      /\ rcod' = NoCoder /\ work' = NoFrame
  BY DEF Ready
<1>2. Between'
  BY <1>1, NoCoderIs, TiedStays DEF AtHeard, Between, Tied
<1>3. FrameTypes'
  BY <1>1, NothingKnown DEF FrameTypes, TURNS
<1> QED
  BY <1>1, <1>2, <1>3

(* Both ends are new.                                                       *)
LEMMA NewAlike ==
  ASSUME CeltFrameInit
  PROVE  FrameTypes /\ turn = "record" /\ Between
<1>1. /\ tape \in Clips /\ spool = 0 /\ turn = "record" /\ encst = NewCeltEncoder /\ decst = NewCeltDecoder
      /\ rcod = NoCoder /\ work = NoFrame
      /\ pairing = [before |-> <<>>, applied |-> <<>>, heard |-> <<>>, streak |-> 0, apart |-> FALSE, hushed |-> FALSE,
                  strayed |-> FALSE]
  BY DEF CeltFrameInit
<1>2. spool \in 0..Len(tape.sounds) /\ tape.channels \in 1..2
  <2>1. Len(tape.sounds) \in Nat /\ tape.channels \in 1..2
    BY <1>1, ClipsAssumption
  <2> QED
    BY <1>1, <2>1
<1>3. PairShape(pairing) /\ pairing.apart = FALSE /\ pairing.hushed = FALSE /\ pairing.strayed = FALSE
  <2> DEFINE t == <<>>
  <2>1. pairing = [before |-> t, applied |-> t, heard |-> t, streak |-> 0, apart |-> FALSE, hushed |-> FALSE,
                  strayed |-> FALSE]
    BY <1>1
  <2> HIDE DEF t
  <2> QED
    BY <2>1 DEF PairShape
<1>4. FrameTypes
  BY <1>1, <1>2, <1>3, EncNew, DecNew, NothingKnown DEF FrameTypes, TURNS
<1>5. decst.loss_duration = 0 /\ decst.e = Spread(0) /\ encst.e = Spread(0)
  BY <1>1, EncNew, DecNew
<1>6. Tied(encst.e)
  <2>1. Spread(0)[1] = Spread(0)[2]
    BY DEF Spread
  <2> QED
    BY <1>5, <2>1 DEF Tied
<1> QED
  BY <1>1, <1>4, <1>6, NoCoderIs DEF Between

(* The invariant holds of the next state.                                   *)
LEMMA InvStep ==
  ASSUME FrameInv, CeltFrameNext
  PROVE  FrameInv'
<1>0. FrameTypes
  BY DEF FrameInv
<1>1. CASE EncodeHeader
  <2>1. turn = "record"
    BY <1>1 DEF EncodeHeader
  <2>2. FrameTypes' /\ turn' = "coarse" /\ Coarse'
    BY <1>0, <1>1, <2>1, HeaderGoes DEF FrameInv
  <2> QED
    BY <2>2 DEF FrameInv
<1>2. CASE EncodeCoarse
  <2>1. turn = "coarse"
    BY <1>2 DEF EncodeCoarse
  <2>2. FrameTypes' /\ turn' = "choices" /\ Deciding'
    BY <1>0, <1>2, <2>1, CoarseGoesOn DEF FrameInv
  <2> QED
    BY <2>2 DEF FrameInv
<1>3. CASE EncodeChoices
  <2>1. turn = "choices"
    BY <1>3 DEF EncodeChoices
  <2>2. FrameTypes' /\ turn' = "size" /\ Sizing'
    BY <1>0, <1>3, <2>1, ChoicesGoOn DEF FrameInv
  <2> QED
    BY <2>2 DEF FrameInv
<1>4. CASE ChooseSize
  <2>1. turn = "size"
    BY <1>4 DEF ChooseSize
  <2>2. FrameTypes' /\ turn' = "bands" /\ Banding'
    BY <1>0, <1>4, <2>1, SizeGoesOn DEF FrameInv
  <2> QED
    BY <2>2 DEF FrameInv
<1>5. CASE EncodeBands
  <2>1. turn = "bands"
    BY <1>5 DEF EncodeBands
  <2>2. FrameTypes' /\ turn' = "air" /\ Airing'
    BY <1>0, <1>5, <2>1, BandsGoOn DEF FrameInv
  <2> QED
    BY <2>2 DEF FrameInv
<1>6. CASE DecodeHeader
  <2>1. turn = "air"
    BY <1>6 DEF DecodeHeader
  <2>2. FrameTypes' /\ turn' = "uncoarse" /\ Uncoarse'
    BY <1>0, <1>6, <2>1, HeaderHeardGoes DEF FrameInv
  <2> QED
    BY <2>2 DEF FrameInv
<1>7. CASE DecodeCoarse
  <2>1. turn = "uncoarse"
    BY <1>7 DEF DecodeCoarse
  <2>2. FrameTypes' /\ turn' = "unchoices" /\ Unchoosing'
    BY <1>0, <1>7, <2>1, CoarseHeardGoes DEF FrameInv
  <2> QED
    BY <2>2 DEF FrameInv
<1>8. CASE DecodeChoices
  <2>1. turn = "unchoices"
    BY <1>8 DEF DecodeChoices
  <2>2. FrameTypes' /\ turn' = "unbands" /\ Unbanding'
    BY <1>0, <1>8, <2>1, ChoicesHeardGo DEF FrameInv
  <2> QED
    BY <2>2 DEF FrameInv
<1>9. CASE DecodeBands
  <2>1. turn = "unbands"
    BY <1>9 DEF DecodeBands
  <2>2. FrameTypes' /\ turn' = "heard" /\ AtHeard'
    BY <1>0, <1>9, <2>1, BandsHeardGo DEF FrameInv
  <2> QED
    BY <2>2 DEF FrameInv
<1>10. CASE Lose
  <2>1. turn = "air"
    BY <1>10 DEF Lose
  <2>2. FrameTypes' /\ turn' = "heard" /\ AtHeard'
    BY <1>0, <1>10, <2>1, LossGoes
  <2> QED
    BY <2>2 DEF FrameInv
<1>11. CASE Ready
  <2>1. turn = "heard"
    BY <1>11 DEF Ready
  <2>2. FrameTypes' /\ turn' = "record" /\ Between'
    BY <1>0, <1>11, <2>1, ReadyGoes DEF FrameInv
  <2> QED
    BY <2>2 DEF FrameInv
<1> QED
  BY <1>1, <1>2, <1>3, <1>4, <1>5, <1>6, <1>7, <1>8, <1>9, <1>10, <1>11 DEF CeltFrameNext

(* What the invariant says of the coder.                                    *)
LEMMA InvMirrors ==
  ASSUME FrameInv
  PROVE  SymbolsMirror
<1>1. turn \in TURNS
  BY DEF FrameInv, FrameTypes
<1>2. CASE turn = "record"
  BY <1>2 DEF FrameInv, Between, SymbolsMirror
<1>3. CASE turn = "coarse"
  <2>1. PICK f, h : AtCoarse(f, h)
    BY <1>3 DEF FrameInv, Coarse
  <2>2. rcod.ok
    BY <2>1, HeadCodes DEF AtCoarse
  <2> QED
    BY <1>3, <2>2 DEF SymbolsMirror
<1>4. CASE turn = "choices"
  <2>1. PICK f, h : AtChoices(f, h)
    BY <1>4 DEF FrameInv, Deciding
  <2>2. rcod.ok
    BY <2>1, LevCodes DEF AtChoices
  <2> QED
    BY <1>4, <2>2 DEF SymbolsMirror
<1>5. CASE turn = "size"
  <2>1. PICK f, h : AtSize(f, h)
    BY <1>5 DEF FrameInv, Sizing
  <2>2. rcod.ok
    BY <2>1, ToldCodes DEF AtSize
  <2> QED
    BY <1>5, <2>2 DEF SymbolsMirror
<1>6. CASE turn = "bands"
  <2>1. PICK f, h : AtBands(f, h)
    BY <1>6 DEF FrameInv, Banding
  <2>2. rcod.ok
    BY <2>1, CutCodes DEF AtBands
  <2> QED
    BY <1>6, <2>2 DEF SymbolsMirror
<1>7. CASE turn = "air"
  <2>1. PICK f, h : AtAir(f, h)
    BY <1>7 DEF FrameInv, Airing
  <2>2. rcod.ok /\ TellBits(rcod) <= TotalBits(rcod)
    BY <2>1, WholeCodes DEF AtAir
  <2> QED
    BY <1>7, <2>2 DEF SymbolsMirror
<1>8. CASE turn = "uncoarse"
  <2>1. PICK f, h : AtUncoarse(f, h)
    BY <1>8 DEF FrameInv, Uncoarse
  <2>2. rcod.ok
    BY <2>1 DEF AtUncoarse, Follows
  <2> QED
    BY <1>8, <2>2 DEF SymbolsMirror
<1>9. CASE turn = "unchoices"
  <2>1. PICK f, h : AtUnchoices(f, h)
    BY <1>9 DEF FrameInv, Unchoosing
  <2>2. rcod.ok
    BY <2>1 DEF AtUnchoices, Follows
  <2> QED
    BY <1>9, <2>2 DEF SymbolsMirror
<1>10. CASE turn = "unbands"
  <2>1. PICK f, h : AtUnbands(f, h)
    BY <1>10 DEF FrameInv, Unbanding
  <2>2. rcod.ok
    BY <2>1 DEF AtUnbands, Follows
  <2> QED
    BY <1>10, <2>2 DEF SymbolsMirror
<1>11. CASE turn = "heard"
  BY <1>11 DEF FrameInv, AtHeard, Between, SymbolsMirror
<1> QED
  BY <1>1, <1>2, <1>3, <1>4, <1>5, <1>6, <1>7, <1>8, <1>9, <1>10, <1>11 DEF TURNS

(* What the invariant says of the energies.                                 *)
LEMMA InvInStep ==
  ASSUME FrameInv
  PROVE  EnergyInStep
<1> SUFFICES ASSUME turn = "heard", ~pairing.apart, ~pairing.hushed PROVE SameEnergies
  BY DEF EnergyInStep
<1>1. Tied(encst.e)
  BY DEF FrameInv, AtHeard, Between
<1> QED
  BY <1>1 DEF Tied, SameEnergies

(* What the invariant says of the size chosen.                              *)
LEMMA SizeSparing ==
  ASSUME FrameInv, ChooseSize
  PROVE  rcod'.bytes = rcod.bytes \/ rcod.frac + work.boosted + 128 <= 64 * rcod'.bytes
<1>1. turn = "size" /\ FrameTypes /\ Sizing
  BY DEF FrameInv, ChooseSize
<1>2. PICK f, h : f = Sound /\ AtSize(f, h)
  BY <1>1 DEF Sizing
<1>3. Fair2(f, h) /\ rcod = Told(f, h) /\ work.boosted = Picked(f, h).total
  BY <1>2 DEF AtSize
<1>4. PICK n : /\ n \in Nat /\ n <= Told(f, h).bytes
               /\ Afford(Told(f, h).frac, Picked(f, h).total, Told(f, h).bytes, n)
               /\ rcod' = [Told(f, h) EXCEPT !.bytes = n]
               /\ EncKept(encst') /\ encst'.e = encst.e /\ encst'.pitch = encst.pitch
  BY <1>1, <1>2, SizeTaken
<1>5. rcod'.bytes = n
  BY <1>3, <1>4, ToldCodes, Resized
<1> QED
  BY <1>3, <1>4, <1>5 DEF Afford

-----------------------------------------------------------------------------
(* Every symbol the decoder asks for is the one written, and all of them    *)
(* fit, although the frame's size is chosen with half of it coded.          *)
THEOREM SymbolsMirrorProved == CeltFrameSpec => []SymbolsMirror
<1>1. CeltFrameInit => FrameInv
  <2> SUFFICES ASSUME CeltFrameInit PROVE FrameInv
    OBVIOUS
  <2>1. FrameTypes /\ turn = "record" /\ Between
    BY NewAlike
  <2> QED
    BY <2>1 DEF FrameInv
<1>2. FrameInv /\ [CeltFrameNext]_cvars => FrameInv'
  BY InvStep, InvRests
<1>3. FrameInv => SymbolsMirror
  BY InvMirrors
<1> QED
  BY <1>1, <1>2, <1>3, PTL DEF CeltFrameSpec

(* A frame of variable rate is never shrunk below what is coded of it, the  *)
(* boosts promised included, and two bytes of margin.                       *)
THEOREM SizeSparesProved == CeltFrameSpec => SizeSpares
<1>1. CeltFrameInit => FrameInv
  <2> SUFFICES ASSUME CeltFrameInit PROVE FrameInv
    OBVIOUS
  <2>1. FrameTypes /\ turn = "record" /\ Between
    BY NewAlike
  <2> QED
    BY <2>1 DEF FrameInv
<1>2. FrameInv /\ [CeltFrameNext]_cvars => FrameInv'
  BY InvStep, InvRests
<1>3. FrameInv => [ChooseSize => rcod'.bytes = rcod.bytes \/ rcod.frac + work.boosted + 128 <= 64 * rcod'.bytes]_cvars
  BY SizeSparing
<1> QED
  BY <1>1, <1>2, <1>3, PTL DEF CeltFrameSpec, SizeSpares

(* Both ends predict from the same energies, unless a frame was lost, was   *)
(* silent or strayed since the last one coded without prediction, or in it. *)
THEOREM EnergyInStepProved == CeltFrameSpec => []EnergyInStep
<1>1. CeltFrameInit => FrameInv
  <2> SUFFICES ASSUME CeltFrameInit PROVE FrameInv
    OBVIOUS
  <2>1. FrameTypes /\ turn = "record" /\ Between
    BY NewAlike
  <2> QED
    BY <2>1 DEF FrameInv
<1>2. FrameInv /\ [CeltFrameNext]_cvars => FrameInv'
  BY InvStep, InvRests
<1>3. FrameInv => EnergyInStep
  BY InvInStep
<1> QED
  BY <1>1, <1>2, <1>3, PTL DEF CeltFrameSpec

-----------------------------------------------------------------------------
(* What a decoded frame leaves at the decoder.                              *)
BandsHeld(f, h, pd, e1) ==
    /\ f = Sound /\ AtUnbands(f, h) /\ SameBands(Par(f, h), pd) /\ BandParams(Par(f, h)) /\ PitchShape(work.pitch)
    /\ pd.start = f.start /\ pd.lm = f.lm /\ pd.lm \in 0..3 /\ pd.end \in 1..NbBands
    /\ tape' = tape /\ spool' = spool /\ turn' = "heard" /\ encst' = encst
    /\ e1 \in Energies /\ DecHolds(pd, e1, work.pitch, decst')
    /\ pairing'.heard = HeardUnits(pd.lm, work.pitch) /\ pairing'.streak = (IF Untold THEN 0 ELSE MinOf(3, pairing.streak + 1))
    /\ pairing'.applied = pairing.applied /\ pairing'.before = pairing.before

(* DecodeBands keeps energies under which the background lies.              *)
LEMMA BandsHeardHold ==
  ASSUME FrameTypes, Unbanding, DecodeBands
  PROVE  \E f, h, pd, e1 : BandsHeld(f, h, pd, e1)
<1>1. PICK f, h : f = Sound /\ AtUnbands(f, h)
  BY DEF Unbanding
<1>2. /\ Fair3(f, h) /\ Sent(f, h) /\ DecKnows(f, h) /\ SameChoices(Decided(f, h), work)
      /\ Follows(rcod, Told(f, h), Symbols(f, h)) /\ rcod.bytes = h.n
      /\ Abreast(h) /\ ~pairing.strayed => Same(Par(f, h), Lev(f, h).e, decst.e)
  BY <1>1 DEF AtUnbands
<1>3. BandsReadBy(rcod, work.p, work, decst.e)
  BY BandsReadDone
<1>4. SameBands(Par(f, h), work.p) /\ PitchShape(work.pitch) /\ DecKept(decst) /\ decst.e \in Energies
  BY <1>2 DEF DecKnows, FrameTypes, DecKept
<1>5. PICK d, pd, w, e, q, was : d = rcod /\ pd = work.p /\ w = work /\ e = decst.e /\ q = BandsRead(d, pd, w, e) /\ was = pairing
  OBVIOUS
<1>6. WholeAsks(f, h, d, pd, w, e)
  BY <1>2, <1>4, <1>5 DEF WholeAsks
<1>7. WholeKnown(f, h, d, pd, w, e)
  BY <1>6, WholeIsKnown
<1>8. q.e \in Energies
  BY <1>5, <1>7 DEF WholeKnown, UnfineState
<1>9. PICK e1, units, streak, apart, hushed :
        /\ e1 = Final(q.e, w.silent) /\ units = HeardUnits(pd.lm, w.pitch) /\ streak = (IF Untold THEN 0 ELSE MinOf(3, was.streak + 1))
        /\ apart = (was.apart /\ ~pd.intra) /\ hushed = ((was.hushed /\ ~pd.intra) \/ w.silent \/ was.strayed)
  OBVIOUS
<1>10. /\ tape' = tape /\ spool' = spool /\ turn' = "heard" /\ encst' = encst
       /\ DecToKept(pd, e1, w.transient, w.pitch, decst') /\ PairRead(was, units, streak, apart, hushed, pairing')
  BY <1>3, <1>5, <1>9 DEF BandsReadBy
<1>11. /\ pairing'.heard = units /\ pairing'.streak = streak /\ pairing'.applied = was.applied /\ pairing'.before = was.before
  <2> DEFINE z == pairing'
  <2>1. PairShape(was) /\ PairRead(was, units, streak, apart, hushed, z)
    BY <1>5, <1>10 DEF FrameTypes
  <2> HIDE DEF z
  <2>2. /\ PairShape(z) /\ z.heard = units /\ z.streak = streak /\ z.apart = apart /\ z.hushed = hushed
        /\ z.applied = was.applied /\ z.before = was.before
    BY <2>1, PairHeard
  <2> QED
    BY <2>2 DEF z
<1>12. /\ BandParams(Par(f, h)) /\ Par(f, h).lm = f.lm /\ Par(f, h).start = f.start
       /\ Par(f, h).lm \in 0..3 /\ Par(f, h).end \in 1..NbBands
  BY <1>2, ParIs DEF Fair3, BandParams
<1>13. pd.start = f.start /\ pd.lm = f.lm /\ pd.lm \in 0..3 /\ pd.end \in 1..NbBands
  BY <1>4, <1>5, <1>12 DEF SameBands
<1>14. e1 \in Energies /\ DecHolds(pd, e1, w.pitch, decst')
  <2> DEFINE z == decst'
             t == w.transient
             new == w.pitch
  <2>1. e1 \in Energies
    BY <1>8, <1>9, FinalKept
  <2>2. DecToKept(pd, e1, t, new, z) /\ PitchShape(new)
    BY <1>4, <1>5, <1>10
  <2> HIDE DEF z, t, new
  <2>3. DecHolds(pd, e1, new, z)
    BY <1>4, <1>13, <2>1, <2>2, DecFrame
  <2> QED
    BY <2>1, <2>3 DEF z, new
<1>15. BandsHeld(f, h, pd, e1)
  BY <1>1, <1>4, <1>5, <1>9, <1>10, <1>11, <1>12, <1>13, <1>14 DEF BandsHeld
<1> QED
  BY <1>15

-----------------------------------------------------------------------------
(* Between frames the background lies under every band that concealment     *)
(* may lower to it.                                                         *)
Under(start, d) ==
    /\ d.last_end \in 1..NbBands
    /\ \A c \in 1..2, j \in 1..NbBands : j - 1 \in start..(d.last_end - 1) => d.background[c][j] <= d.e[c][j]
Fading == turn \in {"uncoarse", "unchoices", "unbands"} \/ Under(tape.sounds[1].start, decst)
FadeInv == FrameInv /\ Fading

(* After a frame decoded the background lies under what is kept.            *)
LEMMA BandsLieUnder ==
  ASSUME FrameTypes, Unbanding, DecodeBands
  PROVE  Under(tape.sounds[1].start, decst')
<1>1. PICK f, h, pd, e1 : BandsHeld(f, h, pd, e1)
  BY BandsHeardHold
<1>2. /\ f = Sound /\ AtUnbands(f, h) /\ pd.start = f.start /\ pd.lm \in 0..3 /\ pd.end \in 1..NbBands
      /\ e1 \in Energies /\ DecHolds(pd, e1, work.pitch, decst')
  BY <1>1 DEF BandsHeld
<1>3. PICK z, start : z = decst' /\ start = tape.sounds[1].start
  OBVIOUS
<1>4. f.start = start /\ start \in 0..20
  <2>1. tape \in Clips /\ spool \in 1..Len(tape.sounds)
    <3>1. tape \in Clips /\ spool \in 0..Len(tape.sounds) /\ turn = "unbands"
      BY DEF FrameTypes, DecodeBands
    <3>2. Len(tape.sounds) \in Nat /\ spool >= 1
      BY <3>1, ClipsAssumption DEF FrameTypes
    <3> QED
      BY <3>1, <3>2
  <2>2. /\ Framed(tape.sounds[spool]) /\ tape.sounds[spool].pitch \in Pitches
        /\ tape.sounds[spool].start = tape.sounds[1].start
    BY <2>1, SoundsFramed
  <2> QED
    BY <1>2, <1>3, <2>2 DEF Sound, Framed, Asking
<1>5. z.e = Coded(pd, e1, 0) /\ z.background = Background(e1, pd.lm) /\ z.last_end = pd.end
  BY <1>2, <1>3 DEF DecHolds
<1>6. \A c \in 1..2, j \in 1..NbBands : Background(e1, pd.lm)[c][j] <= e1[c][j]
  <2>1. DecKept(decst)
    BY DEF FrameTypes
  <2> QED
    BY <1>2, <2>1, BackgroundKept
<1>7. ASSUME NEW c \in 1..2, NEW j \in 1..NbBands, j - 1 \in start..(z.last_end - 1)
      PROVE  z.background[c][j] <= z.e[c][j]
  <2>1. j - 1 \in pd.start..(pd.end - 1)
    BY <1>2, <1>4, <1>5, <1>7
  <2>2. Coded(pd, e1, 0)[c][j] = e1[c][j]
    BY <2>1 DEF Coded
  <2> QED
    BY <1>5, <1>6, <2>2
<1>8. Under(start, z)
  BY <1>2, <1>5, <1>7 DEF Under
<1> QED
  BY <1>3, <1>8

(* A loss lowers energies towards a background that lies under them, so     *)
(* none rises.                                                              *)
LEMMA LossFades ==
  ASSUME FrameTypes, turn = "air", Under(tape.sounds[1].start, decst), Lose
  PROVE  /\ Under(tape.sounds[1].start, decst')
         /\ \A c \in 1..2, j \in 1..NbBands : decst'.e[c][j] <= decst.e[c][j]
<1>1. PICK f, z, start : f = Sound /\ z = decst' /\ start = tape.sounds[1].start
  OBVIOUS
<1>2. DecToHide(f, z) /\ DecKept(decst)
  BY <1>1 DEF Lose, DecToHide, FrameTypes
<1>3. f.lm \in 0..3 /\ f.start = start /\ start \in 0..20
  <2>1. tape \in Clips /\ spool \in 1..Len(tape.sounds)
    <3>1. tape \in Clips /\ spool \in 0..Len(tape.sounds) /\ spool >= 1
      BY DEF FrameTypes
    <3>2. Len(tape.sounds) \in Nat
      BY <3>1, ClipsAssumption
    <3> QED
      BY <3>1, <3>2
  <2>2. /\ Framed(tape.sounds[spool]) /\ tape.sounds[spool].pitch \in Pitches
        /\ tape.sounds[spool].start = tape.sounds[1].start
    BY <2>1, SoundsFramed
  <2> QED
    BY <1>1, <2>2 DEF Sound, Framed, Asking
<1>4. DecHidden(f, z)
  BY <1>2, <1>3, DecLost
<1>5. /\ DecKept(z) /\ z.e = (IF Noise(f) THEN Decayed(f) ELSE decst.e) /\ z.background = decst.background
      /\ z.last_end = decst.last_end
  BY <1>4 DEF DecHidden
<1>6. ASSUME NEW c \in 1..2, NEW j \in 1..NbBands
      PROVE  /\ j - 1 \in start..(decst.last_end - 1) => decst.background[c][j] <= z.e[c][j]
             /\ z.e[c][j] <= decst.e[c][j]
  <2> DEFINE a == decst.background[c][j]
             b == decst.e[c][j]
             g == Decayed(f)[c][j]
             n == decst.last_end
             in == j - 1 \in f.start..(MaxOf(f.start, n) - 1)
  <2>1. a \in Int /\ b \in Int
    BY <1>2, EnergyAt DEF DecKept
  <2>2. n \in 1..NbBands /\ (j - 1 \in start..(n - 1) => a <= b)
    BY <1>1 DEF Under
  <2>3. in => j - 1 \in start..(n - 1)
    <3>1. n \in Int
      BY <2>2
    <3> HIDE DEF n
    <3> QED
      BY <1>3, <3>1 DEF MaxOf
  <2>4. g = b \/ (in /\ g >= a /\ (g <= b \/ g = a))
    BY <1>2, DecayedKept
  <2>5. Decayed(f) \in Energies
    BY <1>2, DecayedKept
  <2>6. g \in Int
    BY <2>5, EnergyAt
  <2>7. z.e[c][j] = g \/ z.e[c][j] = b
    BY <1>5
  <2> HIDE DEF a, b, g, n, in
  <2>8. g <= b /\ (g = b \/ a <= g)
    BY <2>1, <2>2, <2>3, <2>4, <2>6
  <2>9. (j - 1 \in start..(n - 1) => a <= z.e[c][j]) /\ z.e[c][j] <= b
    BY <2>1, <2>2, <2>6, <2>7, <2>8
  <2> QED
    BY <2>9 DEF a, b, n
<1>7. decst.last_end \in 1..NbBands
  BY DEF Under
<1>8. Under(start, z)
  BY <1>5, <1>6, <1>7 DEF Under
<1> QED
  BY <1>1, <1>6, <1>8

(* No other step matters to it.                                             *)
LEMMA FadesStep ==
  ASSUME FadeInv, CeltFrameNext
  PROVE  FadeInv'
<1>1. FrameInv'
  BY InvStep DEF FadeInv
<1>2. FrameInv /\ FrameTypes /\ Fading
  BY DEF FadeInv, FrameInv
<1>3. Fading'
  <2>1. CASE EncodeHeader \/ EncodeCoarse \/ EncodeChoices \/ ChooseSize \/ EncodeBands \/ Ready
    <3>1. tape' = tape /\ decst' = decst /\ turn \notin {"uncoarse", "unchoices", "unbands"}
      BY <2>1 DEF EncodeHeader, EncodeCoarse, EncodeChoices, ChooseSize, EncodeBands, Ready
    <3> QED
      BY <1>2, <3>1 DEF Fading, Under
  <2>2. CASE DecodeHeader \/ DecodeCoarse \/ DecodeChoices
    <3>1. turn' \in {"uncoarse", "unchoices", "unbands"}
      BY <2>2 DEF DecodeHeader, DecodeCoarse, DecodeChoices
    <3> QED
      BY <3>1 DEF Fading
  <2>3. CASE DecodeBands
    <3>1. turn = "unbands" /\ tape' = tape
      BY <2>3 DEF DecodeBands
    <3>2. Unbanding
      BY <1>2, <3>1 DEF FrameInv
    <3>3. Under(tape.sounds[1].start, decst')
      BY <1>2, <2>3, <3>2, BandsLieUnder
    <3> QED
      BY <3>1, <3>3 DEF Fading, Under
  <2>4. CASE Lose
    <3>1. turn = "air" /\ tape' = tape
      BY <2>4 DEF Lose
    <3>2. Under(tape.sounds[1].start, decst')
      BY <1>2, <2>4, <3>1, LossFades DEF Fading
    <3> QED
      BY <3>1, <3>2 DEF Fading, Under
  <2> QED
    BY <2>1, <2>2, <2>3, <2>4 DEF CeltFrameNext
<1> QED
  BY <1>1, <1>3 DEF FadeInv

(* A stuttering step keeps the invariant.                                   *)
LEMMA FadesRest ==
  ASSUME FadeInv, UNCHANGED cvars
  PROVE  FadeInv'
<1>1. FrameInv'
  BY InvRests DEF FadeInv
<1>2. tape' = tape /\ turn' = turn /\ decst' = decst
  BY DEF cvars
<1>3. Fading'
  BY <1>2 DEF FadeInv, Fading, Under
<1> QED
  BY <1>1, <1>3 DEF FadeInv

(* A clip begins with the background at the level of the energies.          *)
LEMMA FadesFirst ==
  ASSUME CeltFrameInit
  PROVE  FadeInv
<1>1. FrameTypes /\ turn = "record" /\ Between /\ decst = NewCeltDecoder
  BY NewAlike DEF CeltFrameInit
<1>2. decst.e = Spread(0) /\ decst.background = Spread(0) /\ decst.last_end = NbBands
  BY <1>1, DecNew
<1>3. \A c \in 1..2, j \in 1..NbBands : Spread(0)[c][j] = 0
  BY DEF Spread, Flat
<1>4. NbBands \in 1..NbBands
  BY DEF NbBands
<1>5. Under(tape.sounds[1].start, decst)
  BY <1>2, <1>3, <1>4 DEF Under
<1> QED
  BY <1>1, <1>5 DEF FadeInv, Fading, FrameInv

-----------------------------------------------------------------------------
(* Concealment never makes a band louder, whatever was decoded, lost and    *)
(* recovered before.                                                        *)
THEOREM ConcealmentFadesProved == CeltFrameSpec => ConcealmentFades
<1>1. CeltFrameInit => FadeInv
  BY FadesFirst
<1>2. FadeInv /\ [CeltFrameNext]_cvars => FadeInv'
  BY FadesStep, FadesRest
<1>3. FadeInv => [Lose => \A c \in 1..2, j \in 1..NbBands : decst'.e[c][j] <= decst.e[c][j]]_cvars
  <2> SUFFICES ASSUME FadeInv, Lose
               PROVE  \A c \in 1..2, j \in 1..NbBands : decst'.e[c][j] <= decst.e[c][j]
    OBVIOUS
  <2>1. turn = "air" /\ FrameTypes
    BY DEF Lose, FadeInv, FrameInv
  <2>2. Under(tape.sounds[1].start, decst)
    BY <2>1 DEF FadeInv, Fading
  <2> QED
    BY <2>1, <2>2, LossFades
<1> QED
  BY <1>1, <1>2, <1>3, PTL DEF CeltFrameSpec, ConcealmentFades

-----------------------------------------------------------------------------
(* Crossfades in a row.                                                     *)
Crossfades(lm, a, b, c) == <<<<a, b>>>> \o IF lm = 0 THEN <<>> ELSE <<<<b, c>>>>

(* A short frame has one crossfade, a longer one two.                       *)
LEMMA CrossfadesAre ==
  ASSUME NEW lm \in 0..3, NEW a, NEW b, NEW c
  PROVE  /\ Crossfades(lm, a, b, c)[1] = <<a, b>>
         /\ lm = 0 => Len(Crossfades(lm, a, b, c)) = 1
         /\ lm # 0 => Len(Crossfades(lm, a, b, c)) = 2 /\ Crossfades(lm, a, b, c)[2] = <<b, c>>
<1> DEFINE u == <<a, b>>
           v == <<b, c>>
           s == Crossfades(lm, a, b, c)
<1>1. s = <<u>> \o IF lm = 0 THEN <<>> ELSE <<v>>
  BY DEF Crossfades
<1> HIDE DEF u, v, s
<1>2. CASE lm = 0
  <2>1. s = <<u>> \o <<>>
    BY <1>1, <1>2
  <2>2. s = <<u>>
    BY <2>1
  <2>3. s[1] = u /\ Len(s) = 1
    BY <2>2
  <2> QED
    BY <1>2, <2>3 DEF u, v, s
<1>3. CASE lm # 0
  <2>1. s = <<u>> \o <<v>>
    BY <1>1, <1>3
  <2>2. <<u>> \in Seq({u, v}) /\ <<v>> \in Seq({u, v}) /\ Len(<<u>>) = 1 /\ Len(<<v>>) = 1
    OBVIOUS
  <2>3. PICK s1, s2 : s1 = <<u>> /\ s2 = <<v>>
    OBVIOUS
  <2>4. s = s1 \o s2 /\ s1 \in Seq({u, v}) /\ s2 \in Seq({u, v}) /\ Len(s1) = 1 /\ Len(s2) = 1 /\ s1[1] = u /\ s2[1] = v
    BY <2>1, <2>2, <2>3
  <2>5. Len(s) = 2 /\ s[1] = s1[1] /\ s[2] = s2[1]
    <3>1. /\ Len(s1 \o s2) = Len(s1) + Len(s2)
          /\ \A i \in 1..(Len(s1) + Len(s2)) : (s1 \o s2)[i] = IF i <= Len(s1) THEN s1[i] ELSE s2[i - Len(s1)]
      BY <2>4, ConcatProperties
    <3>2. 1 \in 1..2 /\ 2 \in 1..2
      OBVIOUS
    <3>3. Len(s) = 2 /\ \A i \in 1..2 : s[i] = IF i <= 1 THEN s1[i] ELSE s2[i - 1]
      BY <2>4, <3>1
    <3> QED
      BY <3>2, <3>3
  <2>6. s[1] = u /\ Len(s) = 2 /\ s[2] = v
    BY <2>4, <2>5
  <2> QED
    BY <1>3, <2>6 DEF u, v, s
<1> QED
  BY <1>2, <1>3

(* The crossfades of both ends, in terms of what sounds.                    *)
LEMMA UnitsAre ==
  ASSUME NEW lm, NEW was, NEW now
  PROVE  /\ FilterUnits(lm, was, now) = Crossfades(lm, Sounding(was), Sounding(now), Sounding(now))
         /\ HeardUnits(lm, now) = Crossfades(lm, Sounding(decst.pitch_old), Sounding(decst.pitch), Sounding(now))
BY DEF FilterUnits, HeardUnits, Crossfades

-----------------------------------------------------------------------------
(* What the ends recall: done are the crossfades of the frame before, e the *)
(* filter it ended in, b the decoder's, after a; the last st of the n       *)
(* frames so far went undisturbed.                                          *)
Recall(st, n, done, e, a, b) ==
    /\ st \in 0..3 /\ n \in Nat
    /\ st >= 1 \/ n = 0 => b = e
    /\ (st >= 2 \/ st = n) /\ done # <<>> => done[Len(done)] = <<a, b>>
Filtering(applied, lm, e, e1) == applied # <<>> => applied = Crossfades(lm, e, e1, e1)

(* A frame is heard: it is taken back in step, and recalled.                *)
PairReady(st, n, before, applied, lm, e, e1, a, b, w, st1, untold) ==
    /\ Recall(st, n, before, e, a, b) /\ Filtering(applied, lm, e, e1) /\ lm \in 0..3
    /\ untold \in BOOLEAN /\ st1 = (IF untold THEN 0 ELSE MinOf(3, st + 1)) /\ (untold \/ w = e1)
PairDone(n, before, applied, lm, e1, a, b, w, st1) ==
    /\ Recall(st1, n + 1, applied, e1, IF lm > 0 THEN w ELSE b, w)
    /\ applied # <<>> /\ (st1 = 3 \/ st1 = n + 1) =>
         /\ before # <<>> => Crossfades(lm, a, b, w)[1] = before[Len(before)]
         /\ Len(Crossfades(lm, a, b, w)) = 2 => Crossfades(lm, a, b, w)[2] = applied[1]

(* The arithmetic of the pairing: a frame coded and heard on filters that   *)
(* were paired leaves them paired.                                          *)
LEMMA PairSteps ==
  ASSUME NEW st, NEW n, NEW before, NEW applied, NEW lm, NEW e, NEW e1, NEW a, NEW b, NEW w, NEW st1, NEW untold,
         PairReady(st, n, before, applied, lm, e, e1, a, b, w, st1, untold)
  PROVE  PairDone(n, before, applied, lm, e1, a, b, w, st1)
<1>1. /\ st \in 0..3 /\ n \in Nat /\ (st >= 1 \/ n = 0 => b = e)
      /\ (st >= 2 \/ st = n) /\ before # <<>> => before[Len(before)] = <<a, b>>
      /\ applied # <<>> => applied = Crossfades(lm, e, e1, e1)
      /\ lm \in 0..3 /\ untold \in BOOLEAN /\ st1 = (IF untold THEN 0 ELSE MinOf(3, st + 1)) /\ (untold \/ w = e1)
  BY DEF PairReady, Recall, Filtering
<1>2. /\ st1 \in 0..3 /\ (st1 >= 1 \/ n + 1 = 0 => ~untold) /\ (st1 >= 2 \/ st1 = n + 1 => ~untold /\ (st >= 1 \/ n = 0))
      /\ (st1 = 3 \/ st1 = n + 1 => ~untold /\ (st >= 2 \/ st = n))
  BY <1>1 DEF MinOf
<1> DEFINE a1 == IF lm > 0 THEN w ELSE b
           s == Crossfades(lm, a, b, w)
           last == applied[Len(applied)]
<1>3. (st1 >= 2 \/ st1 = n + 1) /\ applied # <<>> => last = <<a1, w>>
  <2> SUFFICES ASSUME st1 >= 2 \/ st1 = n + 1, applied # <<>> PROVE last = <<a1, w>>
    OBVIOUS
  <2>1. b = e /\ w = e1 /\ applied = Crossfades(lm, e, e1, e1)
    BY <1>1, <1>2
  <2>2. CASE lm = 0
    <3>1. applied[1] = <<e, e1>> /\ Len(applied) = 1
      BY <2>1, <2>2, <1>1, CrossfadesAre
    <3>2. a1 = e
      BY <2>1, <2>2
    <3> QED
      BY <2>1, <3>1, <3>2
  <2>3. CASE lm # 0
    <3>1. Len(applied) = 2 /\ applied[2] = <<e1, e1>>
      BY <2>1, <2>3, <1>1, CrossfadesAre
    <3>2. a1 = e1
      BY <1>1, <2>1, <2>3
    <3> QED
      BY <2>1, <3>1, <3>2
  <2> QED
    BY <2>2, <2>3
<1>4. Recall(st1, n + 1, applied, e1, a1, w)
  <2>1. n + 1 \in Nat /\ st1 \in 0..3 /\ (st1 >= 1 \/ n + 1 = 0 => w = e1)
    BY <1>1, <1>2
  <2> QED
    BY <1>3, <2>1 DEF Recall
<1>5. ASSUME applied # <<>>, st1 = 3 \/ st1 = n + 1
      PROVE  /\ before # <<>> => s[1] = before[Len(before)]
             /\ Len(s) = 2 => s[2] = applied[1]
  <2>1. w = e1 /\ b = e /\ applied = Crossfades(lm, e, e1, e1) /\ (before # <<>> => before[Len(before)] = <<a, b>>)
    <3>1. st >= 1 \/ n = 0
      BY <1>1, <1>2, <1>5
    <3> QED
      BY <1>1, <1>2, <1>5, <3>1
  <2>2. s[1] = <<a, b>> /\ applied[1] = <<e, e1>> /\ (lm = 0 => Len(s) = 1) /\ (lm # 0 => s[2] = <<b, w>>)
    BY <1>1, <2>1, CrossfadesAre
  <2>3. Len(s) = 2 => s[2] = <<b, w>>
    BY <2>2
  <2> QED
    BY <2>1, <2>2, <2>3
<1> QED
  BY <1>4, <1>5 DEF PairDone

-----------------------------------------------------------------------------
(* What both ends recall, turn by turn.                                     *)
RecallNow(n, done, e) ==
    Recall(pairing.streak, n, done, Sounding(e), Sounding(decst.pitch_old), Sounding(decst.pitch))
FilteringNow(f, was, now) == Filtering(pairing.applied, f.lm, Sounding(was), Sounding(now))

AtRest == RecallNow(spool, pairing.applied, encst.pitch)
AtCoding == RecallNow(spool - 1, pairing.before, encst.pitch) /\ FilteringNow(Sound, encst.pitch, work.pitch)
AtHearing == \E was : RecallNow(spool - 1, pairing.before, was) /\ FilteringNow(Sound, was, encst.pitch)

REST == {"record", "heard"}
CODING == {"coarse", "choices", "size", "bands"}
HEARING == {"air", "uncoarse", "unchoices", "unbands"}
Paired ==
    /\ tape.sounds[1].start # 0 => pairing.applied = <<>>
    /\ tape.sounds[1].start = 0 =>
         /\ turn \in REST => AtRest
         /\ turn \in CODING => AtCoding
         /\ turn \in HEARING => AtHearing
    /\ turn = "heard" => PitchFiltersPaired
PairInv == FrameInv /\ Paired

(* A frame in hand is one of the clip's.                                    *)
LEMMA NowSounds ==
  ASSUME FrameTypes, turn # "record"
  PROVE  /\ spool >= 1 /\ spool \in Nat /\ Framed(Sound) /\ Sound.start = tape.sounds[1].start /\ Sound.lm \in 0..3
<1>1. tape \in Clips /\ spool \in 1..Len(tape.sounds)
  <2>1. tape \in Clips /\ spool \in 0..Len(tape.sounds) /\ spool >= 1
    BY DEF FrameTypes
  <2>2. Len(tape.sounds) \in Nat
    BY <2>1, ClipsAssumption
  <2> QED
    BY <2>1, <2>2
<1>2. /\ Framed(tape.sounds[spool]) /\ tape.sounds[spool].pitch \in Pitches
      /\ tape.sounds[spool].start = tape.sounds[1].start
  BY <1>1, SoundsFramed
<1>3. Len(tape.sounds) \in Nat
  BY <1>1, ClipsAssumption
<1> QED
  BY <1>1, <1>2, <1>3 DEF Sound, Framed, Asking

(* A header: this frame is filtered.                                        *)
LEMMA PairsHeader ==
  ASSUME FrameTypes, Paired, EncodeHeader
  PROVE  Paired'
<1>0. PICK f, pitch : f = tape.sounds[spool + 1] /\ pitch = Filtered(f, Plain(f))
  OBVIOUS
<1>1. HeaderDone(f, pitch)
  BY <1>0, HeaderStep
<1>2. spool + 1 \in 1..Len(tape.sounds) /\ Len(tape.sounds) \in Nat /\ spool \in Nat /\ turn = "record"
  <2>1. spool < Len(tape.sounds) /\ tape \in Clips /\ spool \in 0..Len(tape.sounds)
    BY DEF EncodeHeader, FrameTypes
  <2>2. Len(tape.sounds) \in Nat
    BY <2>1, ClipsAssumption
  <2> QED
    BY <2>1, <2>2 DEF EncodeHeader
<1>3. Framed(f) /\ f.start = tape.sounds[1].start /\ f.lm \in 0..3
  <2>1. tape \in Clips
    BY DEF FrameTypes
  <2>2. /\ Framed(tape.sounds[spool + 1]) /\ tape.sounds[spool + 1].pitch \in Pitches
        /\ tape.sounds[spool + 1].start = tape.sounds[1].start
    BY <1>2, <2>1, SoundsFramed
  <2> QED
    BY <1>0, <2>2 DEF Framed, Asking
<1>4. PICK applied : applied = IF Filters(f, Plain(f)) THEN FilterUnits(f.lm, encst.pitch, pitch) ELSE <<>>
  OBVIOUS
<1>5. /\ tape' = tape /\ spool' = spool + 1 /\ turn' = "coarse" /\ encst' = encst /\ decst' = decst
      /\ PairMade(pairing, applied, pairing.applied, pairing')
  BY <1>1, <1>4 DEF HeaderDone
<1>6. pairing'.streak = pairing.streak /\ pairing'.applied = applied /\ pairing'.before = pairing.applied
  <2> DEFINE z == pairing'
             q == pairing
             b == pairing.applied
  <2>1. PairShape(q) /\ PairMade(q, applied, b, z)
    BY <1>5 DEF FrameTypes
  <2> HIDE DEF z, q, b
  <2>2. /\ PairShape(z) /\ z.apart = q.apart /\ z.hushed = q.hushed /\ z.streak = q.streak /\ z.heard = q.heard
        /\ z.applied = applied /\ z.before = b
    BY <2>1, PairCoded
  <2> QED
    BY <2>2 DEF z, q, b
<1>7. work'.pitch = pitch
  <2> DEFINE w == work'
             a == WasSilent(f)
             b == CodedTransient(f, pitch)
  <2>1. w = [NoFrame EXCEPT !.silent = a, !.pitch = pitch, !.transient = b] /\ WorkShape(NoFrame)
    BY <1>1, NothingKnown DEF HeaderDone
  <2> HIDE DEF w, a, b
  <2>2. PICK z : z = NoFrame
    OBVIOUS
  <2>3. WorkShape(z) /\ Heading(z, a, pitch, b, w)
    BY <2>1, <2>2 DEF Heading
  <2>4. WorkShape(w) /\ w.silent = a /\ w.pitch = pitch /\ w.transient = b
    BY <2>3, HeaderKnows
  <2> QED
    BY <2>4 DEF w
<1>8. ASSUME tape.sounds[1].start # 0 PROVE pairing'.applied = <<>>
  BY <1>3, <1>4, <1>6, <1>8 DEF Filters
<1>9. ASSUME tape.sounds[1].start = 0 PROVE AtCoding'
  <2>1. AtRest
    BY <1>2, <1>9 DEF Paired, REST
  <2>2. spool' - 1 = spool
    BY <1>2, <1>5
  <2>4. RecallNow(spool - 1, pairing.before, encst.pitch)'
    BY <1>5, <1>6, <2>1, <2>2 DEF AtRest, RecallNow
  <2>5. Sound' = f
    BY <1>0, <1>5 DEF Sound
  <2>6. applied # <<>> => applied = Crossfades(f.lm, Sounding(encst.pitch), Sounding(pitch), Sounding(pitch))
    BY <1>4, UnitsAre
  <2>7. FilteringNow(Sound, encst.pitch, work.pitch)'
    BY <1>5, <1>6, <1>7, <2>5, <2>6 DEF FilteringNow, Filtering
  <2> QED
    BY <2>4, <2>7 DEF AtCoding
<1> QED
  BY <1>5, <1>6, <1>8, <1>9 DEF Paired, REST, CODING, HEARING

(* The encoder's stages leave the filters alone.                            *)
SameFilters ==
    /\ pairing'.before = pairing.before /\ pairing'.applied = pairing.applied
    /\ pairing'.heard = pairing.heard /\ pairing'.streak = pairing.streak
FiltersStay ==
    /\ tape' = tape /\ spool' = spool /\ SameFilters /\ decst' = decst
    /\ encst'.pitch = encst.pitch /\ work'.pitch = work.pitch

(* A step of the encoder that leaves the filters alone keeps them paired.   *)
LEMMA PairsStay ==
  ASSUME Paired, FiltersStay, turn \in CODING, turn' \in CODING
  PROVE  Paired'
<1>1. /\ tape' = tape /\ spool' = spool /\ SameFilters /\ decst' = decst
      /\ encst'.pitch = encst.pitch /\ work'.pitch = work.pitch
  BY DEF FiltersStay
<1>2. turn' \notin REST /\ turn' \notin HEARING /\ turn' # "heard"
  BY DEF CODING, REST, HEARING
<1>3. Sound' = Sound
  BY <1>1 DEF Sound
<1>4. AtCoding => AtCoding'
  BY <1>1, <1>3 DEF AtCoding, RecallNow, FilteringNow, SameFilters
<1> QED
  BY <1>1, <1>2, <1>4 DEF Paired, SameFilters

(* EncodeCoarse leaves the filters alone.                                   *)
LEMMA PairsCoarse ==
  ASSUME FrameTypes, Coarse, Paired, EncodeCoarse
  PROVE  Paired'
<1>1. work.transient \in BOOLEAN
  <2>1. PICK f, h : f = Sound /\ AtCoarse(f, h)
    BY DEF Coarse
  <2>2. Framed(f) /\ work.transient = Short(f, h)
    BY <2>1 DEF AtCoarse, Fair1
  <2> QED
    BY <2>2 DEF Framed, Short, CodedTransient
<1>2. PICK i, q : CoarseDoneBy(i, q)
  BY <1>1, CoarseStepDone
<1>3. PICK v, s, p : v = q.delayed /\ s = [e |-> q.s.e, error |-> q.s.error] /\ p = Params(Sound, i, rcod)
  OBVIOUS
<1>4. /\ tape' = tape /\ spool' = spool /\ turn' = "choices" /\ decst' = decst
      /\ PairStrayed(pairing, LastBitFirst(i), pairing')
      /\ encst' = [encst EXCEPT !.delayed = v] /\ Coarsening(work, s, p, work')
  BY <1>2, <1>3 DEF CoarseDoneBy
<1>5. encst'.pitch = encst.pitch
  <2> DEFINE z == encst'
             y == encst
  <2>1. EncKept(y) /\ z = [y EXCEPT !.delayed = v]
    BY <1>4 DEF FrameTypes
  <2> HIDE DEF z, y
  <2>2. EncKept(z) /\ z.e = y.e /\ z.pitch = y.pitch
    BY <2>1, EncDelayed
  <2> QED
    BY <2>2 DEF z, y
<1>6. work'.pitch = work.pitch
  <2> DEFINE z == work'
             y == work
  <2>1. WorkShape(y) /\ Coarsening(y, s, p, z)
    BY <1>4 DEF FrameTypes
  <2> HIDE DEF z, y
  <2>2. WorkShape(z) /\ z.s = s /\ z.p = p /\ z.silent = y.silent /\ z.pitch = y.pitch /\ z.transient = y.transient
    BY <2>1, CoarseKnows
  <2> QED
    BY <2>2 DEF z, y
<1>7. turn \in CODING /\ turn' \in CODING
  BY <1>4 DEF EncodeCoarse, CODING
<1>8. SameFilters
  <2> DEFINE z == pairing'
             b == LastBitFirst(i)
             y == pairing
  <2>1. PairShape(y) /\ PairStrayed(y, b, z)
    BY <1>4 DEF FrameTypes
  <2> HIDE DEF z, b, y
  <2>2. z.before = y.before /\ z.applied = y.applied /\ z.heard = y.heard /\ z.streak = y.streak
    BY <2>1, PairAstray
  <2> QED
    BY <2>2 DEF SameFilters, z, y
<1> QED
  BY <1>4, <1>5, <1>6, <1>7, <1>8, PairsStay DEF FiltersStay, SameFilters

(* The choices leave the pitch alone.                                       *)
LEMMA ChosenPitch ==
  ASSUME NEW y, WorkShape(y), NEW a, NEW b, NEW c, NEW d, NEW e, NEW z, Choosing(y, a, b, c, d, e, z)
  PROVE  z.pitch = y.pitch
<1>1. /\ WorkShape(z) /\ z.silent = y.silent /\ z.pitch = y.pitch /\ z.transient = y.transient /\ z.p = y.p /\ z.s = y.s
      /\ z.tf = a /\ z.spread = b /\ z.boosts = c /\ z.boosted = d /\ z.trim = e
  BY ChoicesKnow
<1> QED
  BY <1>1

(* EncodeChoices leaves the filters alone.                                  *)
LEMMA PairsChoices ==
  ASSUME FrameTypes, Paired, EncodeChoices
  PROVE  Paired'
<1>1. PICK f, x, p, t : f = Sound /\ x = rcod /\ p = work.p /\ t = work.transient
  OBVIOUS
<1>2. ChoicesDoneBy(f, x, p, t)
  BY <1>1, ChoicesStepDone
<1>3. PICK a, b, c, d, e : Choosing(work, a, b, c, d, e, work')
  BY <1>2 DEF ChoicesDoneBy
<1>4. /\ tape' = tape /\ spool' = spool /\ turn' = "size" /\ encst' = encst /\ decst' = decst /\ pairing' = pairing
  BY <1>2 DEF ChoicesDoneBy
<1>5. work'.pitch = work.pitch
  <2> DEFINE z == work'
             y == work
  <2>1. WorkShape(y) /\ Choosing(y, a, b, c, d, e, z)
    BY <1>3 DEF FrameTypes
  <2> HIDE DEF z, y
  <2>2. z.pitch = y.pitch
    BY <2>1, ChosenPitch
  <2> QED
    BY <2>2 DEF z, y
<1>6. turn \in CODING /\ turn' \in CODING
  BY <1>4 DEF EncodeChoices, CODING
<1> QED
  BY <1>4, <1>5, <1>6, PairsStay DEF FiltersStay, SameFilters

(* ChooseSize leaves the filters alone.                                     *)
LEMMA PairsSize ==
  ASSUME FrameTypes, Paired, ChooseSize
  PROVE  Paired'
<1>1. tape' = tape /\ spool' = spool /\ turn' = "bands" /\ work' = work /\ decst' = decst /\ pairing' = pairing
  BY DEF ChooseSize
<1>2. encst'.pitch = encst.pitch
  <2>1. CASE Sound.vbr = 0
    BY <2>1 DEF ChooseSize
  <2>2. CASE Sound.vbr # 0
    <3>1. PICK size : encst' = Settled(Sound, Target(Sound) + rcod.frac - Sound.vbr, size)
      BY <2>2 DEF ChooseSize
    <3>2. PICK i, j, k, l : encst' = [encst EXCEPT !.count = i, !.drift = j, !.offset = k, !.reservoir = l]
      <4> DEFINE f == Sound
                 delta == Target(f) + rcod.frac - f.vbr
                 i == MinOf(970, encst.count + 1)
                 pull == delta * Pow2(LmDiff(f)) - encst.offset - encst.drift
                 j == encst.drift + (IF i < 970 THEN Quot(pull, i + 20) ELSE Quot(pull, 1000))
                 k == -j
                 l == MaxOf(0, encst.reservoir + 64 * size - f.vbr)
      <4>1. Settled(f, delta, size) = [encst EXCEPT !.count = i, !.drift = j, !.offset = k, !.reservoir = l]
        BY DEF Settled
      <4>2. encst' = Settled(f, delta, size)
        BY <3>1
      <4> HIDE DEF f, delta, i, pull, j, k, l
      <4> QED
        BY <4>1, <4>2
    <3>3. PICK a, b, c, d, e, f, g, h :
        encst = [e |-> a, pitch |-> b, delayed |-> c, transients |-> d, reservoir |-> e, drift |-> f, offset |-> g, count |-> h]
      BY DEF FrameTypes, EncKept
    <3>4. encst' = [e |-> a, pitch |-> b, delayed |-> c, transients |-> d, reservoir |-> l, drift |-> j, offset |-> k, count |-> i]
      BY <3>2, <3>3
    <3>5. encst.pitch = b
      BY <3>3
    <3> QED
      BY <3>4, <3>5
  <2> QED
    BY <2>1, <2>2
<1>3. turn \in CODING /\ turn' \in CODING
  BY <1>1 DEF ChooseSize, CODING
<1> QED
  BY <1>1, <1>2, <1>3, PairsStay DEF FiltersStay, SameFilters

(* The encoder remembers what it filtered with.                             *)
LEMMA PairsBands ==
  ASSUME FrameTypes, Paired, EncodeBands
  PROVE  Paired'
<1>1. PICK f, x, p, w, v, n : f = Sound /\ x = rcod /\ p = work.p /\ w = work /\ v = Flagged /\ n = Transients
  OBVIOUS
<1>2. BandsDoneBy(f, x, p, w, v, n)
  BY <1>1, BandsStepDone
<1>3. PICK e1 : EncToSent(encst, e1, w.pitch, n, encst')
  BY <1>2 DEF BandsDoneBy
<1>4. /\ tape' = tape /\ spool' = spool /\ turn' = "air" /\ decst' = decst /\ pairing' = pairing /\ work' = work
  BY <1>2 DEF BandsDoneBy
<1>5. encst'.pitch = work.pitch
  <2>1. PICK a, b, c, d, e, i, g, h :
      encst = [e |-> a, pitch |-> b, delayed |-> c, transients |-> d, reservoir |-> e, drift |-> i, offset |-> g, count |-> h]
    BY DEF FrameTypes, EncKept
  <2>2. PICK q : q = w.pitch
    OBVIOUS
  <2>3. encst' = [e |-> e1, pitch |-> q, delayed |-> c, transients |-> n, reservoir |-> e, drift |-> i, offset |-> g, count |-> h]
    BY <1>3, <2>1, <2>2 DEF EncToSent
  <2> QED
    BY <1>1, <2>2, <2>3
<1>6. turn \in CODING /\ turn' \in HEARING /\ turn' \notin CODING /\ turn' \notin REST /\ turn' # "heard"
  BY <1>4 DEF EncodeBands, CODING, HEARING, REST
<1>7. ASSUME tape.sounds[1].start = 0 PROVE AtHearing'
  <2>1. AtCoding
    BY <1>6, <1>7 DEF Paired
  <2>2. PICK was : was = encst.pitch
    OBVIOUS
  <2>3. Sound' = Sound
    BY <1>4 DEF Sound
  <2>4. RecallNow(spool - 1, pairing.before, was) /\ FilteringNow(Sound, was, work.pitch)
    BY <2>1, <2>2 DEF AtCoding
  <2>5. RecallNow(spool - 1, pairing.before, was)'
    BY <1>4, <2>4 DEF RecallNow
  <2>6. FilteringNow(Sound, was, encst.pitch)'
    BY <1>4, <1>5, <2>3, <2>4 DEF FilteringNow
  <2> QED
    BY <2>5, <2>6 DEF AtHearing
<1> QED
  BY <1>4, <1>6, <1>7 DEF Paired

(* The decoder's stages before the last leave its filters alone.            *)
HearingStays ==
    /\ tape' = tape /\ spool' = spool /\ pairing' = pairing /\ encst' = encst
    /\ tape.sounds[1].start = 0 => decst'.pitch = decst.pitch /\ decst'.pitch_old = decst.pitch_old

(* A step of the decoder that leaves the filters alone keeps them paired.   *)
LEMMA PairsHear ==
  ASSUME Paired, HearingStays, turn \in HEARING, turn' \in HEARING
  PROVE  Paired'
<1>1. /\ tape' = tape /\ spool' = spool /\ pairing' = pairing /\ encst' = encst
      /\ tape.sounds[1].start = 0 => decst'.pitch = decst.pitch /\ decst'.pitch_old = decst.pitch_old
  BY DEF HearingStays
<1>2. turn' \notin REST /\ turn' \notin CODING /\ turn' # "heard"
  BY DEF CODING, REST, HEARING
<1>3. Sound' = Sound
  BY <1>1 DEF Sound
<1>4. ASSUME tape.sounds[1].start = 0 PROVE AtHearing'
  <2>1. PICK was : RecallNow(spool - 1, pairing.before, was) /\ FilteringNow(Sound, was, encst.pitch)
    BY <1>4 DEF Paired, AtHearing
  <2>2. (RecallNow(spool - 1, pairing.before, was) /\ FilteringNow(Sound, was, encst.pitch))'
    BY <1>1, <1>3, <1>4, <2>1 DEF RecallNow, FilteringNow
  <2> QED
    BY <2>2 DEF AtHearing
<1> QED
  BY <1>1, <1>2, <1>4 DEF Paired

-----------------------------------------------------------------------------
(* The header is read: only a hybrid stream forgets a filter there.         *)
LEMMA PairsHeard ==
  ASSUME FrameTypes, Airing, Paired, DecodeHeader
  PROVE  Paired'
<1>1. PICK f, B, all : f = Sound /\ B = rcod.bytes /\ all = rcod.syms
  OBVIOUS
<1>2. HeaderReadBy(f, B, all)
  BY <1>1, HeaderReadDone
<1>3. PICK k, n, e1 :
        /\ k = (decst.skip_plc /\ decst.loss_duration # 0) /\ n = (IF f.start = 0 THEN decst.pitch.g ELSE 0)
        /\ e1 = Foreseen(f, IntraRead(HeaderRead(f, B, all)))
  OBVIOUS
<1>4. /\ tape' = tape /\ spool' = spool /\ turn' = "uncoarse" /\ encst' = encst /\ pairing' = pairing
      /\ DecToHeader(decst, k, n, e1, decst')
  BY <1>2, <1>3 DEF HeaderReadBy
<1>5. turn = "air" /\ turn \in HEARING /\ turn' \in HEARING
  BY <1>4 DEF DecodeHeader, HEARING
<1>6. f.start = tape.sounds[1].start
  BY <1>1, <1>5, NowSounds
<1>7. ASSUME tape.sounds[1].start = 0
      PROVE  decst'.pitch = decst.pitch /\ decst'.pitch_old = decst.pitch_old
  <2>1. n = decst.pitch.g
    BY <1>3, <1>6, <1>7
  <2>2. PICK a, b, c, i, t, g, m, p, l1, l2, s, r, o, u :
        decst = [e |-> a, e2 |-> b, e3 |-> c, background |-> i, pitch |-> [t |-> t, g |-> g, tapset |-> m], pitch_old |-> p,
             loss_duration |-> l1, plc_duration |-> l2, skip_plc |-> s, periodic |-> r, fold |-> o, last_end |-> u]
    BY DEF FrameTypes, DecKept, DecShape, PitchShape
  <2>3. decst' = [e |-> e1, e2 |-> b, e3 |-> c, background |-> i, pitch |-> [t |-> t, g |-> n, tapset |-> m], pitch_old |-> p,
             loss_duration |-> l1, plc_duration |-> l2, skip_plc |-> k, periodic |-> r, fold |-> o, last_end |-> u]
    BY <1>4, <2>2 DEF DecToHeader
  <2>4. decst.pitch = [t |-> t, g |-> g, tapset |-> m] /\ decst.pitch_old = p
    BY <2>2
  <2>5. decst.pitch.g = g
    BY <2>4
  <2>6. decst'.pitch = [t |-> t, g |-> n, tapset |-> m] /\ decst'.pitch_old = p
    BY <2>3
  <2> QED
    BY <2>1, <2>4, <2>5, <2>6
<1> QED
  BY <1>4, <1>5, <1>7, PairsHear DEF HearingStays

(* DecodeCoarse leaves the filters alone.                                   *)
LEMMA PairsUncoarse ==
  ASSUME FrameTypes, Paired, DecodeCoarse
  PROVE  Paired'
<1>1. PICK d, pd : d = rcod /\ pd = work.p
  OBVIOUS
<1>2. CoarseReadBy(d, pd)
  BY <1>1, CoarseReadDone
<1>3. PICK e1 : e1 = unquant_coarse_energy(d, pd, decst.e).e
  OBVIOUS
<1>4. /\ tape' = tape /\ spool' = spool /\ turn' = "unchoices" /\ encst' = encst /\ pairing' = pairing
      /\ decst' = [decst EXCEPT !.e = e1]
  BY <1>2, <1>3 DEF CoarseReadBy, DecToCoarse
<1>5. decst'.pitch = decst.pitch /\ decst'.pitch_old = decst.pitch_old
  <2>1. PICK a, b, c, f, q, p, l1, l2, s, r, o, u :
        decst = [e |-> a, e2 |-> b, e3 |-> c, background |-> f, pitch |-> q, pitch_old |-> p,
             loss_duration |-> l1, plc_duration |-> l2, skip_plc |-> s, periodic |-> r, fold |-> o, last_end |-> u]
    BY DEF FrameTypes, DecKept, DecShape
  <2>2. decst' = [e |-> e1, e2 |-> b, e3 |-> c, background |-> f, pitch |-> q, pitch_old |-> p,
             loss_duration |-> l1, plc_duration |-> l2, skip_plc |-> s, periodic |-> r, fold |-> o, last_end |-> u]
    BY <1>4, <2>1
  <2>3. decst.pitch = q /\ decst.pitch_old = p
    BY <2>1
  <2> QED
    BY <2>2, <2>3
<1>6. turn \in HEARING /\ turn' \in HEARING
  BY <1>4 DEF DecodeCoarse, HEARING
<1> QED
  BY <1>4, <1>5, <1>6, PairsHear DEF HearingStays

(* DecodeChoices leaves the filters alone.                                  *)
LEMMA PairsUnchoices ==
  ASSUME Paired, DecodeChoices
  PROVE  Paired'
<1>1. /\ tape' = tape /\ spool' = spool /\ turn' = "unbands" /\ encst' = encst /\ decst' = decst /\ pairing' = pairing
  BY DEF DecodeChoices
<1>2. turn \in HEARING /\ turn' \in HEARING
  BY <1>1 DEF DecodeChoices, HEARING
<1> QED
  BY <1>1, <1>2, PairsHear DEF HearingStays

(* The frame is heard.                                                      *)
LEMMA PairsKnown ==
  ASSUME NEW f, NEW h, f = Sound, AtUnbands(f, h)
  PROVE  Untold \/ Sounding(work.pitch) = Sounding(encst.pitch)
<1>1. encst.pitch = h.pitch /\ PitchAlike(f, h.pitch, work.pitch)
  BY DEF AtUnbands, Sent, DecKnows
<1>2. CASE Untold
  BY <1>2
<1>3. CASE ~Untold
  <2>1. WasSilent(f) => h.pitch.g = 0
    BY <1>1, <1>3 DEF Untold, WasSilent
  <2> QED
    BY <1>1, <2>1 DEF PitchAlike
<1> QED
  BY <1>2, <1>3

(* DecodeBands undoes the crossfades of this frame, and of the one before.  *)
LEMMA PairsUnbands ==
  ASSUME FrameTypes, Unbanding, turn = "unbands", Paired, DecodeBands
  PROVE  Paired'
<1>1. PICK f, h, pd, x : BandsHeld(f, h, pd, x)
  BY BandsHeardHold
<1>2. /\ f = Sound /\ AtUnbands(f, h) /\ pd.start = f.start /\ pd.lm = f.lm /\ pd.lm \in 0..3
      /\ tape' = tape /\ spool' = spool /\ turn' = "heard" /\ encst' = encst
      /\ DecHolds(pd, x, work.pitch, decst')
      /\ pairing'.heard = HeardUnits(pd.lm, work.pitch)
      /\ pairing'.streak = (IF Untold THEN 0 ELSE MinOf(3, pairing.streak + 1))
      /\ pairing'.applied = pairing.applied /\ pairing'.before = pairing.before
  BY <1>1 DEF BandsHeld
<1>3. spool \in Nat /\ spool >= 1 /\ f.start = tape.sounds[1].start
  BY <1>2, NowSounds
<1>4. turn \in HEARING /\ turn' \notin CODING /\ turn' \notin HEARING /\ turn' \in REST
  BY <1>2 DEF HEARING, CODING, REST
<1>5. decst'.pitch = work.pitch /\ decst'.pitch_old = IF pd.lm > 0 THEN work.pitch ELSE decst.pitch
  <2> DEFINE z == decst'
             new == work.pitch
             old == IF pd.lm > 0 THEN new ELSE decst.pitch
  <2>1. DecHolds(pd, x, new, z)
    BY <1>2
  <2>2. z.pitch = new /\ z.pitch_old = old
    BY <2>1 DEF DecHolds
  <2> QED
    BY <2>2
<1>6. CASE tape.sounds[1].start # 0
  <2>1. pairing.applied = <<>>
    BY <1>6 DEF Paired
  <2>2. pairing'.applied = <<>>
    BY <1>2, <2>1
  <2> QED
    BY <1>2, <1>4, <1>6, <2>2 DEF Paired, PitchFiltersPaired
<1>7. CASE tape.sounds[1].start = 0
  <2>1. PICK was : RecallNow(spool - 1, pairing.before, was) /\ FilteringNow(f, was, encst.pitch)
    BY <1>2, <1>4, <1>7 DEF Paired, AtHearing
  <2>2. PICK st, n, before, applied, lm, e, e1, a, b, w, st1, untold :
          /\ st = pairing.streak /\ n = spool - 1 /\ before = pairing.before /\ applied = pairing.applied /\ lm = f.lm
          /\ e = Sounding(was) /\ e1 = Sounding(encst.pitch) /\ a = Sounding(decst.pitch_old) /\ b = Sounding(decst.pitch)
          /\ w = Sounding(work.pitch) /\ st1 = pairing'.streak /\ untold = Untold
    OBVIOUS
  <2>3. PairReady(st, n, before, applied, lm, e, e1, a, b, w, st1, untold)
    <3>1. Recall(st, n, before, e, a, b) /\ Filtering(applied, lm, e, e1)
      BY <2>1, <2>2 DEF RecallNow, FilteringNow
    <3>2. untold \in BOOLEAN
      BY <2>2 DEF Untold
    <3>3. untold \/ w = e1
      BY <1>2, <2>2, PairsKnown
    <3>4. st1 = (IF untold THEN 0 ELSE MinOf(3, st + 1)) /\ lm \in 0..3
      BY <1>2, <2>2
    <3> QED
      BY <3>1, <3>2, <3>3, <3>4 DEF PairReady
  <2>4. PairDone(n, before, applied, lm, e1, a, b, w, st1)
    BY <2>3, PairSteps
  <2>5. n + 1 = spool
    BY <1>3, <2>2
  <2>6. Sounding(decst'.pitch) = w /\ Sounding(decst'.pitch_old) = IF lm > 0 THEN w ELSE b
    BY <1>2, <1>5, <2>2
  <2>7. AtRest'
    <3>1. Recall(st1, n + 1, applied, e1, IF lm > 0 THEN w ELSE b, w)
      BY <2>4 DEF PairDone
    <3>2. Sounding(encst.pitch)' = e1 /\ Sounding(decst.pitch)' = w /\ Sounding(decst.pitch_old)' = IF lm > 0 THEN w ELSE b
      BY <1>2, <2>2, <2>6
    <3>3. spool' = n + 1 /\ pairing'.applied = applied /\ pairing'.streak = st1
      BY <1>2, <2>2, <2>5
    <3> QED
      BY <3>1, <3>2, <3>3 DEF AtRest, RecallNow
  <2>8. PitchFiltersPaired'
    <3>1. pairing'.heard = Crossfades(lm, a, b, w)
      BY <1>2, <2>2, UnitsAre
    <3>2. applied # <<>> /\ (st1 = 3 \/ st1 = n + 1) =>
             /\ before # <<>> => Crossfades(lm, a, b, w)[1] = before[Len(before)]
             /\ Len(Crossfades(lm, a, b, w)) = 2 => Crossfades(lm, a, b, w)[2] = applied[1]
      BY <2>4 DEF PairDone
    <3>3. spool' = n + 1 /\ pairing'.applied = applied /\ pairing'.before = before /\ pairing'.streak = st1
      BY <1>2, <2>2, <2>5
    <3> QED
      BY <3>1, <3>2, <3>3 DEF PitchFiltersPaired, Undisturbed, FiltersPaired
  <2> QED
    BY <1>2, <1>4, <1>7, <2>7, <2>8 DEF Paired
<1> QED
  BY <1>6, <1>7

(* The packet was lost: nothing is known of the filters.                    *)
LEMMA PairsLose ==
  ASSUME FrameTypes, Paired, Lose
  PROVE  Paired'
<1>1. /\ tape' = tape /\ spool' = spool /\ turn = "air" /\ turn' = "heard" /\ PairLost(pairing, pairing')
  BY DEF Lose, PairLost
<1>2. pairing'.streak = 0 /\ pairing'.heard = <<>> /\ pairing'.applied = pairing.applied
  <2> DEFINE z == pairing'
             q == pairing
  <2>1. PairShape(q) /\ PairLost(q, z)
    BY <1>1 DEF FrameTypes
  <2> HIDE DEF z, q
  <2>2. /\ PairShape(z) /\ z.streak = 0 /\ z.heard = <<>> /\ z.apart = TRUE /\ z.hushed = q.hushed
        /\ z.applied = q.applied /\ z.before = q.before
    BY <2>1, PairApart
  <2> QED
    BY <2>2 DEF z, q
<1>3. spool \in Nat /\ spool >= 1
  BY <1>1, NowSounds
<1>4. AtRest'
  <2>1. pairing'.streak = 0 /\ spool' \in Nat /\ spool' >= 1 /\ 0 \in 0..3
    BY <1>1, <1>2, <1>3
  <2>2. ~(pairing'.streak >= 1 \/ spool' = 0) /\ ~(pairing'.streak >= 2 \/ pairing'.streak = spool')
    BY <2>1
  <2> QED
    BY <2>1, <2>2 DEF AtRest, RecallNow, Recall
<1>5. PitchFiltersPaired'
  BY <1>2 DEF PitchFiltersPaired
<1> QED
  BY <1>1, <1>2, <1>4, <1>5 DEF Paired, REST, CODING, HEARING

(* Done with the packet, the filters stay paired.                           *)
LEMMA PairsReady ==
  ASSUME Paired, Ready
  PROVE  Paired'
<1>1. /\ tape' = tape /\ spool' = spool /\ turn = "heard" /\ turn' = "record" /\ encst' = encst /\ decst' = decst /\ pairing' = pairing
  BY DEF Ready
<1>2. AtRest => AtRest'
  BY <1>1 DEF AtRest, RecallNow
<1> QED
  BY <1>1, <1>2 DEF Paired, REST, CODING, HEARING

(* Every step keeps the invariant.                                          *)
LEMMA PairsStep ==
  ASSUME PairInv, CeltFrameNext
  PROVE  PairInv'
<1>1. FrameInv /\ FrameTypes /\ Paired
  BY DEF PairInv, FrameInv
<1>2. FrameInv'
  BY <1>1, InvStep
<1>3. Paired'
  <2>1. CASE EncodeHeader
    BY <1>1, <2>1, PairsHeader
  <2>2. CASE EncodeCoarse
    <3>1. Coarse
      BY <1>1, <2>2 DEF FrameInv, EncodeCoarse
    <3> QED
      BY <1>1, <2>2, <3>1, PairsCoarse
  <2>3. CASE EncodeChoices
    BY <1>1, <2>3, PairsChoices
  <2>4. CASE ChooseSize
    BY <1>1, <2>4, PairsSize
  <2>5. CASE EncodeBands
    BY <1>1, <2>5, PairsBands
  <2>6. CASE DecodeHeader
    <3>1. Airing
      BY <1>1, <2>6 DEF FrameInv, DecodeHeader
    <3> QED
      BY <1>1, <2>6, <3>1, PairsHeard
  <2>7. CASE DecodeCoarse
    BY <1>1, <2>7, PairsUncoarse
  <2>8. CASE DecodeChoices
    BY <1>1, <2>8, PairsUnchoices
  <2>9. CASE DecodeBands
    <3>1. turn = "unbands"
      BY <2>9 DEF DecodeBands
    <3>2. Unbanding
      BY <1>1, <3>1 DEF FrameInv
    <3> QED
      BY <1>1, <2>9, <3>1, <3>2, PairsUnbands
  <2>10. CASE Lose
    BY <1>1, <2>10, PairsLose
  <2>11. CASE Ready
    BY <1>1, <2>11, PairsReady
  <2> QED
    BY <2>1, <2>2, <2>3, <2>4, <2>5, <2>6, <2>7, <2>8, <2>9, <2>10, <2>11 DEF CeltFrameNext
<1> QED
  BY <1>2, <1>3 DEF PairInv

(* A stuttering step keeps the invariant.                                   *)
LEMMA PairsRest ==
  ASSUME PairInv, UNCHANGED cvars
  PROVE  PairInv'
<1>1. FrameInv'
  BY InvRests DEF PairInv
<1>2. /\ tape' = tape /\ spool' = spool /\ turn' = turn /\ encst' = encst /\ decst' = decst /\ work' = work /\ pairing' = pairing
  BY DEF cvars
<1>3. Sound' = Sound
  BY <1>2 DEF Sound
<1>4. (AtRest => AtRest') /\ (AtCoding => AtCoding') /\ (PitchFiltersPaired => PitchFiltersPaired')
  BY <1>2, <1>3 DEF AtRest, AtCoding, RecallNow, FilteringNow, PitchFiltersPaired, Undisturbed, FiltersPaired
<1>5. ASSUME AtHearing PROVE AtHearing'
  <2>1. PICK was : RecallNow(spool - 1, pairing.before, was) /\ FilteringNow(Sound, was, encst.pitch)
    BY <1>5 DEF AtHearing
  <2>2. (RecallNow(spool - 1, pairing.before, was) /\ FilteringNow(Sound, was, encst.pitch))'
    BY <1>2, <1>3, <2>1 DEF RecallNow, FilteringNow
  <2> QED
    BY <2>2 DEF AtHearing
<1>6. Paired'
  BY <1>2, <1>4, <1>5 DEF PairInv, Paired
<1> QED
  BY <1>1, <1>6 DEF PairInv

(* A clip begins with no filter on either end.                              *)
LEMMA PairsFirst ==
  ASSUME CeltFrameInit
  PROVE  PairInv
<1>1. FrameTypes /\ turn = "record" /\ Between
  BY NewAlike
<1>2. encst = NewCeltEncoder /\ decst = NewCeltDecoder /\ spool = 0 /\ pairing.applied = <<>> /\ pairing.streak = 0
  BY DEF CeltFrameInit
<1>3. encst.pitch = NoPitch /\ decst.pitch = NoPitch
  BY <1>2, EncNew, DecNew
<1>4. AtRest
  <2>1. pairing.streak \in 0..3 /\ spool \in Nat
    BY <1>2
  <2> QED
    BY <1>2, <1>3, <2>1 DEF AtRest, RecallNow, Recall
<1>5. Paired
  BY <1>1, <1>2, <1>4 DEF Paired, REST, CODING, HEARING
<1> QED
  BY <1>1, <1>5 DEF PairInv, FrameInv

-----------------------------------------------------------------------------
(* The decoder undoes each crossfade of the encoder's pitch filter, 120     *)
(* samples later, once three frames were neither lost nor filtered in silence. *)
THEOREM PitchFiltersPairedProved == CeltFrameSpec => []PitchFiltersPaired
<1>1. CeltFrameInit => PairInv
  BY PairsFirst
<1>2. PairInv /\ [CeltFrameNext]_cvars => PairInv'
  BY PairsStep, PairsRest
<1>3. PairInv => PitchFiltersPaired
  <2> SUFFICES ASSUME PairInv PROVE PitchFiltersPaired
    OBVIOUS
  <2>1. CASE turn = "heard"
    BY <2>1 DEF PairInv, Paired
  <2>2. CASE turn # "heard"
    BY <2>2 DEF PitchFiltersPaired
  <2> QED
    BY <2>1, <2>2
<1> QED
  BY <1>1, <1>2, <1>3, PTL DEF CeltFrameSpec
=============================================================================

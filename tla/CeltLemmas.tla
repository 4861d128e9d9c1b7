----------------------------- MODULE CeltLemmas -----------------------------
(***************************************************************************)
(* What the pieces of a CELT frame do, for frames of every content. A loop *)
(* over the bands unrolls step by step; a coder only grows, within its     *)
(* frame; and each of the decoder's readers, from a Laplace code to the    *)
(* whole of the choices, reads what its writer put, although it counts     *)
(* with the final size of the frame where the writer counted with the      *)
(* buffer's. The facts about what is read are about a decoder that follows *)
(* an encoder (Follows): as far in the frame, as many symbols on.          *)
(***************************************************************************)
EXTENDS CeltFrame, DataInduction, FiniteSetTheorems, SequenceTheorems

(* The widths the encoder tries. *)
LEMMA DecaysGoes ==
  ASSUME NEW fs0, NEW decay, NEW i \in Nat
  PROVE  Decays(fs0, decay, 0) = <<fs0, get_freq1(fs0, decay), 1>> /\ Decays(fs0, decay, i + 1) = Decaying(Decays(fs0, decay, i), decay)
<1> DEFINE U(f, m) == f = [k \in 0..m |-> IF k = 0 THEN <<fs0, get_freq1(fs0, decay), 1>> ELSE Decaying(f[k - 1], decay)]
           T == {m \in Nat : \E f : U(f, m)}
           t(n) == CHOOSE h : U(h, n)
<1>1. 0 \in T
  <2> DEFINE g == [k \in 0..0 |-> <<fs0, get_freq1(fs0, decay), 1>>]
  <2>1. U(g, 0)
    OBVIOUS
  <2> QED
    BY <2>1
<1>2. ASSUME NEW m \in Nat, m \in T
      PROVE  m + 1 \in T
  <2>1. PICK f : U(f, m)
    BY <1>2
  <2> DEFINE g == [k \in 0..(m + 1) |-> IF k = m + 1 THEN Decaying(f[m], decay) ELSE f[k]]
  <2>2. ASSUME NEW k \in 0..(m + 1)
        PROVE  g[k] = IF k = 0 THEN <<fs0, get_freq1(fs0, decay), 1>> ELSE Decaying(g[k - 1], decay)
    <3>1. CASE k = m + 1
      <4>1. k # 0 /\ k - 1 = m /\ g[k] = Decaying(f[m], decay) /\ g[m] = f[m]
        BY <3>1
      <4> HIDE DEF g
      <4> QED
        BY <4>1
    <3>2. CASE k = 0
      BY <3>2, <2>1
    <3>3. CASE k \in 1..m
      <4>1. k - 1 \in 0..(m + 1) /\ g[k - 1] = f[k - 1] /\ g[k] = f[k]
        BY <3>3
      <4>2. f[k] = Decaying(f[k - 1], decay)
        BY <3>3, <2>1
      <4> HIDE DEF g
      <4> QED
        BY <4>1, <4>2, <3>3
    <3> QED
      BY <3>1, <3>2, <3>3
  <2>3. U(g, m + 1)
    BY <2>2
  <2> HIDE DEF g
  <2>4. \E h : U(h, m + 1)
    BY <2>3
  <2> HIDE DEF U
  <2>5. m + 1 \in Nat
    OBVIOUS
  <2> QED
    BY <2>4, <2>5
<1>3. T = Nat
  <2>1. T \in SUBSET Nat
    OBVIOUS
  <2> HIDE DEF T
  <2> QED
    BY <1>1, <1>2, <2>1, NatSetInduction
<1>4. ASSUME NEW n \in Nat
      PROVE  U(t(n), n) /\ Decays(fs0, decay, n) = t(n)[n]
  <2>1. \E h : U(h, n)
    BY <1>3
  <2>2. U(t(n), n)
    <3> HIDE DEF U
    <3> QED
      BY <2>1
  <2>3. Decays(fs0, decay, n) = t(n)[n]
    BY DEF Decays
  <2> QED
    BY <2>2, <2>3
<1> HIDE DEF t
<1>5. Decays(fs0, decay, 0) = <<fs0, get_freq1(fs0, decay), 1>>
  BY <1>4
<1>6. ASSUME NEW n \in Nat
      PROVE  Decays(fs0, decay, n + 1) = Decaying(Decays(fs0, decay, n), decay)
  <2> DEFINE was == t(n)
             now == t(n + 1)
             S == {k \in Nat : k <= n => was[k] = now[k]}
  <2>1. U(was, n) /\ U(now, n + 1) /\ n + 1 \in Nat
    <3>1. n + 1 \in Nat
      OBVIOUS
    <3> HIDE DEF U
    <3> QED
      BY <1>4, <3>1
  <2> HIDE DEF was, now
  <2>2. 0 \in S
    BY <2>1
  <2>3. ASSUME NEW k \in Nat, k \in S
        PROVE  k + 1 \in S
    <3> SUFFICES ASSUME k + 1 <= n PROVE was[k + 1] = now[k + 1]
      OBVIOUS
    <3>1. k + 1 \in 0..n /\ k + 1 \in 0..(n + 1) /\ k + 1 # 0 /\ (k + 1) - 1 = k /\ was[k] = now[k]
      BY <2>3
    <3>2. was[k + 1] = Decaying(was[k], decay)
      BY <2>1, <3>1
    <3>3. now[k + 1] = Decaying(now[k], decay)
      BY <2>1, <3>1
    <3> QED
      BY <3>1, <3>2, <3>3
  <2>4. S = Nat
    <3>1. S \in SUBSET Nat
      OBVIOUS
    <3> HIDE DEF S
    <3> QED
      BY <2>2, <2>3, <3>1, NatSetInduction
  <2>5. was[n] = now[n]
    BY <2>4
  <2>6. n + 1 \in 0..(n + 1) /\ n + 1 # 0 /\ (n + 1) - 1 = n
    OBVIOUS
  <2>7. now[n + 1] = Decaying(now[n], decay)
    BY <2>1, <2>6
  <2>8. Decays(fs0, decay, n) = was[n] /\ Decays(fs0, decay, n + 1) = now[n + 1]
    BY <1>4 DEF was, now
  <2> QED
    BY <2>5, <2>7, <2>8
<1> QED
  BY <1>5, <1>6

(* The widths the decoder tries. *)
LEMMA WidthsGoes ==
  ASSUME NEW fs0, NEW decay, NEW i \in Nat
  PROVE  LaplaceWidths(fs0, decay, 0) = <<fs0, get_freq1(fs0, decay) + 1, 1>> /\ LaplaceWidths(fs0, decay, i + 1) = Narrowed(LaplaceWidths(fs0, decay, i), decay)
<1> DEFINE U(f, m) == f = [k \in 0..m |-> IF k = 0 THEN <<fs0, get_freq1(fs0, decay) + 1, 1>> ELSE Narrowed(f[k - 1], decay)]
           T == {m \in Nat : \E f : U(f, m)}
           t(n) == CHOOSE h : U(h, n)
<1>1. 0 \in T
  <2> DEFINE g == [k \in 0..0 |-> <<fs0, get_freq1(fs0, decay) + 1, 1>>]
  <2>1. U(g, 0)
    OBVIOUS
  <2> QED
    BY <2>1
<1>2. ASSUME NEW m \in Nat, m \in T
      PROVE  m + 1 \in T
  <2>1. PICK f : U(f, m)
    BY <1>2
  <2> DEFINE g == [k \in 0..(m + 1) |-> IF k = m + 1 THEN Narrowed(f[m], decay) ELSE f[k]]
  <2>2. ASSUME NEW k \in 0..(m + 1)
        PROVE  g[k] = IF k = 0 THEN <<fs0, get_freq1(fs0, decay) + 1, 1>> ELSE Narrowed(g[k - 1], decay)
    <3>1. CASE k = m + 1
      <4>1. k # 0 /\ k - 1 = m /\ g[k] = Narrowed(f[m], decay) /\ g[m] = f[m]
        BY <3>1
      <4> HIDE DEF g
      <4> QED
        BY <4>1
    <3>2. CASE k = 0
      BY <3>2, <2>1
    <3>3. CASE k \in 1..m
      <4>1. k - 1 \in 0..(m + 1) /\ g[k - 1] = f[k - 1] /\ g[k] = f[k]
        BY <3>3
      <4>2. f[k] = Narrowed(f[k - 1], decay)
        BY <3>3, <2>1
      <4> HIDE DEF g
      <4> QED
        BY <4>1, <4>2, <3>3
    <3> QED
      BY <3>1, <3>2, <3>3
  <2>3. U(g, m + 1)
    BY <2>2
  <2> HIDE DEF g
  <2>4. \E h : U(h, m + 1)
    BY <2>3
  <2> HIDE DEF U
  <2>5. m + 1 \in Nat
    OBVIOUS
  <2> QED
    BY <2>4, <2>5
<1>3. T = Nat
  <2>1. T \in SUBSET Nat
    OBVIOUS
  <2> HIDE DEF T
  <2> QED
    BY <1>1, <1>2, <2>1, NatSetInduction
<1>4. ASSUME NEW n \in Nat
      PROVE  U(t(n), n) /\ LaplaceWidths(fs0, decay, n) = t(n)[n]
  <2>1. \E h : U(h, n)
    BY <1>3
  <2>2. U(t(n), n)
    <3> HIDE DEF U
    <3> QED
      BY <2>1
  <2>3. LaplaceWidths(fs0, decay, n) = t(n)[n]
    BY DEF LaplaceWidths
  <2> QED
    BY <2>2, <2>3
<1> HIDE DEF t
<1>5. LaplaceWidths(fs0, decay, 0) = <<fs0, get_freq1(fs0, decay) + 1, 1>>
  BY <1>4
<1>6. ASSUME NEW n \in Nat
      PROVE  LaplaceWidths(fs0, decay, n + 1) = Narrowed(LaplaceWidths(fs0, decay, n), decay)
  <2> DEFINE was == t(n)
             now == t(n + 1)
             S == {k \in Nat : k <= n => was[k] = now[k]}
  <2>1. U(was, n) /\ U(now, n + 1) /\ n + 1 \in Nat
    <3>1. n + 1 \in Nat
      OBVIOUS
    <3> HIDE DEF U
    <3> QED
      BY <1>4, <3>1
  <2> HIDE DEF was, now
  <2>2. 0 \in S
    BY <2>1
  <2>3. ASSUME NEW k \in Nat, k \in S
        PROVE  k + 1 \in S
    <3> SUFFICES ASSUME k + 1 <= n PROVE was[k + 1] = now[k + 1]
      OBVIOUS
    <3>1. k + 1 \in 0..n /\ k + 1 \in 0..(n + 1) /\ k + 1 # 0 /\ (k + 1) - 1 = k /\ was[k] = now[k]
      BY <2>3
    <3>2. was[k + 1] = Narrowed(was[k], decay)
      BY <2>1, <3>1
    <3>3. now[k + 1] = Narrowed(now[k], decay)
      BY <2>1, <3>1
    <3> QED
      BY <3>1, <3>2, <3>3
  <2>4. S = Nat
    <3>1. S \in SUBSET Nat
      OBVIOUS
    <3> HIDE DEF S
    <3> QED
      BY <2>2, <2>3, <3>1, NatSetInduction
  <2>5. was[n] = now[n]
    BY <2>4
  <2>6. n + 1 \in 0..(n + 1) /\ n + 1 # 0 /\ (n + 1) - 1 = n
    OBVIOUS
  <2>7. now[n + 1] = Narrowed(now[n], decay)
    BY <2>1, <2>6
  <2>8. LaplaceWidths(fs0, decay, n) = was[n] /\ LaplaceWidths(fs0, decay, n + 1) = now[n + 1]
    BY <1>4 DEF was, now
  <2> QED
    BY <2>5, <2>7, <2>8
<1> QED
  BY <1>5, <1>6

(* Coarse energies, written. *)
LEMMA CoarseGoes ==
  ASSUME NEW s, NEW p, NEW x, NEW i \in Nat
  PROVE  CoarseFrom(s, p, x, 0) = s /\ CoarseFrom(s, p, x, i + 1) = CoarseStep(CoarseFrom(s, p, x, i), p, x, i)
<1> DEFINE U(f, m) == f = [k \in 0..m |-> IF k = 0 THEN s ELSE CoarseStep(f[k - 1], p, x, k - 1)]
           T == {m \in Nat : \E f : U(f, m)}
           t(n) == CHOOSE h : U(h, n)
<1>1. 0 \in T
  <2> DEFINE g == [k \in 0..0 |-> s]
  <2>1. U(g, 0)
    OBVIOUS
  <2> QED
    BY <2>1
<1>2. ASSUME NEW m \in Nat, m \in T
      PROVE  m + 1 \in T
  <2>1. PICK f : U(f, m)
    BY <1>2
  <2> DEFINE g == [k \in 0..(m + 1) |-> IF k = m + 1 THEN CoarseStep(f[m], p, x, m) ELSE f[k]]
  <2>2. ASSUME NEW k \in 0..(m + 1)
        PROVE  g[k] = IF k = 0 THEN s ELSE CoarseStep(g[k - 1], p, x, k - 1)
    <3>1. CASE k = m + 1
      <4>1. k # 0 /\ k - 1 = m /\ g[k] = CoarseStep(f[m], p, x, m) /\ g[m] = f[m]
        BY <3>1
      <4> HIDE DEF g
      <4> QED
        BY <4>1
    <3>2. CASE k = 0
      BY <3>2, <2>1
    <3>3. CASE k \in 1..m
      <4>1. k - 1 \in 0..(m + 1) /\ g[k - 1] = f[k - 1] /\ g[k] = f[k]
        BY <3>3
      <4>2. f[k] = CoarseStep(f[k - 1], p, x, k - 1)
        BY <3>3, <2>1
      <4> HIDE DEF g
      <4> QED
        BY <4>1, <4>2, <3>3
    <3> QED
      BY <3>1, <3>2, <3>3
  <2>3. U(g, m + 1)
    BY <2>2
  <2> HIDE DEF g
  <2>4. \E h : U(h, m + 1)
    BY <2>3
  <2> HIDE DEF U
  <2>5. m + 1 \in Nat
    OBVIOUS
  <2> QED
    BY <2>4, <2>5
<1>3. T = Nat
  <2>1. T \in SUBSET Nat
    OBVIOUS
  <2> HIDE DEF T
  <2> QED
    BY <1>1, <1>2, <2>1, NatSetInduction
<1>4. ASSUME NEW n \in Nat
      PROVE  U(t(n), n) /\ CoarseFrom(s, p, x, n) = t(n)[n]
  <2>1. \E h : U(h, n)
    BY <1>3
  <2>2. U(t(n), n)
    <3> HIDE DEF U
    <3> QED
      BY <2>1
  <2>3. CoarseFrom(s, p, x, n) = t(n)[n]
    BY DEF CoarseFrom
  <2> QED
    BY <2>2, <2>3
<1> HIDE DEF t
<1>5. CoarseFrom(s, p, x, 0) = s
  BY <1>4
<1>6. ASSUME NEW n \in Nat
      PROVE  CoarseFrom(s, p, x, n + 1) = CoarseStep(CoarseFrom(s, p, x, n), p, x, n)
  <2> DEFINE was == t(n)
             now == t(n + 1)
             S == {k \in Nat : k <= n => was[k] = now[k]}
  <2>1. U(was, n) /\ U(now, n + 1) /\ n + 1 \in Nat
    <3>1. n + 1 \in Nat
      OBVIOUS
    <3> HIDE DEF U
    <3> QED
      BY <1>4, <3>1
  <2> HIDE DEF was, now
  <2>2. 0 \in S
    BY <2>1
  <2>3. ASSUME NEW k \in Nat, k \in S
        PROVE  k + 1 \in S
    <3> SUFFICES ASSUME k + 1 <= n PROVE was[k + 1] = now[k + 1]
      OBVIOUS
    <3>1. k + 1 \in 0..n /\ k + 1 \in 0..(n + 1) /\ k + 1 # 0 /\ (k + 1) - 1 = k /\ was[k] = now[k]
      BY <2>3
    <3>2. was[k + 1] = CoarseStep(was[k], p, x, k)
      BY <2>1, <3>1
    <3>3. now[k + 1] = CoarseStep(now[k], p, x, k)
      BY <2>1, <3>1
    <3> QED
      BY <3>1, <3>2, <3>3
  <2>4. S = Nat
    <3>1. S \in SUBSET Nat
      OBVIOUS
    <3> HIDE DEF S
    <3> QED
      BY <2>2, <2>3, <3>1, NatSetInduction
  <2>5. was[n] = now[n]
    BY <2>4
  <2>6. n + 1 \in 0..(n + 1) /\ n + 1 # 0 /\ (n + 1) - 1 = n
    OBVIOUS
  <2>7. now[n + 1] = CoarseStep(now[n], p, x, n)
    BY <2>1, <2>6
  <2>8. CoarseFrom(s, p, x, n) = was[n] /\ CoarseFrom(s, p, x, n + 1) = now[n + 1]
    BY <1>4 DEF was, now
  <2> QED
    BY <2>5, <2>7, <2>8
<1> QED
  BY <1>5, <1>6

(* Coarse energies, read. *)
LEMMA UncoarseGoes ==
  ASSUME NEW s, NEW p, NEW i \in Nat
  PROVE  UncoarseFrom(s, p, 0) = s /\ UncoarseFrom(s, p, i + 1) = UncoarseStep(UncoarseFrom(s, p, i), p, i)
<1> DEFINE U(f, m) == f = [k \in 0..m |-> IF k = 0 THEN s ELSE UncoarseStep(f[k - 1], p, k - 1)]
           T == {m \in Nat : \E f : U(f, m)}
           t(n) == CHOOSE h : U(h, n)
<1>1. 0 \in T
  <2> DEFINE g == [k \in 0..0 |-> s]
  <2>1. U(g, 0)
    OBVIOUS
  <2> QED
    BY <2>1
<1>2. ASSUME NEW m \in Nat, m \in T
      PROVE  m + 1 \in T
  <2>1. PICK f : U(f, m)
    BY <1>2
  <2> DEFINE g == [k \in 0..(m + 1) |-> IF k = m + 1 THEN UncoarseStep(f[m], p, m) ELSE f[k]]
  <2>2. ASSUME NEW k \in 0..(m + 1)
        PROVE  g[k] = IF k = 0 THEN s ELSE UncoarseStep(g[k - 1], p, k - 1)
    <3>1. CASE k = m + 1
      <4>1. k # 0 /\ k - 1 = m /\ g[k] = UncoarseStep(f[m], p, m) /\ g[m] = f[m]
        BY <3>1
      <4> HIDE DEF g
      <4> QED
        BY <4>1
    <3>2. CASE k = 0
      BY <3>2, <2>1
    <3>3. CASE k \in 1..m
      <4>1. k - 1 \in 0..(m + 1) /\ g[k - 1] = f[k - 1] /\ g[k] = f[k]
        BY <3>3
      <4>2. f[k] = UncoarseStep(f[k - 1], p, k - 1)
        BY <3>3, <2>1
      <4> HIDE DEF g
      <4> QED
        BY <4>1, <4>2, <3>3
    <3> QED
      BY <3>1, <3>2, <3>3
  <2>3. U(g, m + 1)
    BY <2>2
  <2> HIDE DEF g
  <2>4. \E h : U(h, m + 1)
    BY <2>3
  <2> HIDE DEF U
  <2>5. m + 1 \in Nat
    OBVIOUS
  <2> QED
    BY <2>4, <2>5
<1>3. T = Nat
  <2>1. T \in SUBSET Nat
    OBVIOUS
  <2> HIDE DEF T
  <2> QED
    BY <1>1, <1>2, <2>1, NatSetInduction
<1>4. ASSUME NEW n \in Nat
      PROVE  U(t(n), n) /\ UncoarseFrom(s, p, n) = t(n)[n]
  <2>1. \E h : U(h, n)
    BY <1>3
  <2>2. U(t(n), n)
    <3> HIDE DEF U
    <3> QED
      BY <2>1
  <2>3. UncoarseFrom(s, p, n) = t(n)[n]
    BY DEF UncoarseFrom
  <2> QED
    BY <2>2, <2>3
<1> HIDE DEF t
<1>5. UncoarseFrom(s, p, 0) = s
  BY <1>4
<1>6. ASSUME NEW n \in Nat
      PROVE  UncoarseFrom(s, p, n + 1) = UncoarseStep(UncoarseFrom(s, p, n), p, n)
  <2> DEFINE was == t(n)
             now == t(n + 1)
             S == {k \in Nat : k <= n => was[k] = now[k]}
  <2>1. U(was, n) /\ U(now, n + 1) /\ n + 1 \in Nat
    <3>1. n + 1 \in Nat
      OBVIOUS
    <3> HIDE DEF U
    <3> QED
      BY <1>4, <3>1
  <2> HIDE DEF was, now
  <2>2. 0 \in S
    BY <2>1
  <2>3. ASSUME NEW k \in Nat, k \in S
        PROVE  k + 1 \in S
    <3> SUFFICES ASSUME k + 1 <= n PROVE was[k + 1] = now[k + 1]
      OBVIOUS
    <3>1. k + 1 \in 0..n /\ k + 1 \in 0..(n + 1) /\ k + 1 # 0 /\ (k + 1) - 1 = k /\ was[k] = now[k]
      BY <2>3
    <3>2. was[k + 1] = UncoarseStep(was[k], p, k)
      BY <2>1, <3>1
    <3>3. now[k + 1] = UncoarseStep(now[k], p, k)
      BY <2>1, <3>1
    <3> QED
      BY <3>1, <3>2, <3>3
  <2>4. S = Nat
    <3>1. S \in SUBSET Nat
      OBVIOUS
    <3> HIDE DEF S
    <3> QED
      BY <2>2, <2>3, <3>1, NatSetInduction
  <2>5. was[n] = now[n]
    BY <2>4
  <2>6. n + 1 \in 0..(n + 1) /\ n + 1 # 0 /\ (n + 1) - 1 = n
    OBVIOUS
  <2>7. now[n + 1] = UncoarseStep(now[n], p, n)
    BY <2>1, <2>6
  <2>8. UncoarseFrom(s, p, n) = was[n] /\ UncoarseFrom(s, p, n + 1) = now[n + 1]
    BY <1>4 DEF was, now
  <2> QED
    BY <2>5, <2>7, <2>8
<1> QED
  BY <1>5, <1>6

(* Fine energies, written. *)
LEMMA FineGoes ==
  ASSUME NEW s, NEW p, NEW bits, NEW i \in Nat
  PROVE  FineFrom(s, p, bits, 0) = s /\ FineFrom(s, p, bits, i + 1) = FineStep(FineFrom(s, p, bits, i), p, bits, i)
<1> DEFINE U(f, m) == f = [k \in 0..m |-> IF k = 0 THEN s ELSE FineStep(f[k - 1], p, bits, k - 1)]
           T == {m \in Nat : \E f : U(f, m)}
           t(n) == CHOOSE h : U(h, n)
<1>1. 0 \in T
  <2> DEFINE g == [k \in 0..0 |-> s]
  <2>1. U(g, 0)
    OBVIOUS
  <2> QED
    BY <2>1
<1>2. ASSUME NEW m \in Nat, m \in T
      PROVE  m + 1 \in T
  <2>1. PICK f : U(f, m)
    BY <1>2
  <2> DEFINE g == [k \in 0..(m + 1) |-> IF k = m + 1 THEN FineStep(f[m], p, bits, m) ELSE f[k]]
  <2>2. ASSUME NEW k \in 0..(m + 1)
        PROVE  g[k] = IF k = 0 THEN s ELSE FineStep(g[k - 1], p, bits, k - 1)
    <3>1. CASE k = m + 1
      <4>1. k # 0 /\ k - 1 = m /\ g[k] = FineStep(f[m], p, bits, m) /\ g[m] = f[m]
        BY <3>1
      <4> HIDE DEF g
      <4> QED
        BY <4>1
    <3>2. CASE k = 0
      BY <3>2, <2>1
    <3>3. CASE k \in 1..m
      <4>1. k - 1 \in 0..(m + 1) /\ g[k - 1] = f[k - 1] /\ g[k] = f[k]
        BY <3>3
      <4>2. f[k] = FineStep(f[k - 1], p, bits, k - 1)
        BY <3>3, <2>1
      <4> HIDE DEF g
      <4> QED
        BY <4>1, <4>2, <3>3
    <3> QED
      BY <3>1, <3>2, <3>3
  <2>3. U(g, m + 1)
    BY <2>2
  <2> HIDE DEF g
  <2>4. \E h : U(h, m + 1)
    BY <2>3
  <2> HIDE DEF U
  <2>5. m + 1 \in Nat
    OBVIOUS
  <2> QED
    BY <2>4, <2>5
<1>3. T = Nat
  <2>1. T \in SUBSET Nat
    OBVIOUS
  <2> HIDE DEF T
  <2> QED
    BY <1>1, <1>2, <2>1, NatSetInduction
<1>4. ASSUME NEW n \in Nat
      PROVE  U(t(n), n) /\ FineFrom(s, p, bits, n) = t(n)[n]
  <2>1. \E h : U(h, n)
    BY <1>3
  <2>2. U(t(n), n)
    <3> HIDE DEF U
    <3> QED
      BY <2>1
  <2>3. FineFrom(s, p, bits, n) = t(n)[n]
    BY DEF FineFrom
  <2> QED
    BY <2>2, <2>3
<1> HIDE DEF t
<1>5. FineFrom(s, p, bits, 0) = s
  BY <1>4
<1>6. ASSUME NEW n \in Nat
      PROVE  FineFrom(s, p, bits, n + 1) = FineStep(FineFrom(s, p, bits, n), p, bits, n)
  <2> DEFINE was == t(n)
             now == t(n + 1)
             S == {k \in Nat : k <= n => was[k] = now[k]}
  <2>1. U(was, n) /\ U(now, n + 1) /\ n + 1 \in Nat
    <3>1. n + 1 \in Nat
      OBVIOUS
    <3> HIDE DEF U
    <3> QED
      BY <1>4, <3>1
  <2> HIDE DEF was, now
  <2>2. 0 \in S
    BY <2>1
  <2>3. ASSUME NEW k \in Nat, k \in S
        PROVE  k + 1 \in S
    <3> SUFFICES ASSUME k + 1 <= n PROVE was[k + 1] = now[k + 1]
      OBVIOUS
    <3>1. k + 1 \in 0..n /\ k + 1 \in 0..(n + 1) /\ k + 1 # 0 /\ (k + 1) - 1 = k /\ was[k] = now[k]
      BY <2>3
    <3>2. was[k + 1] = FineStep(was[k], p, bits, k)
      BY <2>1, <3>1
    <3>3. now[k + 1] = FineStep(now[k], p, bits, k)
      BY <2>1, <3>1
    <3> QED
      BY <3>1, <3>2, <3>3
  <2>4. S = Nat
    <3>1. S \in SUBSET Nat
      OBVIOUS
    <3> HIDE DEF S
    <3> QED
      BY <2>2, <2>3, <3>1, NatSetInduction
  <2>5. was[n] = now[n]
    BY <2>4
  <2>6. n + 1 \in 0..(n + 1) /\ n + 1 # 0 /\ (n + 1) - 1 = n
    OBVIOUS
  <2>7. now[n + 1] = FineStep(now[n], p, bits, n)
    BY <2>1, <2>6
  <2>8. FineFrom(s, p, bits, n) = was[n] /\ FineFrom(s, p, bits, n + 1) = now[n + 1]
    BY <1>4 DEF was, now
  <2> QED
    BY <2>5, <2>7, <2>8
<1> QED
  BY <1>5, <1>6

(* Fine energies, read. *)
LEMMA UnfineGoes ==
  ASSUME NEW s, NEW p, NEW bits, NEW i \in Nat
  PROVE  UnfineFrom(s, p, bits, 0) = s /\ UnfineFrom(s, p, bits, i + 1) = UnfineStep(UnfineFrom(s, p, bits, i), p, bits, i)
<1> DEFINE U(f, m) == f = [k \in 0..m |-> IF k = 0 THEN s ELSE UnfineStep(f[k - 1], p, bits, k - 1)]
           T == {m \in Nat : \E f : U(f, m)}
           t(n) == CHOOSE h : U(h, n)
<1>1. 0 \in T
  <2> DEFINE g == [k \in 0..0 |-> s]
  <2>1. U(g, 0)
    OBVIOUS
  <2> QED
    BY <2>1
<1>2. ASSUME NEW m \in Nat, m \in T
      PROVE  m + 1 \in T
  <2>1. PICK f : U(f, m)
    BY <1>2
  <2> DEFINE g == [k \in 0..(m + 1) |-> IF k = m + 1 THEN UnfineStep(f[m], p, bits, m) ELSE f[k]]
  <2>2. ASSUME NEW k \in 0..(m + 1)
        PROVE  g[k] = IF k = 0 THEN s ELSE UnfineStep(g[k - 1], p, bits, k - 1)
    <3>1. CASE k = m + 1
      <4>1. k # 0 /\ k - 1 = m /\ g[k] = UnfineStep(f[m], p, bits, m) /\ g[m] = f[m]
        BY <3>1
      <4> HIDE DEF g
      <4> QED
        BY <4>1
    <3>2. CASE k = 0
      BY <3>2, <2>1
    <3>3. CASE k \in 1..m
      <4>1. k - 1 \in 0..(m + 1) /\ g[k - 1] = f[k - 1] /\ g[k] = f[k]
        BY <3>3
      <4>2. f[k] = UnfineStep(f[k - 1], p, bits, k - 1)
        BY <3>3, <2>1
      <4> HIDE DEF g
      <4> QED
        BY <4>1, <4>2, <3>3
    <3> QED
      BY <3>1, <3>2, <3>3
  <2>3. U(g, m + 1)
    BY <2>2
  <2> HIDE DEF g
  <2>4. \E h : U(h, m + 1)
    BY <2>3
  <2> HIDE DEF U
  <2>5. m + 1 \in Nat
    OBVIOUS
  <2> QED
    BY <2>4, <2>5
<1>3. T = Nat
  <2>1. T \in SUBSET Nat
    OBVIOUS
  <2> HIDE DEF T
  <2> QED
    BY <1>1, <1>2, <2>1, NatSetInduction
<1>4. ASSUME NEW n \in Nat
      PROVE  U(t(n), n) /\ UnfineFrom(s, p, bits, n) = t(n)[n]
  <2>1. \E h : U(h, n)
    BY <1>3
  <2>2. U(t(n), n)
    <3> HIDE DEF U
    <3> QED
      BY <2>1
  <2>3. UnfineFrom(s, p, bits, n) = t(n)[n]
    BY DEF UnfineFrom
  <2> QED
    BY <2>2, <2>3
<1> HIDE DEF t
<1>5. UnfineFrom(s, p, bits, 0) = s
  BY <1>4
<1>6. ASSUME NEW n \in Nat
      PROVE  UnfineFrom(s, p, bits, n + 1) = UnfineStep(UnfineFrom(s, p, bits, n), p, bits, n)
  <2> DEFINE was == t(n)
             now == t(n + 1)
             S == {k \in Nat : k <= n => was[k] = now[k]}
  <2>1. U(was, n) /\ U(now, n + 1) /\ n + 1 \in Nat
    <3>1. n + 1 \in Nat
      OBVIOUS
    <3> HIDE DEF U
    <3> QED
      BY <1>4, <3>1
  <2> HIDE DEF was, now
  <2>2. 0 \in S
    BY <2>1
  <2>3. ASSUME NEW k \in Nat, k \in S
        PROVE  k + 1 \in S
    <3> SUFFICES ASSUME k + 1 <= n PROVE was[k + 1] = now[k + 1]
      OBVIOUS
    <3>1. k + 1 \in 0..n /\ k + 1 \in 0..(n + 1) /\ k + 1 # 0 /\ (k + 1) - 1 = k /\ was[k] = now[k]
      BY <2>3
    <3>2. was[k + 1] = UnfineStep(was[k], p, bits, k)
      BY <2>1, <3>1
    <3>3. now[k + 1] = UnfineStep(now[k], p, bits, k)
      BY <2>1, <3>1
    <3> QED
      BY <3>1, <3>2, <3>3
  <2>4. S = Nat
    <3>1. S \in SUBSET Nat
      OBVIOUS
    <3> HIDE DEF S
    <3> QED
      BY <2>2, <2>3, <3>1, NatSetInduction
  <2>5. was[n] = now[n]
    BY <2>4
  <2>6. n + 1 \in 0..(n + 1) /\ n + 1 # 0 /\ (n + 1) - 1 = n
    OBVIOUS
  <2>7. now[n + 1] = UnfineStep(now[n], p, bits, n)
    BY <2>1, <2>6
  <2>8. UnfineFrom(s, p, bits, n) = was[n] /\ UnfineFrom(s, p, bits, n + 1) = now[n + 1]
    BY <1>4 DEF was, now
  <2> QED
    BY <2>5, <2>7, <2>8
<1> QED
  BY <1>5, <1>6

(* The last bits of the energies, written. *)
LEMMA FinalGoes ==
  ASSUME NEW o, NEW p, NEW bits, NEW priority, NEW i \in Nat
  PROVE  FinalFrom(o, p, bits, priority, 0) = o /\ FinalFrom(o, p, bits, priority, i + 1) = FinalStep(FinalFrom(o, p, bits, priority, i), p, bits, priority, i)
<1> DEFINE U(f, m) == f = [k \in 0..m |-> IF k = 0 THEN o ELSE FinalStep(f[k - 1], p, bits, priority, k - 1)]
           T == {m \in Nat : \E f : U(f, m)}
           t(n) == CHOOSE h : U(h, n)
<1>1. 0 \in T
  <2> DEFINE g == [k \in 0..0 |-> o]
  <2>1. U(g, 0)
    OBVIOUS
  <2> QED
    BY <2>1
<1>2. ASSUME NEW m \in Nat, m \in T
      PROVE  m + 1 \in T
  <2>1. PICK f : U(f, m)
    BY <1>2
  <2> DEFINE g == [k \in 0..(m + 1) |-> IF k = m + 1 THEN FinalStep(f[m], p, bits, priority, m) ELSE f[k]]
  <2>2. ASSUME NEW k \in 0..(m + 1)
        PROVE  g[k] = IF k = 0 THEN o ELSE FinalStep(g[k - 1], p, bits, priority, k - 1)
    <3>1. CASE k = m + 1
      <4>1. k # 0 /\ k - 1 = m /\ g[k] = FinalStep(f[m], p, bits, priority, m) /\ g[m] = f[m]
        BY <3>1
      <4> HIDE DEF g
      <4> QED
        BY <4>1
    <3>2. CASE k = 0
      BY <3>2, <2>1
    <3>3. CASE k \in 1..m
      <4>1. k - 1 \in 0..(m + 1) /\ g[k - 1] = f[k - 1] /\ g[k] = f[k]
        BY <3>3
      <4>2. f[k] = FinalStep(f[k - 1], p, bits, priority, k - 1)
        BY <3>3, <2>1
      <4> HIDE DEF g
      <4> QED
        BY <4>1, <4>2, <3>3
    <3> QED
      BY <3>1, <3>2, <3>3
  <2>3. U(g, m + 1)
    BY <2>2
  <2> HIDE DEF g
  <2>4. \E h : U(h, m + 1)
    BY <2>3
  <2> HIDE DEF U
  <2>5. m + 1 \in Nat
    OBVIOUS
  <2> QED
    BY <2>4, <2>5
<1>3. T = Nat
  <2>1. T \in SUBSET Nat
    OBVIOUS
  <2> HIDE DEF T
  <2> QED
    BY <1>1, <1>2, <2>1, NatSetInduction
<1>4. ASSUME NEW n \in Nat
      PROVE  U(t(n), n) /\ FinalFrom(o, p, bits, priority, n) = t(n)[n]
  <2>1. \E h : U(h, n)
    BY <1>3
  <2>2. U(t(n), n)
    <3> HIDE DEF U
    <3> QED
      BY <2>1
  <2>3. FinalFrom(o, p, bits, priority, n) = t(n)[n]
    BY DEF FinalFrom
  <2> QED
    BY <2>2, <2>3
<1> HIDE DEF t
<1>5. FinalFrom(o, p, bits, priority, 0) = o
  BY <1>4
<1>6. ASSUME NEW n \in Nat
      PROVE  FinalFrom(o, p, bits, priority, n + 1) = FinalStep(FinalFrom(o, p, bits, priority, n), p, bits, priority, n)
  <2> DEFINE was == t(n)
             now == t(n + 1)
             S == {k \in Nat : k <= n => was[k] = now[k]}
  <2>1. U(was, n) /\ U(now, n + 1) /\ n + 1 \in Nat
    <3>1. n + 1 \in Nat
      OBVIOUS
    <3> HIDE DEF U
    <3> QED
      BY <1>4, <3>1
  <2> HIDE DEF was, now
  <2>2. 0 \in S
    BY <2>1
  <2>3. ASSUME NEW k \in Nat, k \in S
        PROVE  k + 1 \in S
    <3> SUFFICES ASSUME k + 1 <= n PROVE was[k + 1] = now[k + 1]
      OBVIOUS
    <3>1. k + 1 \in 0..n /\ k + 1 \in 0..(n + 1) /\ k + 1 # 0 /\ (k + 1) - 1 = k /\ was[k] = now[k]
      BY <2>3
    <3>2. was[k + 1] = FinalStep(was[k], p, bits, priority, k)
      BY <2>1, <3>1
    <3>3. now[k + 1] = FinalStep(now[k], p, bits, priority, k)
      BY <2>1, <3>1
    <3> QED
      BY <3>1, <3>2, <3>3
  <2>4. S = Nat
    <3>1. S \in SUBSET Nat
      OBVIOUS
    <3> HIDE DEF S
    <3> QED
      BY <2>2, <2>3, <3>1, NatSetInduction
  <2>5. was[n] = now[n]
    BY <2>4
  <2>6. n + 1 \in 0..(n + 1) /\ n + 1 # 0 /\ (n + 1) - 1 = n
    OBVIOUS
  <2>7. now[n + 1] = FinalStep(now[n], p, bits, priority, n)
    BY <2>1, <2>6
  <2>8. FinalFrom(o, p, bits, priority, n) = was[n] /\ FinalFrom(o, p, bits, priority, n + 1) = now[n + 1]
    BY <1>4 DEF was, now
  <2> QED
    BY <2>5, <2>7, <2>8
<1> QED
  BY <1>5, <1>6

(* The last bits of the energies, read. *)
LEMMA UnfinalGoes ==
  ASSUME NEW o, NEW p, NEW bits, NEW priority, NEW i \in Nat
  PROVE  UnfinalFrom(o, p, bits, priority, 0) = o /\ UnfinalFrom(o, p, bits, priority, i + 1) = UnfinalStep(UnfinalFrom(o, p, bits, priority, i), p, bits, priority, i)
<1> DEFINE U(f, m) == f = [k \in 0..m |-> IF k = 0 THEN o ELSE UnfinalStep(f[k - 1], p, bits, priority, k - 1)]
           T == {m \in Nat : \E f : U(f, m)}
           t(n) == CHOOSE h : U(h, n)
<1>1. 0 \in T
  <2> DEFINE g == [k \in 0..0 |-> o]
  <2>1. U(g, 0)
    OBVIOUS
  <2> QED
    BY <2>1
<1>2. ASSUME NEW m \in Nat, m \in T
      PROVE  m + 1 \in T
  <2>1. PICK f : U(f, m)
    BY <1>2
  <2> DEFINE g == [k \in 0..(m + 1) |-> IF k = m + 1 THEN UnfinalStep(f[m], p, bits, priority, m) ELSE f[k]]
  <2>2. ASSUME NEW k \in 0..(m + 1)
        PROVE  g[k] = IF k = 0 THEN o ELSE UnfinalStep(g[k - 1], p, bits, priority, k - 1)
    <3>1. CASE k = m + 1
      <4>1. k # 0 /\ k - 1 = m /\ g[k] = UnfinalStep(f[m], p, bits, priority, m) /\ g[m] = f[m]
        BY <3>1
      <4> HIDE DEF g
      <4> QED
        BY <4>1
    <3>2. CASE k = 0
      BY <3>2, <2>1
    <3>3. CASE k \in 1..m
      <4>1. k - 1 \in 0..(m + 1) /\ g[k - 1] = f[k - 1] /\ g[k] = f[k]
        BY <3>3
      <4>2. f[k] = UnfinalStep(f[k - 1], p, bits, priority, k - 1)
        BY <3>3, <2>1
      <4> HIDE DEF g
      <4> QED
        BY <4>1, <4>2, <3>3
    <3> QED
      BY <3>1, <3>2, <3>3
  <2>3. U(g, m + 1)
    BY <2>2
  <2> HIDE DEF g
  <2>4. \E h : U(h, m + 1)
    BY <2>3
  <2> HIDE DEF U
  <2>5. m + 1 \in Nat
    OBVIOUS
  <2> QED
    BY <2>4, <2>5
<1>3. T = Nat
  <2>1. T \in SUBSET Nat
    OBVIOUS
  <2> HIDE DEF T
  <2> QED
    BY <1>1, <1>2, <2>1, NatSetInduction
<1>4. ASSUME NEW n \in Nat
      PROVE  U(t(n), n) /\ UnfinalFrom(o, p, bits, priority, n) = t(n)[n]
  <2>1. \E h : U(h, n)
    BY <1>3
  <2>2. U(t(n), n)
    <3> HIDE DEF U
    <3> QED
      BY <2>1
  <2>3. UnfinalFrom(o, p, bits, priority, n) = t(n)[n]
    BY DEF UnfinalFrom
  <2> QED
    BY <2>2, <2>3
<1> HIDE DEF t
<1>5. UnfinalFrom(o, p, bits, priority, 0) = o
  BY <1>4
<1>6. ASSUME NEW n \in Nat
      PROVE  UnfinalFrom(o, p, bits, priority, n + 1) = UnfinalStep(UnfinalFrom(o, p, bits, priority, n), p, bits, priority, n)
  <2> DEFINE was == t(n)
             now == t(n + 1)
             S == {k \in Nat : k <= n => was[k] = now[k]}
  <2>1. U(was, n) /\ U(now, n + 1) /\ n + 1 \in Nat
    <3>1. n + 1 \in Nat
      OBVIOUS
    <3> HIDE DEF U
    <3> QED
      BY <1>4, <3>1
  <2> HIDE DEF was, now
  <2>2. 0 \in S
    BY <2>1
  <2>3. ASSUME NEW k \in Nat, k \in S
        PROVE  k + 1 \in S
    <3> SUFFICES ASSUME k + 1 <= n PROVE was[k + 1] = now[k + 1]
      OBVIOUS
    <3>1. k + 1 \in 0..n /\ k + 1 \in 0..(n + 1) /\ k + 1 # 0 /\ (k + 1) - 1 = k /\ was[k] = now[k]
      BY <2>3
    <3>2. was[k + 1] = UnfinalStep(was[k], p, bits, priority, k)
      BY <2>1, <3>1
    <3>3. now[k + 1] = UnfinalStep(now[k], p, bits, priority, k)
      BY <2>1, <3>1
    <3> QED
      BY <3>1, <3>2, <3>3
  <2>4. S = Nat
    <3>1. S \in SUBSET Nat
      OBVIOUS
    <3> HIDE DEF S
    <3> QED
      BY <2>2, <2>3, <3>1, NatSetInduction
  <2>5. was[n] = now[n]
    BY <2>4
  <2>6. n + 1 \in 0..(n + 1) /\ n + 1 # 0 /\ (n + 1) - 1 = n
    OBVIOUS
  <2>7. now[n + 1] = UnfinalStep(now[n], p, bits, priority, n)
    BY <2>1, <2>6
  <2>8. UnfinalFrom(o, p, bits, priority, n) = was[n] /\ UnfinalFrom(o, p, bits, priority, n + 1) = now[n + 1]
    BY <1>4 DEF was, now
  <2> QED
    BY <2>5, <2>7, <2>8
<1> QED
  BY <1>5, <1>6

(* Time-frequency flags, written. *)
LEMMA EncTfGoes ==
  ASSUME NEW r, NEW want, NEW transient, NEW budget, NEW i \in Nat
  PROVE  EncTf(r, want, transient, budget, 0) = r /\ EncTf(r, want, transient, budget, i + 1) = EncTfStep(EncTf(r, want, transient, budget, i), want, transient, budget, i)
<1> DEFINE U(f, m) == f = [k \in 0..m |-> IF k = 0 THEN r ELSE EncTfStep(f[k - 1], want, transient, budget, k - 1)]
           T == {m \in Nat : \E f : U(f, m)}
           t(n) == CHOOSE h : U(h, n)
<1>1. 0 \in T
  <2> DEFINE g == [k \in 0..0 |-> r]
  <2>1. U(g, 0)
    OBVIOUS
  <2> QED
    BY <2>1
<1>2. ASSUME NEW m \in Nat, m \in T
      PROVE  m + 1 \in T
  <2>1. PICK f : U(f, m)
    BY <1>2
  <2> DEFINE g == [k \in 0..(m + 1) |-> IF k = m + 1 THEN EncTfStep(f[m], want, transient, budget, m) ELSE f[k]]
  <2>2. ASSUME NEW k \in 0..(m + 1)
        PROVE  g[k] = IF k = 0 THEN r ELSE EncTfStep(g[k - 1], want, transient, budget, k - 1)
    <3>1. CASE k = m + 1
      <4>1. k # 0 /\ k - 1 = m /\ g[k] = EncTfStep(f[m], want, transient, budget, m) /\ g[m] = f[m]
        BY <3>1
      <4> HIDE DEF g
      <4> QED
        BY <4>1
    <3>2. CASE k = 0
      BY <3>2, <2>1
    <3>3. CASE k \in 1..m
      <4>1. k - 1 \in 0..(m + 1) /\ g[k - 1] = f[k - 1] /\ g[k] = f[k]
        BY <3>3
      <4>2. f[k] = EncTfStep(f[k - 1], want, transient, budget, k - 1)
        BY <3>3, <2>1
      <4> HIDE DEF g
      <4> QED
        BY <4>1, <4>2, <3>3
    <3> QED
      BY <3>1, <3>2, <3>3
  <2>3. U(g, m + 1)
    BY <2>2
  <2> HIDE DEF g
  <2>4. \E h : U(h, m + 1)
    BY <2>3
  <2> HIDE DEF U
  <2>5. m + 1 \in Nat
    OBVIOUS
  <2> QED
    BY <2>4, <2>5
<1>3. T = Nat
  <2>1. T \in SUBSET Nat
    OBVIOUS
  <2> HIDE DEF T
  <2> QED
    BY <1>1, <1>2, <2>1, NatSetInduction
<1>4. ASSUME NEW n \in Nat
      PROVE  U(t(n), n) /\ EncTf(r, want, transient, budget, n) = t(n)[n]
  <2>1. \E h : U(h, n)
    BY <1>3
  <2>2. U(t(n), n)
    <3> HIDE DEF U
    <3> QED
      BY <2>1
  <2>3. EncTf(r, want, transient, budget, n) = t(n)[n]
    BY DEF EncTf
  <2> QED
    BY <2>2, <2>3
<1> HIDE DEF t
<1>5. EncTf(r, want, transient, budget, 0) = r
  BY <1>4
<1>6. ASSUME NEW n \in Nat
      PROVE  EncTf(r, want, transient, budget, n + 1) = EncTfStep(EncTf(r, want, transient, budget, n), want, transient, budget, n)
  <2> DEFINE was == t(n)
             now == t(n + 1)
             S == {k \in Nat : k <= n => was[k] = now[k]}
  <2>1. U(was, n) /\ U(now, n + 1) /\ n + 1 \in Nat
    <3>1. n + 1 \in Nat
      OBVIOUS
    <3> HIDE DEF U
    <3> QED
      BY <1>4, <3>1
  <2> HIDE DEF was, now
  <2>2. 0 \in S
    BY <2>1
  <2>3. ASSUME NEW k \in Nat, k \in S
        PROVE  k + 1 \in S
    <3> SUFFICES ASSUME k + 1 <= n PROVE was[k + 1] = now[k + 1]
      OBVIOUS
    <3>1. k + 1 \in 0..n /\ k + 1 \in 0..(n + 1) /\ k + 1 # 0 /\ (k + 1) - 1 = k /\ was[k] = now[k]
      BY <2>3
    <3>2. was[k + 1] = EncTfStep(was[k], want, transient, budget, k)
      BY <2>1, <3>1
    <3>3. now[k + 1] = EncTfStep(now[k], want, transient, budget, k)
      BY <2>1, <3>1
    <3> QED
      BY <3>1, <3>2, <3>3
  <2>4. S = Nat
    <3>1. S \in SUBSET Nat
      OBVIOUS
    <3> HIDE DEF S
    <3> QED
      BY <2>2, <2>3, <3>1, NatSetInduction
  <2>5. was[n] = now[n]
    BY <2>4
  <2>6. n + 1 \in 0..(n + 1) /\ n + 1 # 0 /\ (n + 1) - 1 = n
    OBVIOUS
  <2>7. now[n + 1] = EncTfStep(now[n], want, transient, budget, n)
    BY <2>1, <2>6
  <2>8. EncTf(r, want, transient, budget, n) = was[n] /\ EncTf(r, want, transient, budget, n + 1) = now[n + 1]
    BY <1>4 DEF was, now
  <2> QED
    BY <2>5, <2>7, <2>8
<1> QED
  BY <1>5, <1>6

(* Time-frequency flags, read. *)
LEMMA DecTfGoes ==
  ASSUME NEW r, NEW transient, NEW budget, NEW i \in Nat
  PROVE  DecTf(r, transient, budget, 0) = r /\ DecTf(r, transient, budget, i + 1) = DecTfStep(DecTf(r, transient, budget, i), transient, budget, i)
<1> DEFINE U(f, m) == f = [k \in 0..m |-> IF k = 0 THEN r ELSE DecTfStep(f[k - 1], transient, budget, k - 1)]
           T == {m \in Nat : \E f : U(f, m)}
           t(n) == CHOOSE h : U(h, n)
<1>1. 0 \in T
  <2> DEFINE g == [k \in 0..0 |-> r]
  <2>1. U(g, 0)
    OBVIOUS
  <2> QED
    BY <2>1
<1>2. ASSUME NEW m \in Nat, m \in T
      PROVE  m + 1 \in T
  <2>1. PICK f : U(f, m)
    BY <1>2
  <2> DEFINE g == [k \in 0..(m + 1) |-> IF k = m + 1 THEN DecTfStep(f[m], transient, budget, m) ELSE f[k]]
  <2>2. ASSUME NEW k \in 0..(m + 1)
        PROVE  g[k] = IF k = 0 THEN r ELSE DecTfStep(g[k - 1], transient, budget, k - 1)
    <3>1. CASE k = m + 1
      <4>1. k # 0 /\ k - 1 = m /\ g[k] = DecTfStep(f[m], transient, budget, m) /\ g[m] = f[m]
        BY <3>1
      <4> HIDE DEF g
      <4> QED
        BY <4>1
    <3>2. CASE k = 0
      BY <3>2, <2>1
    <3>3. CASE k \in 1..m
      <4>1. k - 1 \in 0..(m + 1) /\ g[k - 1] = f[k - 1] /\ g[k] = f[k]
        BY <3>3
      <4>2. f[k] = DecTfStep(f[k - 1], transient, budget, k - 1)
        BY <3>3, <2>1
      <4> HIDE DEF g
      <4> QED
        BY <4>1, <4>2, <3>3
    <3> QED
      BY <3>1, <3>2, <3>3
  <2>3. U(g, m + 1)
    BY <2>2
  <2> HIDE DEF g
  <2>4. \E h : U(h, m + 1)
    BY <2>3
  <2> HIDE DEF U
  <2>5. m + 1 \in Nat
    OBVIOUS
  <2> QED
    BY <2>4, <2>5
<1>3. T = Nat
  <2>1. T \in SUBSET Nat
    OBVIOUS
  <2> HIDE DEF T
  <2> QED
    BY <1>1, <1>2, <2>1, NatSetInduction
<1>4. ASSUME NEW n \in Nat
      PROVE  U(t(n), n) /\ DecTf(r, transient, budget, n) = t(n)[n]
  <2>1. \E h : U(h, n)
    BY <1>3
  <2>2. U(t(n), n)
    <3> HIDE DEF U
    <3> QED
      BY <2>1
  <2>3. DecTf(r, transient, budget, n) = t(n)[n]
    BY DEF DecTf
  <2> QED
    BY <2>2, <2>3
<1> HIDE DEF t
<1>5. DecTf(r, transient, budget, 0) = r
  BY <1>4
<1>6. ASSUME NEW n \in Nat
      PROVE  DecTf(r, transient, budget, n + 1) = DecTfStep(DecTf(r, transient, budget, n), transient, budget, n)
  <2> DEFINE was == t(n)
             now == t(n + 1)
             S == {k \in Nat : k <= n => was[k] = now[k]}
  <2>1. U(was, n) /\ U(now, n + 1) /\ n + 1 \in Nat
    <3>1. n + 1 \in Nat
      OBVIOUS
    <3> HIDE DEF U
    <3> QED
      BY <1>4, <3>1
  <2> HIDE DEF was, now
  <2>2. 0 \in S
    BY <2>1
  <2>3. ASSUME NEW k \in Nat, k \in S
        PROVE  k + 1 \in S
    <3> SUFFICES ASSUME k + 1 <= n PROVE was[k + 1] = now[k + 1]
      OBVIOUS
    <3>1. k + 1 \in 0..n /\ k + 1 \in 0..(n + 1) /\ k + 1 # 0 /\ (k + 1) - 1 = k /\ was[k] = now[k]
      BY <2>3
    <3>2. was[k + 1] = DecTfStep(was[k], transient, budget, k)
      BY <2>1, <3>1
    <3>3. now[k + 1] = DecTfStep(now[k], transient, budget, k)
      BY <2>1, <3>1
    <3> QED
      BY <3>1, <3>2, <3>3
  <2>4. S = Nat
    <3>1. S \in SUBSET Nat
      OBVIOUS
    <3> HIDE DEF S
    <3> QED
      BY <2>2, <2>3, <3>1, NatSetInduction
  <2>5. was[n] = now[n]
    BY <2>4
  <2>6. n + 1 \in 0..(n + 1) /\ n + 1 # 0 /\ (n + 1) - 1 = n
    OBVIOUS
  <2>7. now[n + 1] = DecTfStep(now[n], transient, budget, n)
    BY <2>1, <2>6
  <2>8. DecTf(r, transient, budget, n) = was[n] /\ DecTf(r, transient, budget, n + 1) = now[n + 1]
    BY <1>4 DEF was, now
  <2> QED
    BY <2>5, <2>7, <2>8
<1> QED
  BY <1>5, <1>6

(* The boosts of a band, written. *)
LEMMA EncBoostsGoes ==
  ASSUME NEW b, NEW q, NEW i \in Nat
  PROVE  EncBoosts(b, q, 0) = b /\ EncBoosts(b, q, i + 1) = EncOne(EncBoosts(b, q, i), q)
<1> DEFINE U(f, m) == f = [k \in 0..m |-> IF k = 0 THEN b ELSE EncOne(f[k - 1], q)]
           T == {m \in Nat : \E f : U(f, m)}
           t(n) == CHOOSE h : U(h, n)
<1>1. 0 \in T
  <2> DEFINE g == [k \in 0..0 |-> b]
  <2>1. U(g, 0)
    OBVIOUS
  <2> QED
    BY <2>1
<1>2. ASSUME NEW m \in Nat, m \in T
      PROVE  m + 1 \in T
  <2>1. PICK f : U(f, m)
    BY <1>2
  <2> DEFINE g == [k \in 0..(m + 1) |-> IF k = m + 1 THEN EncOne(f[m], q) ELSE f[k]]
  <2>2. ASSUME NEW k \in 0..(m + 1)
        PROVE  g[k] = IF k = 0 THEN b ELSE EncOne(g[k - 1], q)
    <3>1. CASE k = m + 1
      <4>1. k # 0 /\ k - 1 = m /\ g[k] = EncOne(f[m], q) /\ g[m] = f[m]
        BY <3>1
      <4> HIDE DEF g
      <4> QED
        BY <4>1
    <3>2. CASE k = 0
      BY <3>2, <2>1
    <3>3. CASE k \in 1..m
      <4>1. k - 1 \in 0..(m + 1) /\ g[k - 1] = f[k - 1] /\ g[k] = f[k]
        BY <3>3
      <4>2. f[k] = EncOne(f[k - 1], q)
        BY <3>3, <2>1
      <4> HIDE DEF g
      <4> QED
        BY <4>1, <4>2, <3>3
    <3> QED
      BY <3>1, <3>2, <3>3
  <2>3. U(g, m + 1)
    BY <2>2
  <2> HIDE DEF g
  <2>4. \E h : U(h, m + 1)
    BY <2>3
  <2> HIDE DEF U
  <2>5. m + 1 \in Nat
    OBVIOUS
  <2> QED
    BY <2>4, <2>5
<1>3. T = Nat
  <2>1. T \in SUBSET Nat
    OBVIOUS
  <2> HIDE DEF T
  <2> QED
    BY <1>1, <1>2, <2>1, NatSetInduction
<1>4. ASSUME NEW n \in Nat
      PROVE  U(t(n), n) /\ EncBoosts(b, q, n) = t(n)[n]
  <2>1. \E h : U(h, n)
    BY <1>3
  <2>2. U(t(n), n)
    <3> HIDE DEF U
    <3> QED
      BY <2>1
  <2>3. EncBoosts(b, q, n) = t(n)[n]
    BY DEF EncBoosts
  <2> QED
    BY <2>2, <2>3
<1> HIDE DEF t
<1>5. EncBoosts(b, q, 0) = b
  BY <1>4
<1>6. ASSUME NEW n \in Nat
      PROVE  EncBoosts(b, q, n + 1) = EncOne(EncBoosts(b, q, n), q)
  <2> DEFINE was == t(n)
             now == t(n + 1)
             S == {k \in Nat : k <= n => was[k] = now[k]}
  <2>1. U(was, n) /\ U(now, n + 1) /\ n + 1 \in Nat
    <3>1. n + 1 \in Nat
      OBVIOUS
    <3> HIDE DEF U
    <3> QED
      BY <1>4, <3>1
  <2> HIDE DEF was, now
  <2>2. 0 \in S
    BY <2>1
  <2>3. ASSUME NEW k \in Nat, k \in S
        PROVE  k + 1 \in S
    <3> SUFFICES ASSUME k + 1 <= n PROVE was[k + 1] = now[k + 1]
      OBVIOUS
    <3>1. k + 1 \in 0..n /\ k + 1 \in 0..(n + 1) /\ k + 1 # 0 /\ (k + 1) - 1 = k /\ was[k] = now[k]
      BY <2>3
    <3>2. was[k + 1] = EncOne(was[k], q)
      BY <2>1, <3>1
    <3>3. now[k + 1] = EncOne(now[k], q)
      BY <2>1, <3>1
    <3> QED
      BY <3>1, <3>2, <3>3
  <2>4. S = Nat
    <3>1. S \in SUBSET Nat
      OBVIOUS
    <3> HIDE DEF S
    <3> QED
      BY <2>2, <2>3, <3>1, NatSetInduction
  <2>5. was[n] = now[n]
    BY <2>4
  <2>6. n + 1 \in 0..(n + 1) /\ n + 1 # 0 /\ (n + 1) - 1 = n
    OBVIOUS
  <2>7. now[n + 1] = EncOne(now[n], q)
    BY <2>1, <2>6
  <2>8. EncBoosts(b, q, n) = was[n] /\ EncBoosts(b, q, n + 1) = now[n + 1]
    BY <1>4 DEF was, now
  <2> QED
    BY <2>5, <2>7, <2>8
<1> QED
  BY <1>5, <1>6

(* The boosts of a band, read. *)
LEMMA DecBoostsGoes ==
  ASSUME NEW b, NEW q, NEW i \in Nat
  PROVE  DecBoosts(b, q, 0) = b /\ DecBoosts(b, q, i + 1) = DecOne(DecBoosts(b, q, i), q)
<1> DEFINE U(f, m) == f = [k \in 0..m |-> IF k = 0 THEN b ELSE DecOne(f[k - 1], q)]
           T == {m \in Nat : \E f : U(f, m)}
           t(n) == CHOOSE h : U(h, n)
<1>1. 0 \in T
  <2> DEFINE g == [k \in 0..0 |-> b]
  <2>1. U(g, 0)
    OBVIOUS
  <2> QED
    BY <2>1
<1>2. ASSUME NEW m \in Nat, m \in T
      PROVE  m + 1 \in T
  <2>1. PICK f : U(f, m)
    BY <1>2
  <2> DEFINE g == [k \in 0..(m + 1) |-> IF k = m + 1 THEN DecOne(f[m], q) ELSE f[k]]
  <2>2. ASSUME NEW k \in 0..(m + 1)
        PROVE  g[k] = IF k = 0 THEN b ELSE DecOne(g[k - 1], q)
    <3>1. CASE k = m + 1
      <4>1. k # 0 /\ k - 1 = m /\ g[k] = DecOne(f[m], q) /\ g[m] = f[m]
        BY <3>1
      <4> HIDE DEF g
      <4> QED
        BY <4>1
    <3>2. CASE k = 0
      BY <3>2, <2>1
    <3>3. CASE k \in 1..m
      <4>1. k - 1 \in 0..(m + 1) /\ g[k - 1] = f[k - 1] /\ g[k] = f[k]
        BY <3>3
      <4>2. f[k] = DecOne(f[k - 1], q)
        BY <3>3, <2>1
      <4> HIDE DEF g
      <4> QED
        BY <4>1, <4>2, <3>3
    <3> QED
      BY <3>1, <3>2, <3>3
  <2>3. U(g, m + 1)
    BY <2>2
  <2> HIDE DEF g
  <2>4. \E h : U(h, m + 1)
    BY <2>3
  <2> HIDE DEF U
  <2>5. m + 1 \in Nat
    OBVIOUS
  <2> QED
    BY <2>4, <2>5
<1>3. T = Nat
  <2>1. T \in SUBSET Nat
    OBVIOUS
  <2> HIDE DEF T
  <2> QED
    BY <1>1, <1>2, <2>1, NatSetInduction
<1>4. ASSUME NEW n \in Nat
      PROVE  U(t(n), n) /\ DecBoosts(b, q, n) = t(n)[n]
  <2>1. \E h : U(h, n)
    BY <1>3
  <2>2. U(t(n), n)
    <3> HIDE DEF U
    <3> QED
      BY <2>1
  <2>3. DecBoosts(b, q, n) = t(n)[n]
    BY DEF DecBoosts
  <2> QED
    BY <2>2, <2>3
<1> HIDE DEF t
<1>5. DecBoosts(b, q, 0) = b
  BY <1>4
<1>6. ASSUME NEW n \in Nat
      PROVE  DecBoosts(b, q, n + 1) = DecOne(DecBoosts(b, q, n), q)
  <2> DEFINE was == t(n)
             now == t(n + 1)
             S == {k \in Nat : k <= n => was[k] = now[k]}
  <2>1. U(was, n) /\ U(now, n + 1) /\ n + 1 \in Nat
    <3>1. n + 1 \in Nat
      OBVIOUS
    <3> HIDE DEF U
    <3> QED
      BY <1>4, <3>1
  <2> HIDE DEF was, now
  <2>2. 0 \in S
    BY <2>1
  <2>3. ASSUME NEW k \in Nat, k \in S
        PROVE  k + 1 \in S
    <3> SUFFICES ASSUME k + 1 <= n PROVE was[k + 1] = now[k + 1]
      OBVIOUS
    <3>1. k + 1 \in 0..n /\ k + 1 \in 0..(n + 1) /\ k + 1 # 0 /\ (k + 1) - 1 = k /\ was[k] = now[k]
      BY <2>3
    <3>2. was[k + 1] = DecOne(was[k], q)
      BY <2>1, <3>1
    <3>3. now[k + 1] = DecOne(now[k], q)
      BY <2>1, <3>1
    <3> QED
      BY <3>1, <3>2, <3>3
  <2>4. S = Nat
    <3>1. S \in SUBSET Nat
      OBVIOUS
    <3> HIDE DEF S
    <3> QED
      BY <2>2, <2>3, <3>1, NatSetInduction
  <2>5. was[n] = now[n]
    BY <2>4
  <2>6. n + 1 \in 0..(n + 1) /\ n + 1 # 0 /\ (n + 1) - 1 = n
    OBVIOUS
  <2>7. now[n + 1] = DecOne(now[n], q)
    BY <2>1, <2>6
  <2>8. DecBoosts(b, q, n) = was[n] /\ DecBoosts(b, q, n + 1) = now[n + 1]
    BY <1>4 DEF was, now
  <2> QED
    BY <2>5, <2>7, <2>8
<1> QED
  BY <1>5, <1>6

(* The boosts of all bands, written. *)
LEMMA EncDynGoes ==
  ASSUME NEW d, NEW p, NEW want, NEW i \in Nat
  PROVE  EncDynalloc(d, p, want, 0) = d /\ EncDynalloc(d, p, want, i + 1) = EncDynStep(EncDynalloc(d, p, want, i), p, want, i)
<1> DEFINE U(f, m) == f = [k \in 0..m |-> IF k = 0 THEN d ELSE EncDynStep(f[k - 1], p, want, k - 1)]
           T == {m \in Nat : \E f : U(f, m)}
           t(n) == CHOOSE h : U(h, n)
<1>1. 0 \in T
  <2> DEFINE g == [k \in 0..0 |-> d]
  <2>1. U(g, 0)
    OBVIOUS
  <2> QED
    BY <2>1
<1>2. ASSUME NEW m \in Nat, m \in T
      PROVE  m + 1 \in T
  <2>1. PICK f : U(f, m)
    BY <1>2
  <2> DEFINE g == [k \in 0..(m + 1) |-> IF k = m + 1 THEN EncDynStep(f[m], p, want, m) ELSE f[k]]
  <2>2. ASSUME NEW k \in 0..(m + 1)
        PROVE  g[k] = IF k = 0 THEN d ELSE EncDynStep(g[k - 1], p, want, k - 1)
    <3>1. CASE k = m + 1
      <4>1. k # 0 /\ k - 1 = m /\ g[k] = EncDynStep(f[m], p, want, m) /\ g[m] = f[m]
        BY <3>1
      <4> HIDE DEF g
      <4> QED
        BY <4>1
    <3>2. CASE k = 0
      BY <3>2, <2>1
    <3>3. CASE k \in 1..m
      <4>1. k - 1 \in 0..(m + 1) /\ g[k - 1] = f[k - 1] /\ g[k] = f[k]
        BY <3>3
      <4>2. f[k] = EncDynStep(f[k - 1], p, want, k - 1)
        BY <3>3, <2>1
      <4> HIDE DEF g
      <4> QED
        BY <4>1, <4>2, <3>3
    <3> QED
      BY <3>1, <3>2, <3>3
  <2>3. U(g, m + 1)
    BY <2>2
  <2> HIDE DEF g
  <2>4. \E h : U(h, m + 1)
    BY <2>3
  <2> HIDE DEF U
  <2>5. m + 1 \in Nat
    OBVIOUS
  <2> QED
    BY <2>4, <2>5
<1>3. T = Nat
  <2>1. T \in SUBSET Nat
    OBVIOUS
  <2> HIDE DEF T
  <2> QED
    BY <1>1, <1>2, <2>1, NatSetInduction
<1>4. ASSUME NEW n \in Nat
      PROVE  U(t(n), n) /\ EncDynalloc(d, p, want, n) = t(n)[n]
  <2>1. \E h : U(h, n)
    BY <1>3
  <2>2. U(t(n), n)
    <3> HIDE DEF U
    <3> QED
      BY <2>1
  <2>3. EncDynalloc(d, p, want, n) = t(n)[n]
    BY DEF EncDynalloc
  <2> QED
    BY <2>2, <2>3
<1> HIDE DEF t
<1>5. EncDynalloc(d, p, want, 0) = d
  BY <1>4
<1>6. ASSUME NEW n \in Nat
      PROVE  EncDynalloc(d, p, want, n + 1) = EncDynStep(EncDynalloc(d, p, want, n), p, want, n)
  <2> DEFINE was == t(n)
             now == t(n + 1)
             S == {k \in Nat : k <= n => was[k] = now[k]}
  <2>1. U(was, n) /\ U(now, n + 1) /\ n + 1 \in Nat
    <3>1. n + 1 \in Nat
      OBVIOUS
    <3> HIDE DEF U
    <3> QED
      BY <1>4, <3>1
  <2> HIDE DEF was, now
  <2>2. 0 \in S
    BY <2>1
  <2>3. ASSUME NEW k \in Nat, k \in S
        PROVE  k + 1 \in S
    <3> SUFFICES ASSUME k + 1 <= n PROVE was[k + 1] = now[k + 1]
      OBVIOUS
    <3>1. k + 1 \in 0..n /\ k + 1 \in 0..(n + 1) /\ k + 1 # 0 /\ (k + 1) - 1 = k /\ was[k] = now[k]
      BY <2>3
    <3>2. was[k + 1] = EncDynStep(was[k], p, want, k)
      BY <2>1, <3>1
    <3>3. now[k + 1] = EncDynStep(now[k], p, want, k)
      BY <2>1, <3>1
    <3> QED
      BY <3>1, <3>2, <3>3
  <2>4. S = Nat
    <3>1. S \in SUBSET Nat
      OBVIOUS
    <3> HIDE DEF S
    <3> QED
      BY <2>2, <2>3, <3>1, NatSetInduction
  <2>5. was[n] = now[n]
    BY <2>4
  <2>6. n + 1 \in 0..(n + 1) /\ n + 1 # 0 /\ (n + 1) - 1 = n
    OBVIOUS
  <2>7. now[n + 1] = EncDynStep(now[n], p, want, n)
    BY <2>1, <2>6
  <2>8. EncDynalloc(d, p, want, n) = was[n] /\ EncDynalloc(d, p, want, n + 1) = now[n + 1]
    BY <1>4 DEF was, now
  <2> QED
    BY <2>5, <2>7, <2>8
<1> QED
  BY <1>5, <1>6

(* The boosts of all bands, read. *)
LEMMA DecDynGoes ==
  ASSUME NEW d, NEW p, NEW i \in Nat
  PROVE  DecDynalloc(d, p, 0) = d /\ DecDynalloc(d, p, i + 1) = DecDynStep(DecDynalloc(d, p, i), p, i)
<1> DEFINE U(f, m) == f = [k \in 0..m |-> IF k = 0 THEN d ELSE DecDynStep(f[k - 1], p, k - 1)]
           T == {m \in Nat : \E f : U(f, m)}
           t(n) == CHOOSE h : U(h, n)
<1>1. 0 \in T
  <2> DEFINE g == [k \in 0..0 |-> d]
  <2>1. U(g, 0)
    OBVIOUS
  <2> QED
    BY <2>1
<1>2. ASSUME NEW m \in Nat, m \in T
      PROVE  m + 1 \in T
  <2>1. PICK f : U(f, m)
    BY <1>2
  <2> DEFINE g == [k \in 0..(m + 1) |-> IF k = m + 1 THEN DecDynStep(f[m], p, m) ELSE f[k]]
  <2>2. ASSUME NEW k \in 0..(m + 1)
        PROVE  g[k] = IF k = 0 THEN d ELSE DecDynStep(g[k - 1], p, k - 1)
    <3>1. CASE k = m + 1
      <4>1. k # 0 /\ k - 1 = m /\ g[k] = DecDynStep(f[m], p, m) /\ g[m] = f[m]
        BY <3>1
      <4> HIDE DEF g
      <4> QED
        BY <4>1
    <3>2. CASE k = 0
      BY <3>2, <2>1
    <3>3. CASE k \in 1..m
      <4>1. k - 1 \in 0..(m + 1) /\ g[k - 1] = f[k - 1] /\ g[k] = f[k]
        BY <3>3
      <4>2. f[k] = DecDynStep(f[k - 1], p, k - 1)
        BY <3>3, <2>1
      <4> HIDE DEF g
      <4> QED
        BY <4>1, <4>2, <3>3
    <3> QED
      BY <3>1, <3>2, <3>3
  <2>3. U(g, m + 1)
    BY <2>2
  <2> HIDE DEF g
  <2>4. \E h : U(h, m + 1)
    BY <2>3
  <2> HIDE DEF U
  <2>5. m + 1 \in Nat
    OBVIOUS
  <2> QED
    BY <2>4, <2>5
<1>3. T = Nat
  <2>1. T \in SUBSET Nat
    OBVIOUS
  <2> HIDE DEF T
  <2> QED
    BY <1>1, <1>2, <2>1, NatSetInduction
<1>4. ASSUME NEW n \in Nat
      PROVE  U(t(n), n) /\ DecDynalloc(d, p, n) = t(n)[n]
  <2>1. \E h : U(h, n)
    BY <1>3
  <2>2. U(t(n), n)
    <3> HIDE DEF U
    <3> QED
      BY <2>1
  <2>3. DecDynalloc(d, p, n) = t(n)[n]
    BY DEF DecDynalloc
  <2> QED
    BY <2>2, <2>3
<1> HIDE DEF t
<1>5. DecDynalloc(d, p, 0) = d
  BY <1>4
<1>6. ASSUME NEW n \in Nat
      PROVE  DecDynalloc(d, p, n + 1) = DecDynStep(DecDynalloc(d, p, n), p, n)
  <2> DEFINE was == t(n)
             now == t(n + 1)
             S == {k \in Nat : k <= n => was[k] = now[k]}
  <2>1. U(was, n) /\ U(now, n + 1) /\ n + 1 \in Nat
    <3>1. n + 1 \in Nat
      OBVIOUS
    <3> HIDE DEF U
    <3> QED
      BY <1>4, <3>1
  <2> HIDE DEF was, now
  <2>2. 0 \in S
    BY <2>1
  <2>3. ASSUME NEW k \in Nat, k \in S
        PROVE  k + 1 \in S
    <3> SUFFICES ASSUME k + 1 <= n PROVE was[k + 1] = now[k + 1]
      OBVIOUS
    <3>1. k + 1 \in 0..n /\ k + 1 \in 0..(n + 1) /\ k + 1 # 0 /\ (k + 1) - 1 = k /\ was[k] = now[k]
      BY <2>3
    <3>2. was[k + 1] = DecDynStep(was[k], p, k)
      BY <2>1, <3>1
    <3>3. now[k + 1] = DecDynStep(now[k], p, k)
      BY <2>1, <3>1
    <3> QED
      BY <3>1, <3>2, <3>3
  <2>4. S = Nat
    <3>1. S \in SUBSET Nat
      OBVIOUS
    <3> HIDE DEF S
    <3> QED
      BY <2>2, <2>3, <3>1, NatSetInduction
  <2>5. was[n] = now[n]
    BY <2>4
  <2>6. n + 1 \in 0..(n + 1) /\ n + 1 # 0 /\ (n + 1) - 1 = n
    OBVIOUS
  <2>7. now[n + 1] = DecDynStep(now[n], p, n)
    BY <2>1, <2>6
  <2>8. DecDynalloc(d, p, n) = was[n] /\ DecDynalloc(d, p, n + 1) = now[n + 1]
    BY <1>4 DEF was, now
  <2> QED
    BY <2>5, <2>7, <2>8
<1> QED
  BY <1>5, <1>6

-----------------------------------------------------------------------------
(* Coders.                                                                  *)
Coder(x) ==
    /\ x = [frac |-> x.frac, bytes |-> x.bytes, syms |-> x.syms, place |-> x.place, ok |-> x.ok, got |-> x.got]
    /\ x.frac \in Nat /\ x.bytes \in Nat /\ Log(x.syms)

(* A frame begins with these symbols.                                       *)
Begins(s, all) == Len(s) <= Len(all) /\ \A k \in 1..Len(s) : all[k] = s[k]

(* The encoder's coder y is x, and maybe more written.                      *)
Grows(x, y) ==
    /\ Coder(x) /\ Coder(y)
    /\ y.bytes = x.bytes /\ y.ok = x.ok /\ x.frac <= y.frac /\ Begins(x.syms, y.syms)

(* The decoder's coder d has read of a frame what the encoder had written.  *)
Follows(d, x, all) ==
    /\ Coder(d) /\ Coder(x) /\ Log(all) /\ Begins(x.syms, all)
    /\ d.ok /\ d.syms = all /\ d.place = Len(x.syms) /\ d.frac = x.frac

(* A coder has grown from itself: a step that codes nothing.                *)
LEMMA GrowsSelf ==
  ASSUME NEW x, Coder(x)
  PROVE  Grows(x, x)
<1>1. Len(x.syms) \in Nat
  BY DEF Coder, Log
<1> QED
  BY <1>1 DEF Coder, Grows, Begins

(* What grew in two steps grew in one: stages of a frame follow one         *)
(* another.                                                                 *)
LEMMA GrowsOn ==
  ASSUME NEW x, NEW y, NEW z, Grows(x, y), Grows(y, z)
  PROVE  Grows(x, z)
<1>1. Len(x.syms) \in Nat /\ Len(y.syms) \in Nat /\ Len(z.syms) \in Nat
  BY DEF Grows, Coder, Log
<1>2. x.frac \in Nat /\ y.frac \in Nat /\ z.frac \in Nat
  BY DEF Grows, Coder
<1>3. Begins(x.syms, z.syms)
  BY <1>1 DEF Grows, Begins
<1> QED
  BY <1>2, <1>3 DEF Grows

(* A log that begins with what the later coder holds begins with what the   *)
(* earlier one held.                                                        *)
LEMMA BeginsOn ==
  ASSUME NEW x, NEW y, NEW all, Grows(x, y), Begins(y.syms, all), Log(all)
  PROVE  Begins(x.syms, all)
<1>1. Len(x.syms) \in Nat /\ Len(y.syms) \in Nat /\ Len(all) \in Nat
  BY DEF Grows, Coder, Log
<1> QED
  BY <1>1 DEF Grows, Begins

(* A symbol written.                                                        *)
LEMMA PutGrows ==
  ASSUME NEW x, Coder(x), NEW kind, NEW ctx, NEW value, NEW cost \in Nat
  PROVE  /\ Grows(x, PutSym(x, kind, ctx, value, cost))
         /\ PutSym(x, kind, ctx, value, cost).frac = x.frac + cost
         /\ PutSym(x, kind, ctx, value, cost).syms = Append(x.syms, <<kind, ctx, value, cost>>)
<1> DEFINE y == PutSym(x, kind, ctx, value, cost)
<1>1. y = [frac |-> x.frac + cost, bytes |-> x.bytes, syms |-> Append(x.syms, <<kind, ctx, value, cost>>),
           place |-> x.place, ok |-> x.ok, got |-> x.got]
  <2>1. y = [x EXCEPT !.frac = x.frac + cost, !.syms = Append(x.syms, <<kind, ctx, value, cost>>)]
    BY DEF PutSym
  <2>2. PICK a, b, s, p, o, g : x = [frac |-> a, bytes |-> b, syms |-> s, place |-> p, ok |-> o, got |-> g]
    BY DEF Coder
  <2> HIDE DEF y
  <2> QED
    BY <2>1, <2>2
<1> HIDE DEF y
<1>2. x.frac \in Nat /\ x.bytes \in Nat /\ Log(x.syms)
  BY DEF Coder
<1>3. /\ Log(y.syms) /\ Len(x.syms) \in Nat /\ Len(y.syms) = Len(x.syms) + 1
      /\ \A k \in 1..Len(x.syms) : y.syms[k] = x.syms[k]
  BY <1>1, <1>2, AppendLog
<1>4. Coder(y)
  BY <1>1, <1>2, <1>3 DEF Coder
<1>5. Begins(x.syms, y.syms)
  BY <1>3 DEF Begins
<1>6. Grows(x, y)
  BY <1>1, <1>2, <1>4, <1>5 DEF Grows
<1> QED
  BY <1>1, <1>6 DEF y

(* The reader of the same symbol gets its value.                            *)
LEMMA AskFollows ==
  ASSUME NEW d, NEW x, NEW all, Follows(d, x, all), NEW kind, NEW ctx, NEW value, NEW cost \in Nat,
         Begins(PutSym(x, kind, ctx, value, cost).syms, all)
  PROVE  /\ Follows(AskSym(d, kind, ctx), PutSym(x, kind, ctx, value, cost), all)
         /\ AskSym(d, kind, ctx).got = value
         /\ AskSym(d, kind, ctx).bytes = d.bytes
<1> DEFINE y == PutSym(x, kind, ctx, value, cost)
           r == AskSym(d, kind, ctx)
           sym == <<kind, ctx, value, cost>>
<1>1. Coder(x) /\ Coder(d) /\ Log(all) /\ d.ok /\ d.syms = all /\ d.place = Len(x.syms) /\ d.frac = x.frac
  BY DEF Follows
<1>2. Coder(y) /\ y.frac = x.frac + cost /\ y.syms = Append(x.syms, sym)
  BY <1>1, PutGrows DEF Grows
<1>3. Log(x.syms)
  BY <1>1 DEF Coder
<1>4. Len(x.syms) \in Nat /\ Len(y.syms) = Len(x.syms) + 1 /\ y.syms[Len(x.syms) + 1] = sym
  BY <1>2, <1>3, AppendLog
<1>5. Len(all) \in Nat
  BY <1>1 DEF Log
<1> HIDE DEF y
<1>6. d.place < Len(d.syms) /\ d.syms[d.place + 1] = sym
  BY <1>1, <1>4, <1>5 DEF Begins, y
<1>7. r = [d EXCEPT !.place = @ + 1, !.got = value, !.frac = @ + cost]
  BY <1>1, <1>6 DEF AskSym
<1>8. r = [frac |-> d.frac + cost, bytes |-> d.bytes, syms |-> d.syms, place |-> d.place + 1, ok |-> d.ok, got |-> value]
  BY <1>1, <1>7 DEF Coder
<1> HIDE DEF r
<1>9. d.frac \in Nat /\ d.bytes \in Nat
  BY <1>1 DEF Coder
<1>10. Coder(r)
  BY <1>1, <1>8, <1>9 DEF Coder
<1>11. Follows(r, y, all)
  BY <1>1, <1>2, <1>4, <1>8, <1>10 DEF Follows, y
<1> QED
  BY <1>8, <1>11 DEF r, y

(* The decoder supplies the value of a symbol that is not sent.             *)
LEMMA GotFollows ==
  ASSUME NEW d, NEW x, NEW all, Follows(d, x, all), NEW v
  PROVE  /\ Follows([d EXCEPT !.got = v], x, all)
         /\ [d EXCEPT !.got = v].got = v
         /\ [d EXCEPT !.got = v].bytes = d.bytes
<1>1. [d EXCEPT !.got = v]
        = [frac |-> d.frac, bytes |-> d.bytes, syms |-> d.syms, place |-> d.place, ok |-> d.ok, got |-> v]
  <2>1. PICK a, b, s, p, o, g : d = [frac |-> a, bytes |-> b, syms |-> s, place |-> p, ok |-> o, got |-> g]
    BY DEF Follows, Coder
  <2> QED
    BY <2>1
<1>2. Coder([d EXCEPT !.got = v])
  BY <1>1 DEF Follows, Coder
<1> QED
  BY <1>1, <1>2 DEF Follows

(* Of the numbers with a property, up to a given one, one is the least.     *)
LEMMA LeastNumber ==
  ASSUME NEW S \in SUBSET Nat, NEW n \in S
  PROVE  \E m \in S : m <= n /\ \A k \in 0..(m - 1) : k \notin S
<1> SUFFICES ASSUME \A m \in S : m <= n => \E k \in 0..(m - 1) : k \in S PROVE FALSE
  OBVIOUS
<1> DEFINE T == {i \in Nat : \A k \in 0..i : k <= n => k \notin S}
<1>1. 0 \in T
  OBVIOUS
<1>2. ASSUME NEW i \in Nat, i \in T PROVE i + 1 \in T
  <2> SUFFICES ASSUME i + 1 <= n, i + 1 \in S PROVE FALSE
    BY <1>2
  <2>1. PICK k \in 0..((i + 1) - 1) : k \in S
    OBVIOUS
  <2> QED
    BY <1>2, <2>1
<1>3. T = Nat
  <2>1. T \in SUBSET Nat
    OBVIOUS
  <2> HIDE DEF T
  <2> QED
    BY <1>1, <1>2, <2>1, NatSetInduction
<1> QED
  BY <1>3

(* One step down the tail of the Laplace table: start, width and place of   *)
(* the next pair.                                                           *)
LEMMA DecayingIs ==
  ASSUME NEW t, NEW decay
  PROVE  /\ t[2] = 0 => Decaying(t, decay) = t
         /\ t[2] # 0 => /\ Decaying(t, decay)[1] = t[1] + 2 * t[2] + 2
                        /\ Decaying(t, decay)[2] = (2 * t[2] * decay) \div 32768
                        /\ Decaying(t, decay)[3] = t[3] + 1
BY DEF Decaying

(* The widths the encoder tries, while they last, and what the decoder      *)
(* makes of them: one more each, as it counts the one for certain.          *)
Widths(fs0, decay, last) ==
    /\ last \in 0..LEVELS
    /\ \A n \in Nat : /\ Decays(fs0, decay, n)[1] \in fs0..32766
                      /\ Decays(fs0, decay, n)[2] \in Nat
                      /\ n < last => Decays(fs0, decay, n)[2] # 0
                      /\ n < last => Decays(fs0, decay, n + 1)[1] = Decays(fs0, decay, n)[1] + 2 * Decays(fs0, decay, n)[2] + 2
                      /\ n >= last => Decays(fs0, decay, n) = Decays(fs0, decay, last)
                      /\ n <= last => Decays(fs0, decay, n)[3] = n + 1
                      /\ n <= last => LaplaceWidths(fs0, decay, n)
                                        = <<Decays(fs0, decay, n)[1], Decays(fs0, decay, n)[2] + 1, n + 1>>
    /\ Decays(fs0, decay, last)[2] = 0

(* In each of the contexts the tables give, the widths fall to the minimum  *)
(* after finitely many steps (laplace.rs).                                  *)
LEMMA WidthsAre ==
  ASSUME NEW fs0, NEW decay, LaplaceContext(fs0, decay)
  PROVE  \E last : Widths(fs0, decay, last)
<1> DEFINE d(n) == Decays(fs0, decay, n)
           w(n) == LaplaceWidths(fs0, decay, n)
<1>1. fs0 \in Nat /\ 1 <= fs0 /\ fs0 <= 32736 /\ decay \in Nat /\ decay <= 16384 /\ d(LEVELS)[2] = 0 /\ d(LEVELS)[1] <= 32766
  BY DEF LaplaceContext
<1>0. LEVELS \in Nat
  BY DEF LEVELS
<1>2. d(0) = <<fs0, get_freq1(fs0, decay), 1>> /\ \A n \in Nat : d(n + 1) = Decaying(d(n), decay)
  BY DecaysGoes
<1>3. w(0) = <<fs0, get_freq1(fs0, decay) + 1, 1>> /\ \A n \in Nat : w(n + 1) = Narrowed(w(n), decay)
  BY WidthsGoes
<1>4. get_freq1(fs0, decay) \in Nat
  <2>1. 32736 - fs0 \in Nat /\ 16384 - decay \in Nat
    BY <1>1
  <2>2. \A a, b \in Nat : a * b \in Nat
    OBVIOUS
  <2>3. (32736 - fs0) * (16384 - decay) \in Nat
    BY <2>1, <2>2
  <2> QED
    BY <2>3 DEF get_freq1
<1>5. \A t \in Nat : (2 * t * decay) \div 32768 \in Nat
  <2>1. \A a, b \in Nat : a * b \in Nat
    OBVIOUS
  <2>2. decay \in Nat
    BY <1>1
  <2>3. ASSUME NEW t \in Nat PROVE (2 * t) * decay \in Nat
    <3>1. 2 * t \in Nat
      OBVIOUS
    <3> QED
      BY <2>1, <2>2, <3>1
  <2> QED
    BY <2>3
<1> HIDE DEF d, w
<1> DEFINE T == {n \in Nat : d(n)[1] \in Nat /\ d(n)[1] >= fs0 /\ d(n)[2] \in Nat /\ d(n)[3] \in Nat}
<1>6. 0 \in T
  <2>1. d(0)[1] = fs0 /\ d(0)[2] = get_freq1(fs0, decay) /\ d(0)[3] = 1
    BY <1>2
  <2>2. fs0 \in Nat /\ fs0 >= fs0 /\ 1 \in Nat
    BY <1>1
  <2>3. d(0)[1] \in Nat /\ d(0)[1] >= fs0 /\ d(0)[2] \in Nat /\ d(0)[3] \in Nat
    BY <1>4, <2>1, <2>2
  <2> QED
    BY <2>3
<1>7. ASSUME NEW n \in Nat, n \in T PROVE n + 1 \in T
  <2>1. d(n + 1) = Decaying(d(n), decay)
    BY <1>2
  <2>2. d(n)[1] \in Nat /\ d(n)[1] >= fs0 /\ d(n)[2] \in Nat /\ d(n)[3] \in Nat /\ fs0 \in Nat
    BY <1>1, <1>7
  <2>3. CASE d(n)[2] = 0
    <3>1. d(n + 1) = d(n)
      BY <2>1, <2>3, DecayingIs
    <3> QED
      BY <1>7, <3>1
  <2>4. CASE d(n)[2] # 0
    <3>1. d(n + 1)[1] = d(n)[1] + 2 * d(n)[2] + 2 /\ d(n + 1)[2] = (2 * d(n)[2] * decay) \div 32768 /\ d(n + 1)[3] = d(n)[3] + 1
      BY <2>1, <2>4, DecayingIs
    <3>2. d(n + 1)[2] \in Nat
      BY <3>1, <1>5, <2>2
    <3>3. d(n + 1)[1] \in Nat /\ d(n + 1)[1] >= fs0 /\ d(n + 1)[3] \in Nat
      BY <3>1, <2>2
    <3> QED
      BY <3>2, <3>3
  <2> QED
    BY <2>3, <2>4
<1>8. T = Nat
  <2>1. T \in SUBSET Nat
    OBVIOUS
  <2> HIDE DEF T
  <2> QED
    BY <1>6, <1>7, <2>1, NatSetInduction
<1>20. \A n \in Nat : d(n)[1] \in Nat /\ d(n)[1] >= fs0 /\ d(n)[2] \in Nat
  <2>1. \A n \in Nat : n \in T
    BY <1>8
  <2> QED
    BY <2>1
<1> HIDE DEF T
<1>9. PICK last \in Nat : d(last)[2] = 0 /\ last <= LEVELS /\ \A k \in 0..(last - 1) : d(k)[2] # 0
  <2> DEFINE S == {n \in Nat : d(n)[2] = 0}
  <2>1. S \in SUBSET Nat /\ LEVELS \in S
    BY <1>0, <1>1 DEF d
  <2> HIDE DEF S
  <2>2. PICK m \in S : m <= LEVELS /\ \A k \in 0..(m - 1) : k \notin S
    BY <2>1, LeastNumber
  <2>3. m \in Nat /\ d(m)[2] = 0 /\ \A k \in 0..(m - 1) : d(k)[2] # 0
    BY <2>2 DEF S
  <2> QED
    BY <2>2, <2>3
<1>10. ASSUME NEW n \in Nat, d(n)[2] # 0
       PROVE  /\ d(n + 1)[1] = d(n)[1] + 2 * d(n)[2] + 2
              /\ d(n + 1)[2] = (2 * d(n)[2] * decay) \div 32768
              /\ d(n + 1)[3] = d(n)[3] + 1
  <2>1. d(n + 1) = Decaying(d(n), decay)
    BY <1>2
  <2> QED
    BY <1>10, <2>1, DecayingIs
<1>11. ASSUME NEW n \in Nat, d(n)[2] = 0 PROVE d(n + 1) = d(n)
  <2>1. d(n + 1) = Decaying(d(n), decay)
    BY <1>2
  <2> QED
    BY <1>11, <2>1, DecayingIs
<1>12. \A n \in Nat : n >= last => d(n) = d(last)
  <2> DEFINE S == {n \in Nat : d(last + n) = d(last)}
  <2>1. 0 \in S
    OBVIOUS
  <2>2. ASSUME NEW n \in Nat, n \in S PROVE n + 1 \in S
    <3>1. last + n \in Nat /\ (last + n) + 1 = last + (n + 1)
      OBVIOUS
    <3> QED
      BY <1>9, <1>11, <2>2, <3>1
  <2>3. S = Nat
    <3>1. S \in SUBSET Nat
      OBVIOUS
    <3> HIDE DEF S
    <3> QED
      BY <2>1, <2>2, <3>1, NatSetInduction
  <2>4. ASSUME NEW n \in Nat, n >= last PROVE d(n) = d(last)
    <3>1. n - last \in Nat /\ last + (n - last) = n
      BY <2>4
    <3>2. n - last \in S
      BY <2>3, <3>1
    <3> QED
      BY <3>1, <3>2
  <2> QED
    BY <2>4
<1>13. d(last)[1] <= 32766
  BY <1>0, <1>1, <1>9, <1>12 DEF d
<1>14. \A n \in Nat : d(n)[1] <= 32766
  <2> DEFINE S == {n \in Nat : n <= last => d(last - n)[1] <= 32766}
  <2>1. 0 \in S
    BY <1>13
  <2>2. ASSUME NEW n \in Nat, n \in S PROVE n + 1 \in S
    <3> SUFFICES ASSUME n + 1 <= last PROVE d(last - (n + 1))[1] <= 32766
      OBVIOUS
    <3>1. last - (n + 1) \in Nat /\ (last - (n + 1)) + 1 = last - n /\ last - (n + 1) \in 0..(last - 1) /\ last - n \in Nat
      OBVIOUS
    <3>2. d(last - n)[1] = d(last - (n + 1))[1] + 2 * d(last - (n + 1))[2] + 2
      BY <1>9, <1>10, <3>1
    <3>3. d(last - (n + 1))[1] \in Nat /\ d(last - (n + 1))[2] \in Nat /\ d(last - n)[1] \in Nat
      BY <1>20, <3>1
    <3> QED
      BY <2>2, <3>2, <3>3
  <2>3. S = Nat
    <3>1. S \in SUBSET Nat
      OBVIOUS
    <3> HIDE DEF S
    <3> QED
      BY <2>1, <2>2, <3>1, NatSetInduction
  <2>4. ASSUME NEW n \in Nat PROVE d(n)[1] <= 32766
    <3>1. CASE n >= last
      BY <3>1, <1>12, <1>13
    <3>2. CASE n < last
      <4>1. last - n \in Nat /\ last - n <= last /\ last - (last - n) = n
        BY <3>2
      <4>2. last - n \in S
        <5> HIDE DEF S
        <5> QED
          BY <2>3, <4>1
      <4> QED
        BY <4>1, <4>2
    <3> QED
      BY <3>1, <3>2
  <2> QED
    BY <2>4
<1>15. \A n \in Nat : n <= last => d(n)[3] = n + 1 /\ w(n) = <<d(n)[1], d(n)[2] + 1, n + 1>>
  <2> DEFINE S == {n \in Nat : n <= last => d(n)[3] = n + 1 /\ w(n) = <<d(n)[1], d(n)[2] + 1, n + 1>>}
  <2>1. 0 \in S
    BY <1>2, <1>3
  <2>2. ASSUME NEW n \in Nat, n \in S PROVE n + 1 \in S
    <3> SUFFICES ASSUME n + 1 <= last
                 PROVE  d(n + 1)[3] = (n + 1) + 1 /\ w(n + 1) = <<d(n + 1)[1], d(n + 1)[2] + 1, (n + 1) + 1>>
      OBVIOUS
    <3>1. n <= last /\ n \in 0..(last - 1)
      OBVIOUS
    <3>2. d(n)[2] # 0 /\ d(n)[1] \in Nat /\ d(n)[2] \in Nat
      BY <1>20, <1>9, <3>1
    <3>3. d(n)[3] = n + 1 /\ w(n) = <<d(n)[1], d(n)[2] + 1, n + 1>>
      BY <2>2, <3>1
    <3>4. w(n + 1) = <<d(n)[1] + 2 * (d(n)[2] + 1), (((2 * (d(n)[2] + 1) - 2) * decay) \div 32768) + 1, (n + 1) + 1>>
      BY <1>3, <3>3 DEF Narrowed
    <3>5. 2 * (d(n)[2] + 1) - 2 = 2 * d(n)[2] /\ d(n)[1] + 2 * (d(n)[2] + 1) = d(n)[1] + 2 * d(n)[2] + 2
      BY <3>2
    <3> QED
      BY <1>10, <3>2, <3>3, <3>4, <3>5
  <2>3. S = Nat
    <3>1. S \in SUBSET Nat
      OBVIOUS
    <3> HIDE DEF S
    <3> QED
      BY <2>1, <2>2, <3>1, NatSetInduction
  <2> QED
    BY <2>3
<1>16. \A n \in Nat : d(n)[1] \in fs0..32766 /\ d(n)[2] \in Nat
  BY <1>1, <1>20, <1>14
<1>17. \A n \in Nat : n < last => d(n)[2] # 0
  BY <1>9
<1>18. last \in 0..LEVELS
  BY <1>9
<1>19. Widths(fs0, decay, last)
  BY <1>9, <1>10, <1>12, <1>15, <1>16, <1>17, <1>18 DEF Widths, d, w
<1> QED
  BY <1>19

(* The decoder stops at the level the encoder chose.                        *)
LEMMA DescentIs ==
  ASSUME NEW fs0 \in Nat, NEW decay, NEW last, Widths(fs0, decay, last), NEW n \in 0..last, NEW fm \in Nat,
         fm >= Decays(fs0, decay, n)[1],
         n < last => fm < Decays(fs0, decay, n)[1] + 2 * Decays(fs0, decay, n)[2] + 2
  PROVE  Descent(fm, fs0, decay) = n
<1> DEFINE d(k) == Decays(fs0, decay, k)
           w(k) == LaplaceWidths(fs0, decay, k)
<1>1. /\ last \in 0..LEVELS
      /\ \A k \in Nat : /\ d(k)[1] \in fs0..32766
                        /\ d(k)[2] \in Nat
                        /\ k < last => d(k)[2] # 0
                        /\ k < last => d(k + 1)[1] = d(k)[1] + 2 * d(k)[2] + 2
                        /\ k <= last => w(k) = <<d(k)[1], d(k)[2] + 1, k + 1>>
      /\ d(last)[2] = 0
  BY DEF Widths
<1>2. fm >= d(n)[1] /\ (n < last => fm < d(n)[1] + 2 * d(n)[2] + 2)
  OBVIOUS
<1> HIDE DEF d, w
<1>3. n \in Nat /\ last \in Nat
  BY <1>1
<1>4. \A k \in Nat : k <= n => d(n - k)[1] <= d(n)[1]
  <2> DEFINE S == {k \in Nat : k <= n => d(n - k)[1] <= d(n)[1]}
  <2>1. 0 \in S
    BY <1>1, <1>3
  <2>2. ASSUME NEW k \in Nat, k \in S PROVE k + 1 \in S
    <3> SUFFICES ASSUME k + 1 <= n PROVE d(n - (k + 1))[1] <= d(n)[1]
      OBVIOUS
    <3>1. n - (k + 1) \in Nat /\ n - (k + 1) < last /\ (n - (k + 1)) + 1 = n - k /\ n - k \in Nat
      BY <1>3
    <3>2. d(n - k)[1] = d(n - (k + 1))[1] + 2 * d(n - (k + 1))[2] + 2
      BY <1>1, <3>1
    <3>3. d(n - (k + 1))[1] \in Nat /\ d(n - (k + 1))[2] \in Nat /\ d(n - k)[1] \in Nat /\ d(n)[1] \in Nat
      BY <1>1, <1>3, <3>1
    <3> QED
      BY <2>2, <3>2, <3>3
  <2>3. S = Nat
    <3>1. S \in SUBSET Nat
      OBVIOUS
    <3> HIDE DEF S
    <3> QED
      BY <2>1, <2>2, <3>1, NatSetInduction
  <2>4. \A k \in Nat : k \in S
    BY <2>3
  <2> QED
    BY <2>4
<1>5. ASSUME NEW k \in 0..(n - 1) PROVE Beyond(w(k), fm)
  <2>1. k \in Nat /\ k + 1 \in Nat /\ k < last /\ k <= last /\ k + 1 <= n /\ n - (k + 1) \in Nat /\ n - (k + 1) <= n
        /\ n - (n - (k + 1)) = k + 1
    BY <1>3
  <2>2. d(k + 1)[1] <= d(n)[1]
    BY <1>4, <2>1
  <2>3. d(k + 1)[1] = d(k)[1] + 2 * d(k)[2] + 2 /\ d(k)[2] # 0
    BY <1>1, <2>1
  <2>4. d(k)[1] \in Nat /\ d(k)[2] \in Nat /\ d(n)[1] \in Nat
    BY <1>1, <1>3, <2>1
  <2>5. w(k) = <<d(k)[1], d(k)[2] + 1, k + 1>>
    BY <1>1, <2>1
  <2>6. d(k)[2] + 1 > 1 /\ fm >= d(k)[1] + 2 * (d(k)[2] + 1)
    BY <1>2, <2>2, <2>3, <2>4
  <2> QED
    BY <2>5, <2>6 DEF Beyond
<1>6. ~Beyond(w(n), fm)
  <2>1. w(n) = <<d(n)[1], d(n)[2] + 1, n + 1>> /\ d(n)[1] \in Nat /\ d(n)[2] \in Nat
    BY <1>1, <1>3
  <2>2. CASE n < last
    <3>1. ~(fm >= d(n)[1] + 2 * (d(n)[2] + 1))
      BY <1>2, <2>1, <2>2
    <3> QED
      BY <2>1, <3>1 DEF Beyond
  <2>3. CASE n = last
    <3>1. ~(d(n)[2] + 1 > 1)
      BY <1>1, <2>3
    <3> QED
      BY <2>1, <3>1 DEF Beyond
  <2> QED
    BY <1>3, <2>2, <2>3
<1> DEFINE P(m) == ~Beyond(w(m), fm) /\ \A k \in 0..(m - 1) : Beyond(w(k), fm)
<1>7. P(n)
  BY <1>5, <1>6
<1> DEFINE places == 0..LEVELS
<1>8. places \subseteq Nat /\ n \in places
  <2>1. LEVELS \in Nat
    BY DEF LEVELS
  <2> QED
    BY <1>1, <2>1
<1>9. Descent(fm, fs0, decay) = CHOOSE m \in places : P(m)
  BY DEF Descent, w
<1> HIDE DEF places
<1>10. ASSUME NEW m \in places, P(m) PROVE m = n
  <2>1. m \in Nat
    BY <1>8
  <2>2. ~(m < n)
    BY <1>3, <1>5, <1>10, <2>1
  <2>3. ~(n < m)
    BY <1>3, <1>6, <1>10, <2>1
  <2> QED
    BY <1>3, <2>1, <2>2, <2>3
<1> HIDE DEF P
<1> QED
  BY <1>7, <1>8, <1>9, <1>10

(* A step, as near as its code gets to v, is read back exactly: the         *)
(* decoder finds the interval and the value it stands for.                  *)
LaplacePair(v, fs0, decay, low, width, q) ==
    /\ laplace_encode(v, fs0, decay) = <<low, width, q>>
    /\ laplace_decode(low + width - 1, fs0, decay) = <<low, width, q>>

(* Every step has a value the coder can send in its place, with an interval *)
(* that is no other value's.                                                *)
LEMMA LaplaceExact ==
  ASSUME NEW fs0, NEW decay, LaplaceContext(fs0, decay), NEW v \in Int
  PROVE  \E low \in Nat, width \in Nat, q \in Int : LaplacePair(v, fs0, decay, low, width, q)
<1>1. fs0 \in Nat /\ 1 <= fs0 /\ fs0 <= 32736
  BY DEF LaplaceContext
<1>2. CASE v = 0
  <2>1. laplace_encode(v, fs0, decay) = <<0, fs0, 0>>
    BY <1>2 DEF laplace_encode
  <2>2. 0 + fs0 - 1 < fs0
    BY <1>1
  <2>3. laplace_decode(0 + fs0 - 1, fs0, decay) = <<0, fs0, 0>>
    BY <2>2 DEF laplace_decode
  <2> QED
    BY <1>1, <2>1, <2>3 DEF LaplacePair
<1>3. CASE v # 0
  <2> DEFINE n == Abs(v) - 1
             t == Decays(fs0, decay, n)
             s == IF v < 0 THEN -1 ELSE 0
             di == MinOf(Abs(v) - t[3], ((32768 - t[1] - s) \div 2) - 1)
             low == t[1] + 2 * di + 1 + s
             a == t[1]
             b == t[2]
  <2>1. n \in Nat /\ Abs(v) = n + 1 /\ s \in Int /\ (v < 0 => v = -(n + 1)) /\ (v > 0 => v = n + 1)
    BY <1>3 DEF Abs
  <2>2. PICK last : Widths(fs0, decay, last)
    BY WidthsAre
  <2>3. laplace_encode(v, fs0, decay)
          = IF t[2] = 0 THEN <<low, MinOf(1, 32768 - low), IF v < 0 THEN -(t[3] + di) ELSE t[3] + di>>
            ELSE <<IF v > 0 THEN t[1] + t[2] + 1 ELSE t[1], t[2] + 1, v>>
    BY <1>3 DEF laplace_encode
  <2>4. last \in Nat /\ a \in fs0..32766 /\ b \in Nat
    BY <2>1, <2>2 DEF Widths
  <2>5. CASE n < last
    <3>1. b # 0 /\ LaplaceWidths(fs0, decay, n) = <<a, b + 1, n + 1>>
      BY <2>1, <2>2, <2>4, <2>5 DEF Widths
    <3>2. a + 2 * b + 2 <= 32766
      <4>1. Decays(fs0, decay, n + 1)[1] = a + 2 * b + 2
        BY <2>1, <2>2, <2>5 DEF Widths
      <4>2. n + 1 \in Nat
        BY <2>1
      <4>3. Decays(fs0, decay, n + 1)[1] \in fs0..32766
        BY <2>2, <4>2 DEF Widths
      <4> QED
        BY <1>1, <4>1, <4>3
    <3> DEFINE at == IF v > 0 THEN a + b + 1 ELSE a
               fm == at + (b + 1) - 1
    <3>3. laplace_encode(v, fs0, decay) = <<at, b + 1, v>>
      BY <2>3, <3>1
    <3>4. at \in Nat /\ fm \in Nat /\ fm >= a /\ fm < a + 2 * b + 2 /\ ~(fm < fs0) /\ n \in 0..last /\ b + 1 \in Nat
      BY <1>1, <2>1, <2>4, <2>5
    <3> HIDE DEF n
    <3>5. Descent(fm, fs0, decay) = n
      BY <1>1, <2>2, <3>4, DescentIs
    <3> HIDE DEF at, fm, a, b, t
    <3>6. laplace_decode(fm, fs0, decay)
            = IF fm < a + (b + 1) THEN <<a, MinOf(b + 1, 32768 - a), -(n + 1)>>
              ELSE <<a + (b + 1), MinOf(b + 1, 32768 - a - (b + 1)), n + 1>>
      <4>1. ~(b + 1 <= 1) /\ a + 2 * 0 = a /\ n + 1 + 0 = n + 1
        BY <2>1, <2>4, <3>1
      <4> QED
        BY <3>1, <3>4, <3>5, <4>1 DEF laplace_decode
    <3>7. MinOf(b + 1, 32768 - a) = b + 1 /\ MinOf(b + 1, 32768 - a - (b + 1)) = b + 1
      BY <2>4, <3>2 DEF MinOf
    <3>8. CASE v > 0
      <4>1. at = a + (b + 1) /\ ~(fm < a + (b + 1)) /\ v = n + 1
        BY <2>1, <2>4, <3>8 DEF at, fm
      <4> QED
        BY <3>3, <3>4, <3>6, <3>7, <4>1 DEF fm, LaplacePair
    <3>9. CASE v < 0
      <4>1. at = a /\ fm < a + (b + 1) /\ v = -(n + 1)
        BY <2>1, <2>4, <3>9 DEF at, fm
      <4> QED
        BY <3>3, <3>4, <3>6, <3>7, <4>1 DEF fm, LaplacePair
    <3> QED
      BY <1>3, <3>8, <3>9
  <2>6. CASE n >= last
    <3>1. t = Decays(fs0, decay, last) /\ Decays(fs0, decay, last)[2] = 0 /\ Decays(fs0, decay, last)[3] = last + 1
          /\ LaplaceWidths(fs0, decay, last) = <<Decays(fs0, decay, last)[1], Decays(fs0, decay, last)[2] + 1, last + 1>>
      BY <2>1, <2>2, <2>4, <2>6 DEF Widths
    <3>2. b = 0 /\ t[3] = last + 1 /\ LaplaceWidths(fs0, decay, last) = <<a, 1, last + 1>>
      BY <3>1
    <3>3. di = MinOf((n + 1) - (last + 1), ((32768 - a - s) \div 2) - 1)
      BY <2>1, <3>2
    <3>4. di \in Nat /\ low \in Nat /\ low <= 32767 /\ low >= a /\ (low - a) \div 2 = di /\ low = a + 2 * di + 1 + s
      <4> DEFINE half == (32768 - a - s) \div 2
      <4>1. a \in Nat /\ a <= 32766 /\ s \in Int /\ (s = 0 \/ s = -1) /\ (n + 1) - (last + 1) \in Nat
        BY <1>1, <2>1, <2>4, <2>6
      <4>2. half \in Nat /\ half >= 1 /\ 2 * half <= 32768 - a - s
        BY <4>1
      <4>3. di = MinOf((n + 1) - (last + 1), half - 1)
        BY <3>3
      <4> HIDE DEF half, di, a, s, n
      <4>4. di \in Nat /\ di <= half - 1
        BY <4>1, <4>2, <4>3 DEF MinOf
      <4>5. low = a + 2 * di + 1 + s
        BY DEF a
      <4> HIDE DEF low
      <4>6. low \in Nat /\ low <= 32767 /\ low >= a /\ low - a = 2 * di + (1 + s)
        BY <4>1, <4>2, <4>4, <4>5
      <4>7. (low - a) \div 2 = di
        BY <4>1, <4>4, <4>6
      <4> QED
        BY <4>4, <4>5, <4>6, <4>7
    <3> DEFINE q == IF v < 0 THEN -(last + 1 + di) ELSE last + 1 + di
    <3>5. MinOf(1, 32768 - low) = 1
      BY <3>4 DEF MinOf
    <3>6. laplace_encode(v, fs0, decay) = <<low, 1, q>>
      BY <2>3, <3>2, <3>5
    <3> HIDE DEF low, di, t, n
    <3>7. Descent(low, fs0, decay) = last
      <4>1. last \in 0..last /\ low >= Decays(fs0, decay, last)[1] /\ (last < last => FALSE)
        BY <2>4, <3>1, <3>4 DEF t
      <4> QED
        BY <1>1, <2>2, <3>4, <4>1, DescentIs
    <3>8. ~(low < fs0) /\ low + 1 - 1 = low
      BY <1>1, <2>4, <3>4
    <3> HIDE DEF a, b
    <3>9. laplace_decode(low, fs0, decay)
            = IF low < a + 2 * di + 1 THEN <<a + 2 * di, MinOf(1, 32768 - (a + 2 * di)), -(last + 1 + di)>>
              ELSE <<a + 2 * di + 1, MinOf(1, 32768 - (a + 2 * di) - 1), last + 1 + di>>
      BY <3>2, <3>4, <3>7, <3>8 DEF laplace_decode
    <3>10. CASE v > 0
      <4>1. low = a + 2 * di + 1 /\ ~(low < a + 2 * di + 1) /\ MinOf(1, 32768 - (a + 2 * di) - 1) = 1 /\ q = last + 1 + di
        BY <2>4, <3>4, <3>10 DEF MinOf
      <4>2. laplace_decode(low, fs0, decay) = <<low, 1, q>>
        BY <3>9, <4>1
      <4>3. q \in Int
        BY <2>4, <3>4, <4>1
      <4> HIDE DEF q
      <4> QED
        BY <3>4, <3>6, <3>8, <4>2, <4>3 DEF LaplacePair
    <3>11. CASE v < 0
      <4>1. low = a + 2 * di /\ low < a + 2 * di + 1 /\ MinOf(1, 32768 - (a + 2 * di)) = 1 /\ q = -(last + 1 + di)
        BY <2>4, <3>4, <3>11 DEF MinOf
      <4>2. laplace_decode(low, fs0, decay) = <<low, 1, q>>
        BY <3>9, <4>1
      <4>3. q \in Int
        BY <2>4, <3>4, <4>1
      <4> HIDE DEF q
      <4> QED
        BY <3>4, <3>6, <3>8, <4>2, <4>3 DEF LaplacePair
    <3> QED
      BY <1>3, <3>10, <3>11
  <2> QED
    BY <2>1, <2>4, <2>5, <2>6
<1> QED
  BY <1>2, <1>3

(* r is the decoder's coder d after it read the value v, written to get y.  *)
Reads(r, v, d, y, all) == Follows(r, y, all) /\ r.got = v /\ r.bytes = d.bytes

(* What is left of a frame of b bits, and of bd, after t bits of it, decides *)
(* every guard of the symbols alike.                                        *)
Alike(t, b, bd) ==
    /\ t \in Nat /\ b \in Nat /\ bd \in Nat
    /\ \A m \in 1..16 : t + m <= b <=> t + m <= bd

(* Coders in step count the same bits, as every guard of either end needs.  *)
LEMMA TellsAlike ==
  ASSUME NEW d, NEW x, NEW all, Follows(d, x, all)
  PROVE  /\ TellBits(d) = TellBits(x) /\ TellBits(x) \in Nat
         /\ TotalBits(d) \in Nat /\ TotalBits(x) \in Nat
         /\ x.frac \in Nat /\ d.frac = x.frac
BY DEF Follows, Coder, TellBits, TotalBits

(* What a coder counts are natural numbers.                                 *)
LEMMA CoderCounts ==
  ASSUME NEW x, Coder(x)
  PROVE  TellBits(x) \in Nat /\ TotalBits(x) \in Nat /\ x.frac \in Nat /\ x.bytes \in Nat /\ Len(x.syms) \in Nat
BY DEF Coder, TellBits, TotalBits, Log

(* A bit.                                                                   *)
LEMMA BitGrows ==
  ASSUME NEW x, Coder(x), NEW logp \in 1..15, NEW b
  PROVE  /\ Grows(x, EncBit(x, logp, b))
         /\ EncBit(x, logp, b).frac <= x.frac + 8 * logp
         /\ Len(EncBit(x, logp, b).syms) = Len(x.syms) + 1
<1> DEFINE v == IF b THEN 1 ELSE 0
           cost == IF b THEN 8 * logp ELSE IF logp > 6 THEN 0 ELSE FALSE_COST[logp]
<1>1. cost \in Nat /\ cost <= 8 * logp
  <2>1. logp <= 6 => FALSE_COST[logp] \in Nat /\ FALSE_COST[logp] <= 8 * logp
    <3>1. logp <= 6 => logp = 1 \/ logp = 2 \/ logp = 3 \/ logp = 4 \/ logp = 5 \/ logp = 6
      OBVIOUS
    <3> QED
      BY <3>1 DEF FALSE_COST
  <2> QED
    BY <2>1
<1> HIDE DEF cost, v
<1>2. EncBit(x, logp, b) = PutSym(x, "bit", logp, v, cost)
  BY DEF EncBit, cost, v
<1>3. Grows(x, EncBit(x, logp, b)) /\ EncBit(x, logp, b).frac = x.frac + cost
      /\ EncBit(x, logp, b).syms = Append(x.syms, <<"bit", logp, v, cost>>)
  BY <1>1, <1>2, PutGrows
<1>4. x.frac \in Nat /\ Log(x.syms)
  BY DEF Coder
<1>5. Len(EncBit(x, logp, b).syms) = Len(x.syms) + 1
  BY <1>3, <1>4, AppendLog
<1> QED
  BY <1>1, <1>3, <1>4, <1>5

(* A bit is read as it was put.                                             *)
LEMMA BitReads ==
  ASSUME NEW d, NEW x, NEW all, Follows(d, x, all), NEW logp \in 1..15, NEW b,
         Begins(EncBit(x, logp, b).syms, all)
  PROVE  Reads(DecBit(d, logp), IF b THEN 1 ELSE 0, d, EncBit(x, logp, b), all)
<1> DEFINE v == IF b THEN 1 ELSE 0
           cost == IF b THEN 8 * logp ELSE IF logp > 6 THEN 0 ELSE FALSE_COST[logp]
<1>1. cost \in Nat
  <2>1. logp <= 6 => FALSE_COST[logp] \in Nat
    <3>1. logp <= 6 => logp = 1 \/ logp = 2 \/ logp = 3 \/ logp = 4 \/ logp = 5 \/ logp = 6
      OBVIOUS
    <3> QED
      BY <3>1 DEF FALSE_COST
  <2> QED
    BY <2>1
<1> HIDE DEF cost, v
<1>2. EncBit(x, logp, b) = PutSym(x, "bit", logp, v, cost) /\ DecBit(d, logp) = AskSym(d, "bit", logp)
  BY DEF EncBit, DecBit, cost, v
<1>3. Reads(DecBit(d, logp), v, d, EncBit(x, logp, b), all)
  BY <1>1, <1>2, AskFollows DEF Reads
<1> QED
  BY <1>3 DEF v

(* Raw bits.                                                                *)
LEMMA RawGrows ==
  ASSUME NEW x, Coder(x), NEW n \in Nat, NEW v
  PROVE  Grows(x, EncRaw(x, v, n)) /\ EncRaw(x, v, n).frac = x.frac + 8 * n
BY PutGrows DEF EncRaw

(* Raw bits are read as they were put.                                      *)
LEMMA RawReads ==
  ASSUME NEW d, NEW x, NEW all, Follows(d, x, all), NEW n \in Nat, NEW v, Begins(EncRaw(x, v, n).syms, all)
  PROVE  Reads(DecRaw(d, n), v, d, EncRaw(x, v, n), all)
BY AskFollows DEF EncRaw, DecRaw, Reads

(* A symbol of a table is read as it was put.                               *)
LEMMA PutReads ==
  ASSUME NEW d, NEW x, NEW all, Follows(d, x, all), NEW kind, NEW ctx, NEW value, NEW cost \in Nat,
         Begins(PutSym(x, kind, ctx, value, cost).syms, all)
  PROVE  Reads(AskSym(d, kind, ctx), value, d, PutSym(x, kind, ctx, value, cost), all)
BY AskFollows DEF Reads

(* Nothing sent, a value supplied.                                          *)
LEMMA GotReads ==
  ASSUME NEW d, NEW x, NEW all, Follows(d, x, all), NEW v
  PROVE  Reads([d EXCEPT !.got = v], v, d, x, all)
BY GotFollows DEF Reads

(* What is derived from a symbol read leaves the coder in step.             *)
LEMMA ReadsOn ==
  ASSUME NEW r, NEW v, NEW d, NEW y, NEW all, Reads(r, v, d, y, all), NEW w
  PROVE  Reads([r EXCEPT !.got = w], w, d, y, all)
BY GotFollows DEF Reads

(* Logarithms of widths.                                                    *)
LEMMA Log8Range == ASSUME NEW fs PROVE Log8(fs) \in Nat /\ Log8(fs) <= 120
<1> DEFINE S == {k \in 1..15 : Pow2(k) <= fs}
<1>1. IsFiniteSet(1..15) /\ Cardinality(1..15) = 15
  <2>1. 1 \in Int /\ 15 \in Int /\ 15 - 1 + 1 = 15 /\ ~(1 > 15)
    OBVIOUS
  <2>2. IsFiniteSet(1..15) /\ Cardinality(1..15) = IF 1 > 15 THEN 0 ELSE 15 - 1 + 1
    BY <2>1, FS_Interval
  <2> QED
    BY <2>1, <2>2
<1>2. S \subseteq 1..15
  OBVIOUS
<1> HIDE DEF S
<1>3. IsFiniteSet(S) /\ Cardinality(S) <= 15 /\ Cardinality(S) \in Nat
  BY <1>1, <1>2, FS_Subset, FS_CardinalityType
<1> QED
  BY <1>3 DEF Log8, S

(* A Laplace code.                                                          *)
LEMMA LaplaceCodes ==
  ASSUME NEW x, Coder(x), NEW v \in Int, NEW fs0, NEW decay, LaplaceContext(fs0, decay)
  PROVE  \E q \in Int :
           /\ Grows(x, EncLaplace(x, v, fs0, decay))
           /\ EncLaplace(x, v, fs0, decay).frac <= x.frac + 120
           /\ EncLaplace(x, v, fs0, decay).syms[Len(EncLaplace(x, v, fs0, decay).syms)][3][3] = q
           /\ \A d, all : Follows(d, x, all) /\ Begins(EncLaplace(x, v, fs0, decay).syms, all)
                            => Reads(DecLaplace(d, fs0, decay), q, d, EncLaplace(x, v, fs0, decay), all)
<1>0. PICK low \in Nat, width \in Nat, q \in Int : LaplacePair(v, fs0, decay, low, width, q)
  BY LaplaceExact
<1>1. /\ laplace_encode(v, fs0, decay) = <<low, width, q>>
      /\ laplace_decode(low + width - 1, fs0, decay) = <<low, width, q>>
  BY <1>0 DEF LaplacePair
<1> DEFINE code == <<low, width, q>>
           cost == 120 - Log8(width)
           y == PutSym(x, "laplace", <<fs0, decay>>, code, cost)
<1>2. cost \in Nat /\ cost <= 120
  BY Log8Range
<1>3. EncLaplace(x, v, fs0, decay) = y
  BY <1>1 DEF EncLaplace
<1> HIDE DEF cost
<1>4. Grows(x, y) /\ y.frac = x.frac + cost /\ y.syms = Append(x.syms, <<"laplace", <<fs0, decay>>, code, cost>>)
  BY <1>2, PutGrows
<1>5. Len(y.syms) = Len(x.syms) + 1 /\ y.syms[Len(x.syms) + 1] = <<"laplace", <<fs0, decay>>, code, cost>>
  <2>1. Log(x.syms)
    BY DEF Coder
  <2> DEFINE e == <<"laplace", <<fs0, decay>>, code, cost>>
  <2> HIDE DEF e
  <2>2. Len(Append(x.syms, e)) = Len(x.syms) + 1 /\ Append(x.syms, e)[Len(x.syms) + 1] = e
    BY <2>1, AppendLog
  <2> QED
    BY <1>4, <2>2 DEF e
<1>6. y.syms[Len(y.syms)][3][3] = q
  BY <1>5
<1>7. ASSUME NEW d, NEW all, Follows(d, x, all), Begins(y.syms, all)
      PROVE  Reads(DecLaplace(d, fs0, decay), q, d, y, all)
  <2> DEFINE r == AskSym(d, "laplace", <<fs0, decay>>)
  <2>1. Reads(r, code, d, y, all)
    BY <1>2, <1>7, PutReads
  <2> HIDE DEF r, y
  <2>2. r.ok /\ r.got = code
    BY <2>1 DEF Reads, Follows
  <2>3. DecLaplace(d, fs0, decay) = [r EXCEPT !.got = q, !.ok = TRUE]
    <3> DEFINE read == laplace_decode(r.got[1] + r.got[2] - 1, fs0, decay)
    <3>1. DecLaplace(d, fs0, decay)
            = IF ~r.ok THEN r ELSE [r EXCEPT !.got = read[3], !.ok = (read[1] = r.got[1] /\ read[2] = r.got[2])]
      BY DEF DecLaplace, r
    <3>2. r.got[1] = low /\ r.got[2] = width
      BY <2>2
    <3>3. read = <<low, width, q>>
      BY <1>1, <3>2
    <3> HIDE DEF read
    <3>4. read[1] = low /\ read[2] = width /\ read[3] = q
      BY <3>3
    <3>5. (read[1] = r.got[1] /\ read[2] = r.got[2]) = TRUE
      BY <3>2, <3>4
    <3> QED
      BY <2>2, <3>1, <3>4, <3>5
  <2>4. Coder(r) /\ Coder(y) /\ r.ok = TRUE
    <3>1. Coder(r) /\ Coder(y) /\ r.ok
      BY <2>1 DEF Reads, Follows
    <3> QED
      BY <2>1, <3>1, <1>7, <2>3 DEF Reads, Follows, Coder
  <2>5. [r EXCEPT !.got = q, !.ok = TRUE] = [r EXCEPT !.got = q]
    BY <2>4 DEF Coder
  <2> QED
    BY <2>1, <2>3, <2>5, ReadsOn
<1> HIDE DEF y
<1>8. x.frac \in Nat
  BY DEF Coder
<1>9. y.frac <= x.frac + 120
  BY <1>2, <1>4, <1>8
<1> QED
  BY <1>3, <1>4, <1>6, <1>7, <1>9

-----------------------------------------------------------------------------
(* The bands of a frame.                                                    *)
BandParams(p) ==
    /\ p.channels \in 1..2 /\ p.lm \in 0..3 /\ p.start \in 0..20 /\ p.end \in 1..NbBands /\ p.start < p.end
    /\ p.intra \in BOOLEAN /\ p.budget \in Nat /\ p.max_decay \in Int
SameBands(p, pd) ==
    pd.start = p.start /\ pd.end = p.end /\ pd.channels = p.channels /\ pd.lm = p.lm /\ pd.intra = p.intra

Energies == [1..2 -> [1..NbBands -> Int]]

(* A step is a half and a bit, as the zigzag of the coarse steps needs.     *)
LEMMA Halving ==
  ASSUME NEW k \in Nat
  PROVE  k % 2 \in 0..1 /\ k \div 2 \in Nat /\ k = 2 * (k \div 2) + (k % 2)
OBVIOUS

(* The zigzag back: the bit and the half out of their sum.                  *)
LEMMA Doubling ==
  ASSUME NEW m \in Nat, NEW i \in 0..1
  PROVE  2 * m + i \in Nat /\ (2 * m + i) % 2 = i /\ (2 * m + i) \div 2 = m
<1>1. i = 0 \/ i = 1
  OBVIOUS
<1>2. CASE i = 0
  BY <1>2
<1>3. CASE i = 1
  BY <1>3
<1> QED
  BY <1>1, <1>2, <1>3

(* The k-th step of a loop over bands and channels is at a band and a       *)
(* channel the frame has; the first band is met first.                      *)
LEMMA BandsOf ==
  ASSUME NEW p, BandParams(p), NEW k \in Nat
  PROVE  /\ Steps(p) \in Nat /\ Steps(p) <= 42
         /\ ChannelOf(p, k) \in 1..p.channels /\ ChannelOf(p, k) \in 1..2
         /\ k < Steps(p) => BandOf(p, k) \in p.start..(p.end - 1) /\ BandOf(p, k) \in 0..20 /\ BandOf(p, k) + 1 \in 1..NbBands
         /\ BandOf(p, k) = p.start => k < p.channels
<1> DEFINE Goal(n, c, j) ==
             /\ n \in Nat /\ n <= 42
             /\ c \in 1..p.channels /\ c \in 1..2
             /\ k < n => j \in p.start..(p.end - 1) /\ j \in 0..20 /\ j + 1 \in 1..21
             /\ j = p.start => k < p.channels
<1> SUFFICES Goal(Steps(p), ChannelOf(p, k), BandOf(p, k))
  BY DEF NbBands
<1>1. p.channels = 1 \/ p.channels = 2
  BY DEF BandParams
<1>2. p.start \in 0..20 /\ p.end \in 1..21 /\ p.start < p.end
  BY DEF BandParams, NbBands
<1>3. CASE p.channels = 1
  <2>1. Steps(p) = p.end - p.start /\ ChannelOf(p, k) = 1 /\ BandOf(p, k) = p.start + k
    BY <1>2, <1>3 DEF Steps, ChannelOf, BandOf
  <2> DEFINE a == p.start
             z == p.end
  <2>3. a \in 0..20 /\ z \in 1..21 /\ a < z
    BY <1>2
  <2>2. Goal(z - a, 1, a + k)
    <3> HIDE DEF a, z
    <3>1. /\ z - a \in Nat /\ z - a <= 42 /\ 1 \in 1..1 /\ 1 \in 1..2
          /\ k < z - a => a + k \in a..(z - 1) /\ a + k \in 0..20 /\ a + k + 1 \in 1..21
          /\ a + k = a => k < 1
      BY <2>3
    <3> QED
      BY <1>3, <3>1 DEF a, z
  <2> HIDE DEF Goal
  <2> QED
    BY <2>1, <2>2
<1>4. CASE p.channels = 2
  <2>1. Steps(p) = 2 * (p.end - p.start) /\ ChannelOf(p, k) = 1 + (k % 2) /\ BandOf(p, k) = p.start + (k \div 2)
    BY <1>2, <1>4 DEF Steps, ChannelOf, BandOf
  <2> DEFINE a == p.start
             z == p.end
             h == k \div 2
             i == k % 2
  <2>2. a \in 0..20 /\ z \in 1..21 /\ a < z /\ i \in 0..1 /\ h \in Nat /\ k = 2 * h + i
    BY <1>2, Halving
  <2>3. Goal(2 * (z - a), 1 + i, a + h)
    <3> HIDE DEF a, z, h, i
    <3>1. /\ 2 * (z - a) \in Nat /\ 2 * (z - a) <= 42 /\ 1 + i \in 1..2
          /\ a + h = a => k < 2
      BY <2>2
    <3>2. k < 2 * (z - a) => a + h \in a..(z - 1) /\ a + h \in 0..20 /\ a + h + 1 \in 1..21
      BY <2>2
    <3> QED
      BY <1>4, <3>1, <3>2 DEF a, z
  <2> HIDE DEF Goal
  <2> QED
    BY <2>1, <2>3
<1> QED
  BY <1>1, <1>3, <1>4

(* Every band of every channel has its step.                                *)
LEMMA StepOfBand ==
  ASSUME NEW p, BandParams(p), NEW c \in 1..p.channels, NEW j \in p.start..(p.end - 1)
  PROVE  \E k \in Nat : k < Steps(p) /\ ChannelOf(p, k) = c /\ BandOf(p, k) = j
<1>1. p.channels = 1 \/ p.channels = 2
  BY DEF BandParams
<1>2. p.start \in 0..20 /\ p.end \in 1..21 /\ p.start < p.end
  BY DEF BandParams, NbBands
<1>3. CASE p.channels = 1
  <2> DEFINE k == j - p.start
             a == p.start
             z == p.end
  <2>0. a \in 0..20 /\ z \in 1..21 /\ a < z /\ j \in a..(z - 1) /\ c \in 1..1
    BY <1>2, <1>3
  <2>1. k \in Nat /\ k < z - a /\ a + k = j /\ c = 1
    <3> HIDE DEF a, z
    <3> QED
      BY <2>0 DEF a
  <2> HIDE DEF k
  <2>2. k % 1 = 0 /\ k \div 1 = k
    BY <2>1
  <2>4. 1 * (z - a) = z - a
    <3> HIDE DEF a, z
    <3> QED
      BY <2>0
  <2>3. k \in Nat /\ k < Steps(p) /\ ChannelOf(p, k) = c /\ BandOf(p, k) = j
    BY <1>3, <2>1, <2>2, <2>4 DEF Steps, ChannelOf, BandOf
  <2> QED
    BY <2>3
<1>4. CASE p.channels = 2
  <2> DEFINE a == p.start
             z == p.end
             m == j - a
             i == c - 1
             k == 2 * m + i
  <2>0. a \in 0..20 /\ z \in 1..21 /\ a < z /\ j \in a..(z - 1) /\ c \in 1..2
    BY <1>2, <1>4
  <2>1. m \in Nat /\ m < z - a /\ i \in 0..1 /\ a + m = j /\ 1 + i = c
    <3> HIDE DEF a, z
    <3> QED
      BY <2>0 DEF a
  <2>2. k \in Nat /\ k % 2 = i /\ k \div 2 = m
    <3> HIDE DEF m, i
    <3> QED
      BY <2>1, Doubling
  <2>3. k < 2 * (z - a)
    <3> HIDE DEF a, z, m, i
    <3> QED
      BY <2>0, <2>1
  <2> HIDE DEF k, m, i
  <2>4. k \in Nat /\ k < Steps(p) /\ ChannelOf(p, k) = c /\ BandOf(p, k) = j
    BY <1>4, <2>1, <2>2, <2>3 DEF Steps, ChannelOf, BandOf
  <2> QED
    BY <2>4
<1> QED
  BY <1>1, <1>3, <1>4

(* One energy changed: it holds the value, the others what they held.       *)
LEMMA EnergyPut ==
  ASSUME NEW e \in Energies, NEW c \in 1..2, NEW i \in 1..NbBands, NEW v \in Int
  PROVE  /\ [e EXCEPT ![c][i] = v] \in Energies
         /\ [e EXCEPT ![c][i] = v][c][i] = v
         /\ \A c2 \in 1..2, i2 \in 1..NbBands : c2 # c \/ i2 # i => [e EXCEPT ![c][i] = v][c2][i2] = e[c2][i2]
         /\ e[c][i] \in Int
BY DEF Energies, NbBands

-----------------------------------------------------------------------------
(* A coarse step: what is coded is read.                                    *)
LEMMA LaplaceTables ==
  ASSUME NEW p, BandParams(p), NEW j \in 0..20
  PROVE  LaplaceContext(Fs(p, j), Decay(p, j))
<1>1. MinOf(j, 20) = j
  BY DEF MinOf
<1>2. p.lm \in 0..3 /\ p.intra \in BOOLEAN
  BY DEF BandParams
<1> QED
  BY <1>1, <1>2, TablesAssumption DEF Fs, Decay

(* A product in fixed point is an integer, nothing where a factor is        *)
(* nothing.                                                                 *)
LEMMA TimesInt ==
  ASSUME NEW a \in Int, NEW b \in Int
  PROVE  Times(a, b) \in Int /\ (a = 0 => Times(a, b) = 0)
<1>1. a * b \in Int
  OBVIOUS
<1>2. \A n \in Int : n \div 32768 \in Int
  OBVIOUS
<1>3. a = 0 => a * b = 0
  OBVIOUS
<1> QED
  BY <1>1, <1>2, <1>3 DEF Times

(* The coefficients of the prediction are integers; a frame coded without   *)
(* prediction takes nothing from the past.                                  *)
LEMMA CoefInt == ASSUME NEW p, BandParams(p) PROVE coef(p) \in Int /\ beta(p) \in Int /\ (p.intra => coef(p) = 0)
<1>1. p.lm = 0 \/ p.lm = 1 \/ p.lm = 2 \/ p.lm = 3
  BY DEF BandParams
<1>2. PRED_COEF[p.lm + 1] \in Int /\ BETA_COEF[p.lm + 1] \in Int
  BY <1>1 DEF PRED_COEF, BETA_COEF
<1> QED
  BY <1>2 DEF coef, beta, BETA_INTRA

(* The step rationed to the bits left is an integer, no deeper than one     *)
(* when fewer than 16 bits are left after the first band.                   *)
LEMMA RationedInt ==
  ASSUME NEW p, BandParams(p), NEW j \in Int, NEW left \in Int, NEW qi \in Int, NEW x \in Int, NEW was \in Int
  PROVE  /\ Rationed(p, j, left, Fall(p, x, was, qi)) \in Int
         /\ j # p.start /\ left < 16 => Rationed(p, j, left, Fall(p, x, was, qi)) >= -1
<1>1. \A a \in Int : Quot(a, ONE) \in Int
  BY DEF Quot, ONE
<1>2. Fall(p, x, was, qi) \in Int
  <2>1. p.max_decay \in Int
    BY DEF BandParams
  <2> DEFINE bound == MaxOf(was, -28 * ONE) - p.max_decay
  <2>2. bound \in Int
    BY <2>1 DEF MaxOf, ONE
  <2>3. Quot(bound - x, ONE) \in Int
    BY <1>1, <2>2
  <2>4. Fall(p, x, was, qi) = IF qi < 0 /\ x < bound THEN MinOf(0, qi + MaxOf(0, Quot(bound - x, ONE))) ELSE qi
    BY DEF Fall
  <2> HIDE DEF bound
  <2> QED
    BY <2>3, <2>4 DEF MinOf, MaxOf
<1> QED
  BY <1>2 DEF Rationed, MinOf, MaxOf

(* y with the step q is what the encoder makes of x in band j: the decoder  *)
(* reads that step, but for a fall told by the frame's last bit.            *)
Coded1(x, p, j, y, q) ==
    /\ q \in Int /\ Grows(x, y)
    /\ TellBits(x) <= p.budget => TellBits(y) <= p.budget
    /\ \A d, pd, all :
         Follows(d, x, all) /\ Begins(y.syms, all) /\ SameBands(p, pd) /\ Alike(TellBits(x), p.budget, pd.budget)
           => /\ Follows(DecStep(d, pd, j), y, all) /\ DecStep(d, pd, j).bytes = d.bytes
              /\ DecStep(d, pd, j).got \in Int
              /\ (TellBits(x) + 1 = p.budget => q >= -1) => DecStep(d, pd, j).got = q

(* Coding one coarse step sends a step by the guard met, the last bit at    *)
(* most one fall.                                                           *)
LEMMA StepCodes ==
  ASSUME NEW x, Coder(x), NEW p, BandParams(p), NEW j \in 0..20, NEW qi \in Int
  PROVE  \E y, q : /\ EncStep(x, p, j, qi) = <<y, q>> /\ Coded1(x, p, j, y, q)
                   /\ TellBits(x) + 1 = p.budget => q = MinOf(qi, 0)
<1> DEFINE t == TellBits(x)
           b == p.budget
<1>1. t \in Nat /\ b \in Nat /\ x.frac \in Nat /\ t = (x.frac + 7) \div 8
  BY CoderCounts DEF BandParams, TellBits
<1>2. ASSUME NEW y, NEW n \in Nat, Grows(x, y), y.frac <= x.frac + 8 * n, t + n <= b PROVE TellBits(y) <= b
  <2>1. y.frac \in Nat
    BY <1>2 DEF Grows, Coder
  <2> QED
    BY <1>1, <1>2, <2>1 DEF TellBits
<1>3. ASSUME NEW d, NEW pd, NEW all, Follows(d, x, all), SameBands(p, pd), Alike(t, b, pd.budget)
      PROVE  /\ DecStep(d, pd, j) = IF t + 15 <= b THEN DecLaplace(d, Fs(p, j), Decay(p, j))
                                    ELSE IF t + 2 <= b THEN AskSym(d, "small", 2)
                                    ELSE IF t + 1 <= b THEN [DecBit(d, 1) EXCEPT !.got = -(DecBit(d, 1).got)]
                                    ELSE [d EXCEPT !.got = -1]
  <2>1. TellBits(d) = t /\ pd.budget \in Nat
    BY <1>3, TellsAlike DEF Alike
  <2>2. /\ pd.budget - t >= 15 <=> t + 15 <= b
        /\ pd.budget - t >= 2 <=> t + 2 <= b
        /\ pd.budget - t >= 1 <=> t + 1 <= b
    <3>1. \A m \in 1..16 : t + m <= b <=> t + m <= pd.budget
      BY <1>3 DEF Alike
    <3>2. /\ t + 15 <= b <=> t + 15 <= pd.budget
          /\ t + 2 <= b <=> t + 2 <= pd.budget
          /\ t + 1 <= b <=> t + 1 <= pd.budget
      BY <3>1
    <3> QED
      BY <1>1, <2>1, <3>2
  <2>3. Fs(pd, j) = Fs(p, j) /\ Decay(pd, j) = Decay(p, j)
    BY <1>3 DEF SameBands, Fs, Decay
  <2> QED
    BY <2>1, <2>2, <2>3 DEF DecStep
<1>4. CASE t + 15 <= b
  <2> DEFINE y == EncLaplace(x, qi, Fs(p, j), Decay(p, j))
  <2>1. LaplaceContext(Fs(p, j), Decay(p, j))
    BY LaplaceTables
  <2>2. PICK q \in Int :
           /\ Grows(x, y)
           /\ y.frac <= x.frac + 120
           /\ y.syms[Len(y.syms)][3][3] = q
           /\ \A d, all : Follows(d, x, all) /\ Begins(y.syms, all)
                            => Reads(DecLaplace(d, Fs(p, j), Decay(p, j)), q, d, y, all)
    BY <2>1, LaplaceCodes
  <2>3. EncStep(x, p, j, qi) = <<y, q>>
    BY <1>4, <2>2 DEF EncStep
  <2> HIDE DEF y
  <2>4. TellBits(y) <= p.budget
    BY <1>2, <1>4, <2>2
  <2>5. Coded1(x, p, j, y, q)
    <3>1. ASSUME NEW d, NEW pd, NEW all, Follows(d, x, all), Begins(y.syms, all), SameBands(p, pd), Alike(t, b, pd.budget)
          PROVE  /\ Follows(DecStep(d, pd, j), y, all) /\ DecStep(d, pd, j).bytes = d.bytes
                 /\ DecStep(d, pd, j).got = q
      <4>1. DecStep(d, pd, j) = DecLaplace(d, Fs(p, j), Decay(p, j))
        BY <1>3, <1>4, <3>1
      <4> QED
        BY <2>2, <3>1, <4>1 DEF Reads
    <3> QED
      BY <2>2, <2>4, <3>1 DEF Coded1
  <2>6. ~(t + 1 = b)
    BY <1>1, <1>4
  <2> QED
    BY <2>3, <2>5, <2>6
<1>5. CASE ~(t + 15 <= b) /\ t + 2 <= b
  <2> DEFINE q == Clamp(qi, -1, 1)
             cost == IF q = 0 THEN 8 ELSE 16
             y == PutSym(x, "small", 2, q, cost)
  <2>1. cost \in Nat /\ cost <= 8 * 2 /\ q \in Int
    BY DEF Clamp, MinOf, MaxOf
  <2>2. EncStep(x, p, j, qi) = <<y, q>>
    BY <1>5 DEF EncStep
  <2> HIDE DEF q, cost
  <2>3. Grows(x, y) /\ y.frac <= x.frac + 8 * 2
    <3>1. Grows(x, y) /\ y.frac = x.frac + cost
      BY <2>1, PutGrows
    <3> QED
      BY <1>1, <2>1, <3>1
  <2>4. TellBits(y) <= p.budget
    <3> HIDE DEF y
    <3> QED
      BY <1>2, <1>5, <2>3
  <2>5. Coded1(x, p, j, y, q)
    <3>1. ASSUME NEW d, NEW pd, NEW all, Follows(d, x, all), Begins(y.syms, all), SameBands(p, pd), Alike(t, b, pd.budget)
          PROVE  /\ Follows(DecStep(d, pd, j), y, all) /\ DecStep(d, pd, j).bytes = d.bytes
                 /\ DecStep(d, pd, j).got = q
      <4>1. DecStep(d, pd, j) = AskSym(d, "small", 2)
        BY <1>3, <1>5, <3>1
      <4>2. Reads(AskSym(d, "small", 2), q, d, y, all)
        BY <2>1, <3>1, PutReads
      <4> QED
        BY <4>1, <4>2 DEF Reads
    <3> QED
      BY <2>1, <2>3, <2>4, <3>1 DEF Coded1
  <2>6. ~(t + 1 = b)
    BY <1>1, <1>5
  <2> QED
    BY <2>2, <2>5, <2>6
<1>6. CASE ~(t + 15 <= b) /\ ~(t + 2 <= b) /\ t < b
  <2> DEFINE q == MinOf(qi, 0)
             y == EncBit(x, 1, q # 0)
  <2>1. q \in Int /\ q <= 0
    BY DEF MinOf
  <2>2. EncStep(x, p, j, qi) = <<y, q>>
    BY <1>6 DEF EncStep
  <2> HIDE DEF q
  <2>3. Grows(x, y) /\ y.frac <= x.frac + 8 * 1
    BY BitGrows
  <2>4. TellBits(y) <= p.budget
    <3> HIDE DEF y
    <3>1. t + 1 <= b
      BY <1>1, <1>6
    <3> QED
      BY <1>2, <3>1, <2>3
  <2>5. Coded1(x, p, j, y, q)
    <3>1. ASSUME NEW d, NEW pd, NEW all, Follows(d, x, all), Begins(y.syms, all), SameBands(p, pd), Alike(t, b, pd.budget)
          PROVE  /\ Follows(DecStep(d, pd, j), y, all) /\ DecStep(d, pd, j).bytes = d.bytes
                 /\ DecStep(d, pd, j).got \in Int /\ (q >= -1 => DecStep(d, pd, j).got = q)
      <4> DEFINE r == DecBit(d, 1)
                 bit == IF q # 0 THEN 1 ELSE 0
      <4>1. DecStep(d, pd, j) = [r EXCEPT !.got = -(r.got)]
        <5>1. t + 1 <= b
          BY <1>1, <1>6
        <5> QED
          BY <1>3, <1>6, <3>1, <5>1
      <4>2. Reads(r, bit, d, y, all)
        <5>1. 1 \in 1..15
          OBVIOUS
        <5> QED
          BY <3>1, <5>1, BitReads
      <4>3. Reads([r EXCEPT !.got = -(r.got)], -(r.got), d, y, all)
        <5> HIDE DEF r, y, bit
        <5> QED
          BY <4>2, ReadsOn
      <4>4. r.got = bit
        BY <4>2 DEF Reads
      <4>5. DecStep(d, pd, j).got = -bit
        BY <4>1, <4>3, <4>4 DEF Reads
      <4>6. -bit \in Int /\ (q >= -1 => -bit = q)
        BY <2>1
      <4> QED
        BY <4>1, <4>3, <4>5, <4>6 DEF Reads
    <3>2. t + 1 = b
      BY <1>1, <1>6
    <3> QED
      BY <2>1, <2>3, <2>4, <3>1, <3>2 DEF Coded1
  <2> QED
    BY <2>2, <2>5 DEF q
<1>7. CASE ~(t < b)
  <2>1. ~(t + 15 <= b) /\ ~(t + 2 <= b) /\ ~(t + 1 <= b)
    BY <1>1, <1>7
  <2>2. EncStep(x, p, j, qi) = <<x, -1>>
    BY <1>7, <2>1 DEF EncStep
  <2>3. Grows(x, x)
    BY GrowsSelf
  <2>4. Coded1(x, p, j, x, -1)
    <3>1. ASSUME NEW d, NEW pd, NEW all, Follows(d, x, all), SameBands(p, pd), Alike(t, b, pd.budget)
          PROVE  /\ Follows(DecStep(d, pd, j), x, all) /\ DecStep(d, pd, j).bytes = d.bytes
                 /\ DecStep(d, pd, j).got = -1
      <4>1. DecStep(d, pd, j) = [d EXCEPT !.got = -1]
        BY <1>3, <2>1, <3>1
      <4> QED
        BY <3>1, <4>1, GotReads DEF Reads
    <3> QED
      BY <2>3, <3>1 DEF Coded1
  <2>5. ~(t + 1 = b)
    BY <1>1, <1>7
  <2> QED
    BY <2>2, <2>4, <2>5
<1> QED
  BY <1>1, <1>4, <1>5, <1>6, <1>7

-----------------------------------------------------------------------------
(* Coarse energies, all steps.                                              *)
CoarseState(s) ==
    /\ s = [rc |-> s.rc, e |-> s.e, prev |-> s.prev, bad |-> s.bad, error |-> s.error]
    /\ Coder(s.rc) /\ s.e \in Energies /\ s.prev \in [1..2 -> Int] /\ s.error \in Energies
UncoarseState(s) ==
    s = [rc |-> s.rc, e |-> s.e, prev |-> s.prev] /\ s.e \in Energies /\ s.prev \in [1..2 -> Int]

EnergyAfter(e, prev, p, c, j, q) ==
    [e EXCEPT ![c][j + 1] = Times(coef(p), MaxOf(e[c][j + 1], -9 * ONE)) + prev[c] + ONE * q]
PrevAfter(prev, p, c, q) == [prev EXCEPT ![c] = prev[c] + ONE * q - Times(beta(p), ONE * q)]

(* Energy and prediction after a coarse step keep their types.              *)
LEMMA AfterTypes ==
  ASSUME NEW p, BandParams(p), NEW e \in Energies, NEW prev \in [1..2 -> Int],
         NEW c \in 1..2, NEW j \in 0..20, NEW q \in Int
  PROVE  /\ Times(coef(p), MaxOf(e[c][j + 1], -9 * ONE)) + prev[c] + ONE * q \in Int
         /\ EnergyAfter(e, prev, p, c, j, q) \in Energies
         /\ PrevAfter(prev, p, c, q) \in [1..2 -> Int]
<1>1. coef(p) \in Int /\ beta(p) \in Int
  BY CoefInt
<1>2. j + 1 \in 1..NbBands
  BY DEF NbBands
<1>3. e[c][j + 1] \in Int
  BY <1>2 DEF Energies
<1>4. MaxOf(e[c][j + 1], -9 * ONE) \in Int /\ ONE * q \in Int
  BY <1>3 DEF MaxOf, ONE
<1>5. Times(coef(p), MaxOf(e[c][j + 1], -9 * ONE)) \in Int /\ Times(beta(p), ONE * q) \in Int
  BY <1>1, <1>4, TimesInt
<1> DEFINE v == Times(coef(p), MaxOf(e[c][j + 1], -9 * ONE)) + prev[c] + ONE * q
           w == prev[c] + ONE * q - Times(beta(p), ONE * q)
<1>6. v \in Int /\ w \in Int
  BY <1>4, <1>5
<1> HIDE DEF v, w
<1>7. [e EXCEPT ![c][j + 1] = v] \in Energies
  BY <1>2, <1>6, EnergyPut
<1>8. [prev EXCEPT ![c] = w] \in [1..2 -> Int]
  BY <1>6
<1> QED
  BY <1>6, <1>7, <1>8 DEF v, w, EnergyAfter, PrevAfter

(* z is s after its k-th step, of q.                                        *)
CoarseMove(s, p, k, z, q) ==
    /\ CoarseState(z) /\ q \in Int
    /\ z.e = EnergyAfter(s.e, s.prev, p, ChannelOf(p, k), BandOf(p, k), q)
    /\ z.prev = PrevAfter(s.prev, p, ChannelOf(p, k), q)
    /\ Coded1(s.rc, p, BandOf(p, k), z.rc, q)
    /\ k >= p.channels => (TellBits(s.rc) + 1 = p.budget => q >= -1)

(* One turn of quant_coarse_energy's loop is a move by some step.           *)
LEMMA CoarseStepIs ==
  ASSUME NEW p, BandParams(p), NEW x \in Energies, NEW s, CoarseState(s), NEW k \in Nat, k < Steps(p)
  PROVE  \E q : CoarseMove(s, p, k, CoarseStep(s, p, x, k), q)
<1> DEFINE c == ChannelOf(p, k)
           j == BandOf(p, k)
           i == j + 1
           f == x[c][i] - Times(coef(p), MaxOf(s.e[c][i], -9 * ONE)) - s.prev[c]
           qi0 == (f + 512) \div ONE
           left == p.budget - TellBits(s.rc) - 3 * p.channels * (p.end - j)
           qi == Rationed(p, j, left, Fall(p, x[c][i], s.e[c][i], qi0))
           z == CoarseStep(s, p, x, k)
<1>1. c \in 1..2 /\ j \in p.start..(p.end - 1) /\ j \in 0..20 /\ i \in 1..NbBands /\ (j = p.start => k < p.channels)
  BY BandsOf
<1>2. coef(p) \in Int /\ beta(p) \in Int
  BY CoefInt
<1> HIDE DEF c, j
<1>3. s.e[c][i] \in Int /\ x[c][i] \in Int /\ s.prev[c] \in Int
  <2> HIDE DEF i
  <2>1. s.e \in Energies /\ s.prev \in [1..2 -> Int]
    BY DEF CoarseState
  <2> QED
    BY <1>1, <2>1 DEF Energies
<1>4. f \in Int
  <2>1. MaxOf(s.e[c][i], -9 * ONE) \in Int
    BY <1>3 DEF MaxOf, ONE
  <2>2. Times(coef(p), MaxOf(s.e[c][i], -9 * ONE)) \in Int
    BY <1>2, <2>1, TimesInt
  <2> QED
    BY <1>3, <2>2
<1>5. qi0 \in Int
  <2> HIDE DEF f
  <2> QED
    BY <1>4 DEF ONE
<1>6. left \in Int /\ (TellBits(s.rc) + 1 = p.budget => left < 16)
  <2>1. TellBits(s.rc) \in Nat
    BY CoderCounts DEF CoarseState
  <2>2. p.channels \in 1..2 /\ p.budget \in Nat /\ p.end \in Nat
    BY DEF BandParams
  <2> DEFINE n == p.end - j
             m == p.channels * n
             t == TellBits(s.rc)
             b == p.budget
  <2>3. n \in Nat
    BY <1>1, <2>2
  <2>4. m \in Nat /\ 3 * p.channels * n = 3 * m
    <3> HIDE DEF n
    <3>1. p.channels = 1 \/ p.channels = 2
      BY <2>2
    <3> QED
      BY <2>3, <3>1
  <2>5. t \in Nat /\ b \in Nat
    BY <2>1, <2>2
  <2> HIDE DEF n, m, t, b
  <2>6. b - t - 3 * m \in Int /\ (t + 1 = b => b - t - 3 * m < 16)
    BY <2>4, <2>5
  <2> QED
    BY <2>4, <2>6 DEF n, t, b
<1> HIDE DEF f, qi0, left
<1>7. qi \in Int /\ (j # p.start /\ left < 16 => qi >= -1)
  <2>1. j \in Int
    BY <1>1
  <2> QED
    BY <1>3, <1>5, <1>6, <2>1, RationedInt
<1> HIDE DEF qi
<1>8. Coder(s.rc)
  BY DEF CoarseState
<1>9. PICK y, q : /\ EncStep(s.rc, p, j, qi) = <<y, q>> /\ Coded1(s.rc, p, j, y, q)
                  /\ TellBits(s.rc) + 1 = p.budget => q = MinOf(qi, 0)
  BY <1>1, <1>7, <1>8, StepCodes
<1>10. z = StepTo(s, p, c, j, f, qi0, <<y, q>>)
  BY <1>9 DEF CoarseStep, CoarseBand, c, j, f, qi0, left, qi
<1>11. q \in Int /\ Coder(y)
  BY <1>9 DEF Coded1, Grows
<1> DEFINE v == Times(coef(p), MaxOf(s.e[c][i], -9 * ONE)) + s.prev[c] + ONE * q
           w == s.prev[c] + ONE * q - Times(beta(p), ONE * q)
           g == f - ONE * q
           bad == s.bad + Abs(qi0 - q)
<1>12. z = [s EXCEPT !.rc = y, !.bad = bad, !.error[c][i] = g, !.e[c][i] = v, !.prev[c] = w]
  BY <1>10 DEF StepTo
<1>13. z = [rc |-> y, e |-> [s.e EXCEPT ![c][i] = v], prev |-> [s.prev EXCEPT ![c] = w], bad |-> bad,
            error |-> [s.error EXCEPT ![c][i] = g]]
  <2> HIDE DEF v, w, g, bad, z
  <2>1. PICK a1, a2, a3, a4, a5 : s = [rc |-> a1, e |-> a2, prev |-> a3, bad |-> a4, error |-> a5]
    BY DEF CoarseState
  <2> QED
    BY <1>12, <2>1
<1>14. g \in Int
  BY <1>4, <1>11 DEF ONE
<1> HIDE DEF z
<1>15. z.e = EnergyAfter(s.e, s.prev, p, c, j, q) /\ z.prev = PrevAfter(s.prev, p, c, q) /\ z.rc = y
  BY <1>13 DEF EnergyAfter, PrevAfter
<1>16. EnergyAfter(s.e, s.prev, p, c, j, q) \in Energies /\ PrevAfter(s.prev, p, c, q) \in [1..2 -> Int]
  BY <1>1, <1>11, AfterTypes DEF CoarseState
<1>17. [s.error EXCEPT ![c][i] = g] \in Energies
  <2> HIDE DEF g, i
  <2> QED
    BY <1>1, <1>14, EnergyPut DEF CoarseState
<1>18. CoarseState(z)
  <2> HIDE DEF v, w, g, bad, i
  <2> QED
    BY <1>11, <1>13, <1>15, <1>16, <1>17 DEF CoarseState
<1>19. k >= p.channels => (TellBits(s.rc) + 1 = p.budget => q >= -1)
  <2>1. p.channels \in Nat
    BY DEF BandParams
  <2>2. k >= p.channels => j # p.start
    BY <1>1, <2>1
  <2> QED
    BY <1>6, <1>7, <1>9, <2>2 DEF MinOf
<1> QED
  BY <1>9, <1>11, <1>15, <1>18, <1>19 DEF CoarseMove, c, j, z

(* One turn of unquant_coarse_energy's loop is the same move by the step    *)
(* read.                                                                    *)
LEMMA UncoarseStepIs ==
  ASSUME NEW p, BandParams(p), NEW pd, SameBands(p, pd), NEW s, UncoarseState(s), NEW k \in Nat, k < Steps(p),
         DecStep(s.rc, pd, BandOf(p, k)).got \in Int
  PROVE  LET r == DecStep(s.rc, pd, BandOf(p, k))
             z == UncoarseStep(s, pd, k)
         IN  /\ z.rc = r
             /\ z.e = EnergyAfter(s.e, s.prev, p, ChannelOf(p, k), BandOf(p, k), r.got)
             /\ z.prev = PrevAfter(s.prev, p, ChannelOf(p, k), r.got)
             /\ UncoarseState(z)
<1> DEFINE c == ChannelOf(p, k)
           j == BandOf(p, k)
           i == j + 1
           r == DecStep(s.rc, pd, j)
           q == r.got
           z == UncoarseStep(s, pd, k)
           v == Times(coef(p), MaxOf(s.e[c][i], -9 * ONE)) + s.prev[c] + ONE * q
           w == s.prev[c] + ONE * q - Times(beta(p), ONE * q)
<1>1. c \in 1..2 /\ j \in 0..20
  BY BandsOf
<1>2. ChannelOf(pd, k) = c /\ BandOf(pd, k) = j /\ coef(pd) = coef(p) /\ beta(pd) = beta(p)
  BY DEF SameBands, ChannelOf, BandOf, coef, beta
<1>3. q \in Int
  OBVIOUS
<1> HIDE DEF c, j, q
<1>4. z = [s EXCEPT !.rc = r, !.e[c][i] = v, !.prev[c] = w]
  BY <1>2 DEF UncoarseStep, UncoarseBand, q
<1> HIDE DEF r, z
<1>5. z = [rc |-> r, e |-> [s.e EXCEPT ![c][i] = v], prev |-> [s.prev EXCEPT ![c] = w]]
  <2> HIDE DEF v, w
  <2>1. PICK a1, a2, a3 : s = [rc |-> a1, e |-> a2, prev |-> a3]
    BY DEF UncoarseState
  <2> QED
    BY <1>4, <2>1
<1>6. z.e = EnergyAfter(s.e, s.prev, p, c, j, q) /\ z.prev = PrevAfter(s.prev, p, c, q) /\ z.rc = r
  BY <1>5 DEF EnergyAfter, PrevAfter
<1>7. EnergyAfter(s.e, s.prev, p, c, j, q) \in Energies /\ PrevAfter(s.prev, p, c, q) \in [1..2 -> Int]
  BY <1>1, <1>3, AfterTypes DEF UncoarseState
<1>8. UncoarseState(z)
  <2> HIDE DEF v, w
  <2> QED
    BY <1>5, <1>6, <1>7 DEF UncoarseState
<1> QED
  BY <1>6, <1>8 DEF c, j, r, q, z

(* All the steps of the encoder.                                            *)
LEMMA CoarseGrows ==
  ASSUME NEW p, BandParams(p), NEW x \in Energies, NEW s, CoarseState(s), NEW n \in Nat, n <= Steps(p)
  PROVE  /\ CoarseState(CoarseFrom(s, p, x, n))
         /\ Grows(s.rc, CoarseFrom(s, p, x, n).rc)
         /\ TellBits(s.rc) <= p.budget => TellBits(CoarseFrom(s, p, x, n).rc) <= p.budget
<1> DEFINE E(m) == CoarseFrom(s, p, x, m)
           Good(z) == /\ CoarseState(z) /\ Grows(s.rc, z.rc)
                      /\ TellBits(s.rc) <= p.budget => TellBits(z.rc) <= p.budget
           T == {m \in Nat : m <= Steps(p) => Good(E(m))}
<1>1. E(0) = s /\ \A m \in Nat : E(m + 1) = CoarseStep(E(m), p, x, m)
  BY CoarseGoes
<1>2. Steps(p) \in Nat
  BY BandsOf
<1> HIDE DEF E
<1>3. 0 \in T
  <2>1. Grows(s.rc, s.rc)
    BY GrowsSelf DEF CoarseState
  <2> QED
    BY <1>1, <2>1
<1>4. ASSUME NEW m \in Nat, m \in T PROVE m + 1 \in T
  <2> SUFFICES ASSUME m + 1 <= Steps(p) PROVE Good(E(m + 1))
    OBVIOUS
  <2>1. m < Steps(p) /\ Good(E(m)) /\ E(m + 1) = CoarseStep(E(m), p, x, m)
    BY <1>1, <1>2, <1>4
  <2>2. PICK q : CoarseMove(E(m), p, m, E(m + 1), q)
    BY <2>1, CoarseStepIs
  <2>3. CoarseState(E(m + 1)) /\ Grows(E(m).rc, E(m + 1).rc)
        /\ (TellBits(E(m).rc) <= p.budget => TellBits(E(m + 1).rc) <= p.budget)
    BY <2>2 DEF CoarseMove, Coded1
  <2>4. Grows(s.rc, E(m + 1).rc)
    BY <2>1, <2>3, GrowsOn
  <2> QED
    BY <2>1, <2>3, <2>4
<1>5. T = Nat
  <2>1. T \in SUBSET Nat
    OBVIOUS
  <2> HIDE DEF T
  <2> QED
    BY <1>3, <1>4, <2>1, NatSetInduction
<1>6. Good(E(n))
  <2>1. n \in T
    BY <1>5
  <2> HIDE DEF Good
  <2> QED
    BY <2>1
<1> QED
  BY <1>6 DEF E

(* Later steps only add to what was written.                                *)
LEMMA CoarseGrowsOn ==
  ASSUME NEW p, BandParams(p), NEW x \in Energies, NEW s, CoarseState(s), NEW n \in Nat, NEW m \in Nat, m + n <= Steps(p)
  PROVE  Grows(CoarseFrom(s, p, x, m).rc, CoarseFrom(s, p, x, m + n).rc)
<1> DEFINE E(i) == CoarseFrom(s, p, x, i)
           T == {i \in Nat : m + i <= Steps(p) => Grows(E(m).rc, E(m + i).rc)}
<1>1. \A i \in Nat : E(i + 1) = CoarseStep(E(i), p, x, i)
  BY CoarseGoes
<1>2. Steps(p) \in Nat
  BY BandsOf
<1>3. \A i \in Nat : i <= Steps(p) => CoarseState(E(i))
  BY CoarseGrows
<1> HIDE DEF E
<1>4. 0 \in T
  <2> SUFFICES ASSUME m <= Steps(p) PROVE Grows(E(m).rc, E(m).rc)
    OBVIOUS
  <2> QED
    BY <1>3, GrowsSelf DEF CoarseState
<1>5. ASSUME NEW i \in Nat, i \in T PROVE i + 1 \in T
  <2> SUFFICES ASSUME m + (i + 1) <= Steps(p) PROVE Grows(E(m).rc, E(m + (i + 1)).rc)
    OBVIOUS
  <2>1. m + i \in Nat /\ m + i < Steps(p) /\ m + i <= Steps(p) /\ m + (i + 1) = (m + i) + 1
    BY <1>2
  <2>2. E(m + (i + 1)) = CoarseStep(E(m + i), p, x, m + i) /\ CoarseState(E(m + i)) /\ Grows(E(m).rc, E(m + i).rc)
    BY <1>1, <1>3, <1>5, <2>1
  <2>3. PICK q : CoarseMove(E(m + i), p, m + i, E(m + (i + 1)), q)
    BY <2>1, <2>2, CoarseStepIs
  <2>4. Grows(E(m + i).rc, E(m + (i + 1)).rc)
    BY <2>3 DEF CoarseMove, Coded1
  <2> QED
    BY <2>2, <2>4, GrowsOn
<1>6. T = Nat
  <2>1. T \in SUBSET Nat
    OBVIOUS
  <2> HIDE DEF T
  <2> QED
    BY <1>4, <1>5, <2>1, NatSetInduction
<1>7. n \in T
  BY <1>6
<1> QED
  BY <1>7 DEF E

(* The energies of the steps before n, and of all if the frame is predicted *)
(* from the last one, are the same.                                         *)
SameUpTo(p, n, a, b) ==
    \A k \in Nat : k < Steps(p) /\ (k < n \/ ~p.intra)
        => a[ChannelOf(p, k)][BandOf(p, k) + 1] = b[ChannelOf(p, k)][BandOf(p, k) + 1]

(* The same step on both ends keeps the bands coded so far the same, the    *)
(* next one included.                                                       *)
LEMMA SameAfter ==
  ASSUME NEW p, BandParams(p), NEW a \in Energies, NEW b \in Energies, NEW prev \in [1..2 -> Int],
         NEW n \in Nat, n < Steps(p), SameUpTo(p, n, a, b), NEW q \in Int
  PROVE  SameUpTo(p, n + 1, EnergyAfter(a, prev, p, ChannelOf(p, n), BandOf(p, n), q),
                            EnergyAfter(b, prev, p, ChannelOf(p, n), BandOf(p, n), q))
<1> DEFINE c == ChannelOf(p, n)
           i == BandOf(p, n) + 1
           va == Times(coef(p), MaxOf(a[c][i], -9 * ONE)) + prev[c] + ONE * q
           vb == Times(coef(p), MaxOf(b[c][i], -9 * ONE)) + prev[c] + ONE * q
<1>1. c \in 1..2 /\ i \in 1..NbBands
  BY BandsOf
<1>2. va = vb /\ va \in Int
  <2>1. va \in Int
    BY BandsOf, AfterTypes
  <2>2. CASE ~p.intra
    BY <2>1, <2>2 DEF SameUpTo
  <2>3. CASE p.intra
    <3>1. coef(p) = 0
      BY <2>3, CoefInt
    <3>2. MaxOf(a[c][i], -9 * ONE) \in Int /\ MaxOf(b[c][i], -9 * ONE) \in Int
      <4>1. a[c][i] \in Int /\ b[c][i] \in Int
        <5> HIDE DEF c, i
        <5> QED
          BY <1>1 DEF Energies
      <4> QED
        BY <4>1 DEF MaxOf, ONE
    <3>3. Times(coef(p), MaxOf(a[c][i], -9 * ONE)) = 0 /\ Times(coef(p), MaxOf(b[c][i], -9 * ONE)) = 0
      <4>1. 0 \in Int
        OBVIOUS
      <4> QED
        BY <3>1, <3>2, <4>1, TimesInt
    <3> QED
      BY <2>1, <3>3
  <2> QED
    BY <2>2, <2>3
<1> HIDE DEF c, i, va, vb
<1>3. ASSUME NEW k \in Nat, k < Steps(p), k < n + 1 \/ ~p.intra
      PROVE  [a EXCEPT ![c][i] = va][ChannelOf(p, k)][BandOf(p, k) + 1]
               = [b EXCEPT ![c][i] = vb][ChannelOf(p, k)][BandOf(p, k) + 1]
  <2> DEFINE c2 == ChannelOf(p, k)
             i2 == BandOf(p, k) + 1
  <2>1. c2 \in 1..2 /\ i2 \in 1..NbBands
    BY <1>3, BandsOf
  <2>2. CASE c2 = c /\ i2 = i
    <3> HIDE DEF c2, i2
    <3>4. [a EXCEPT ![c][i] = va][c][i] = va
      BY <1>1 DEF Energies
    <3>5. [b EXCEPT ![c][i] = vb][c][i] = vb
      BY <1>1 DEF Energies
    <3>1. [a EXCEPT ![c][i] = va][c][i] = va /\ [b EXCEPT ![c][i] = vb][c][i] = vb
      BY <3>4, <3>5
    <3>2. [a EXCEPT ![c][i] = va][c2][i2] = [b EXCEPT ![c][i] = vb][c2][i2]
      BY <1>2, <2>2, <3>1
    <3> QED
      BY <3>2 DEF c2, i2
  <2>3. CASE c2 # c \/ i2 # i
    <3>1. a[c2][i2] = b[c2][i2]
      <4>1. k # n
        BY <2>3 DEF c, i
      <4>2. k < n \/ ~p.intra
        BY <1>3, <4>1
      <4> QED
        BY <1>3, <4>2 DEF SameUpTo
    <3> HIDE DEF c2, i2
    <3>2. [a EXCEPT ![c][i] = va][c2][i2] = a[c2][i2] /\ [b EXCEPT ![c][i] = vb][c2][i2] = b[c2][i2]
      BY <1>1, <1>2, <2>1, <2>3, EnergyPut
    <3> QED
      BY <3>1, <3>2 DEF c2, i2
  <2> QED
    BY <2>2, <2>3
<1> QED
  BY <1>3 DEF SameUpTo, EnergyAfter, c, i, va, vb

(* The first bands are not left with a single bit, in which a fall of more  *)
(* than one step would be told as one.                                      *)
Spared(s, p, x) == \A k \in Nat : k < p.channels => TellBits(CoarseFrom(s, p, x, k).rc) + 1 # p.budget

(* The decoder's steps mirror the encoder's.                                *)
LEMMA CoarseMirrors ==
  ASSUME NEW p, BandParams(p), NEW x \in Energies, NEW s, CoarseState(s),
         NEW pd, SameBands(p, pd), NEW sd, UncoarseState(sd), sd.prev = s.prev,
         NEW all, Follows(sd.rc, s.rc, all), Begins(CoarseFrom(s, p, x, Steps(p)).rc.syms, all),
         \A k \in Nat : k < Steps(p) => Alike(TellBits(CoarseFrom(s, p, x, k).rc), p.budget, pd.budget)
  PROVE  /\ Follows(UncoarseFrom(sd, pd, Steps(p)).rc, CoarseFrom(s, p, x, Steps(p)).rc, all)
         /\ UncoarseFrom(sd, pd, Steps(p)).rc.bytes = sd.rc.bytes
         /\ UncoarseState(UncoarseFrom(sd, pd, Steps(p)))
         /\ Spared(s, p, x) /\ SameUpTo(p, 0, s.e, sd.e)
              => SameUpTo(p, Steps(p), CoarseFrom(s, p, x, Steps(p)).e, UncoarseFrom(sd, pd, Steps(p)).e)
<1> DEFINE E(m) == CoarseFrom(s, p, x, m)
           D(m) == UncoarseFrom(sd, pd, m)
           Same == Spared(s, p, x) /\ SameUpTo(p, 0, s.e, sd.e)
           Good(m, y, z) == /\ UncoarseState(z) /\ Follows(z.rc, y.rc, all) /\ z.rc.bytes = sd.rc.bytes
                            /\ Same => z.prev = y.prev /\ SameUpTo(p, m, y.e, z.e)
           T == {m \in Nat : m <= Steps(p) => Good(m, E(m), D(m))}
<1>1. E(0) = s /\ \A m \in Nat : E(m + 1) = CoarseStep(E(m), p, x, m)
  BY CoarseGoes
<1>2. D(0) = sd /\ \A m \in Nat : D(m + 1) = UncoarseStep(D(m), pd, m)
  BY UncoarseGoes
<1>3. Steps(p) \in Nat
  BY BandsOf
<1>4. \A m \in Nat : m <= Steps(p) => CoarseState(E(m))
  BY CoarseGrows
<1>5. ASSUME NEW m \in Nat, m <= Steps(p) PROVE Begins(E(m).rc.syms, all)
  <2>1. Steps(p) - m \in Nat /\ m + (Steps(p) - m) = Steps(p) /\ m + (Steps(p) - m) <= Steps(p)
    BY <1>3, <1>5
  <2>2. Grows(CoarseFrom(s, p, x, m).rc, CoarseFrom(s, p, x, m + (Steps(p) - m)).rc)
    BY <2>1, CoarseGrowsOn
  <2>3. Log(all)
    BY DEF Follows
  <2> QED
    BY <2>1, <2>2, <2>3, BeginsOn
<1>6. \A k \in Nat : k < Steps(p) => Alike(TellBits(E(k).rc), p.budget, pd.budget)
  OBVIOUS
<1>7. ASSUME NEW k \in Nat, Same, k < p.channels PROVE TellBits(E(k).rc) + 1 # p.budget
  BY <1>7 DEF Spared
<1> HIDE DEF E, D
<1>8. 0 \in T
  BY <1>1, <1>2
<1>9. ASSUME NEW m \in Nat, m \in T PROVE m + 1 \in T
  <2> SUFFICES ASSUME m + 1 <= Steps(p) PROVE Good(m + 1, E(m + 1), D(m + 1))
    OBVIOUS
  <2>1. m < Steps(p) /\ m <= Steps(p) /\ m + 1 \in Nat
    BY <1>3
  <2>2. Good(m, E(m), D(m)) /\ CoarseState(E(m))
    BY <1>4, <1>9, <2>1
  <2>3. E(m + 1) = CoarseStep(E(m), p, x, m) /\ D(m + 1) = UncoarseStep(D(m), pd, m)
    BY <1>1, <1>2
  <2>4. PICK q : CoarseMove(E(m), p, m, E(m + 1), q)
    BY <2>1, <2>2, <2>3, CoarseStepIs
  <2> DEFINE c == ChannelOf(p, m)
             j == BandOf(p, m)
             r == DecStep(D(m).rc, pd, j)
  <2>5. Coded1(E(m).rc, p, j, E(m + 1).rc, q) /\ q \in Int
    BY <2>4 DEF CoarseMove
  <2>6. Begins(E(m + 1).rc.syms, all) /\ Alike(TellBits(E(m).rc), p.budget, pd.budget) /\ Follows(D(m).rc, E(m).rc, all)
    BY <1>5, <1>6, <2>1, <2>2
  <2>7. /\ Follows(r, E(m + 1).rc, all) /\ r.bytes = D(m).rc.bytes /\ r.got \in Int
        /\ (TellBits(E(m).rc) + 1 = p.budget => q >= -1) => r.got = q
    BY <2>5, <2>6 DEF Coded1
  <2>8. /\ D(m + 1).rc = r
        /\ D(m + 1).e = EnergyAfter(D(m).e, D(m).prev, p, c, j, r.got)
        /\ D(m + 1).prev = PrevAfter(D(m).prev, p, c, r.got)
        /\ UncoarseState(D(m + 1))
    BY <2>1, <2>2, <2>3, <2>7, UncoarseStepIs
  <2>9. ASSUME Same
        PROVE  D(m + 1).prev = E(m + 1).prev /\ SameUpTo(p, m + 1, E(m + 1).e, D(m + 1).e)
    <3>1. r.got = q
      <4>1. m >= p.channels => (TellBits(E(m).rc) + 1 = p.budget => q >= -1)
        BY <2>4 DEF CoarseMove
      <4>2. m < p.channels => TellBits(E(m).rc) + 1 # p.budget
        BY <1>7, <2>9
      <4>3. p.channels \in Nat
        BY DEF BandParams
      <4> QED
        BY <2>7, <4>1, <4>2, <4>3
    <3>2. D(m).prev = E(m).prev /\ SameUpTo(p, m, E(m).e, D(m).e)
      BY <2>2, <2>9
    <3>3. E(m + 1).e = EnergyAfter(E(m).e, E(m).prev, p, c, j, q) /\ E(m + 1).prev = PrevAfter(E(m).prev, p, c, q)
      BY <2>4 DEF CoarseMove
    <3>4. E(m).e \in Energies /\ E(m).prev \in [1..2 -> Int] /\ D(m).e \in Energies
      BY <2>2 DEF CoarseState, UncoarseState
    <3>5. SameUpTo(p, m + 1, EnergyAfter(E(m).e, E(m).prev, p, c, j, q), EnergyAfter(D(m).e, E(m).prev, p, c, j, q))
      BY <2>1, <2>5, <3>2, <3>4, SameAfter
    <3> QED
      BY <2>8, <3>1, <3>2, <3>3, <3>5
  <2> QED
    BY <2>2, <2>7, <2>8, <2>9
<1>10. T = Nat
  <2>1. T \in SUBSET Nat
    OBVIOUS
  <2> HIDE DEF T
  <2> QED
    BY <1>8, <1>9, <2>1, NatSetInduction
<1>11. Good(Steps(p), E(Steps(p)), D(Steps(p)))
  <2>1. Steps(p) \in T
    BY <1>3, <1>10
  <2> HIDE DEF Good
  <2> QED
    BY <2>1, <1>3
<1> QED
  BY <1>11 DEF E, D

-----------------------------------------------------------------------------
(* Fine energies, and the last bits.                                        *)
FineState(s) ==
    /\ s = [rc |-> s.rc, e |-> s.e, error |-> s.error]
    /\ Coder(s.rc) /\ s.e \in Energies /\ s.error \in Energies
UnfineState(s) == s = [rc |-> s.rc, e |-> s.e] /\ s.e \in Energies

Moved(e, c, j, v) == [e EXCEPT ![c][j + 1] = e[c][j + 1] + v]
Same(p, a, b) ==
    \A k \in Nat : k < Steps(p) => a[ChannelOf(p, k)][BandOf(p, k) + 1] = b[ChannelOf(p, k)][BandOf(p, k) + 1]

(* Energies with one band moved are energies.                               *)
LEMMA MovedTypes ==
  ASSUME NEW e \in Energies, NEW c \in 1..2, NEW j \in 0..20, NEW v \in Int
  PROVE  Moved(e, c, j, v) \in Energies
<1>1. j + 1 \in 1..NbBands
  BY DEF NbBands
<1> DEFINE i == j + 1
           w == e[c][i] + v
<1>2. e[c][i] \in Int
  <2> HIDE DEF i
  <2> QED
    BY <1>1 DEF Energies, i
<1>3. w \in Int
  BY <1>2
<1> HIDE DEF w, i
<1>4. [e EXCEPT ![c][i] = w] \in Energies
  BY <1>1, <1>3, EnergyPut DEF i
<1> QED
  BY <1>4 DEF Moved, w, i

(* Moving a band by the same amount keeps both ends the same.               *)
LEMMA MovedSame ==
  ASSUME NEW p, BandParams(p), NEW a \in Energies, NEW b \in Energies, NEW n \in Nat, n < Steps(p), Same(p, a, b), NEW v \in Int
  PROVE  Same(p, Moved(a, ChannelOf(p, n), BandOf(p, n), v), Moved(b, ChannelOf(p, n), BandOf(p, n), v))
<1> DEFINE c == ChannelOf(p, n)
           i == BandOf(p, n) + 1
           va == a[c][i] + v
           vb == b[c][i] + v
<1>1. c \in 1..2 /\ i \in 1..NbBands
  BY BandsOf
<1>2. va = vb
  BY DEF Same
<1> HIDE DEF c, i, va, vb
<1>3. ASSUME NEW k \in Nat, k < Steps(p)
      PROVE  [a EXCEPT ![c][i] = va][ChannelOf(p, k)][BandOf(p, k) + 1]
               = [b EXCEPT ![c][i] = vb][ChannelOf(p, k)][BandOf(p, k) + 1]
  <2> DEFINE c2 == ChannelOf(p, k)
             i2 == BandOf(p, k) + 1
  <2>1. c2 \in 1..2 /\ i2 \in 1..NbBands /\ a[c2][i2] = b[c2][i2]
    BY <1>3, BandsOf DEF Same
  <2> HIDE DEF c2, i2
  <2>2. [a EXCEPT ![c][i] = va][c2][i2] = [b EXCEPT ![c][i] = vb][c2][i2]
    BY <1>1, <1>2, <2>1 DEF Energies
  <2> QED
    BY <2>2 DEF c2, i2
<1> QED
  BY <1>3 DEF Same, Moved, c, i, va, vb

(* One correction, at both ends.                                            *)
LEMMA RefinedIs ==
  ASSUME NEW s, FineState(s), NEW c \in 1..2, NEW j \in 0..20, NEW q, NEW n \in Nat, NEW v \in Int
  PROVE  /\ FineState(Refined(s, c, j, q, n, v))
         /\ Refined(s, c, j, q, n, v).rc = EncRaw(s.rc, q, n)
         /\ Refined(s, c, j, q, n, v).e = Moved(s.e, c, j, v)
<1> DEFINE i == j + 1
           y == EncRaw(s.rc, q, n)
           z == Refined(s, c, j, q, n, v)
           w == s.e[c][i] + v
           g == s.error[c][i] - v
<1>1. i \in 1..NbBands
  BY DEF NbBands
<1>2. z = [s EXCEPT !.rc = y, !.e[c][i] = w, !.error[c][i] = g]
  BY DEF Refined
<1> HIDE DEF z
<1>3. z = [rc |-> y, e |-> [s.e EXCEPT ![c][i] = w], error |-> [s.error EXCEPT ![c][i] = g]]
  <2> HIDE DEF y, w, g
  <2>1. PICK a1, a2, a3 : s = [rc |-> a1, e |-> a2, error |-> a3]
    BY DEF FineState
  <2> QED
    BY <1>2, <2>1
<1>4. Coder(y)
  BY RawGrows DEF FineState, Grows
<1>5. Moved(s.e, c, j, v) \in Energies
  BY MovedTypes DEF FineState
<1>6. [s.error EXCEPT ![c][i] = g] \in Energies
  <2>1. s.error \in Energies
    BY DEF FineState
  <2>2. s.error[c][i] \in Int
    <3> HIDE DEF i
    <3> QED
      BY <1>1, <2>1 DEF Energies
  <2>3. g \in Int
    BY <2>2
  <2> HIDE DEF g, i
  <2> QED
    BY <1>1, <2>1, <2>3, EnergyPut
<1>7. z.e = Moved(s.e, c, j, v) /\ z.rc = y
  BY <1>3 DEF Moved
<1>8. FineState(z)
  <2> HIDE DEF y, w, g, i
  <2> QED
    BY <1>3, <1>4, <1>5, <1>6, <1>7 DEF FineState
<1> QED
  BY <1>7, <1>8 DEF z

(* The decoder's refinement moves one band and keeps the coder read.        *)
LEMMA UnrefinedIs ==
  ASSUME NEW s, UnfineState(s), NEW c \in 1..2, NEW j \in 0..20, NEW r, NEW v \in Int
  PROVE  /\ UnfineState(Unrefined(s, c, j, r, v))
         /\ Unrefined(s, c, j, r, v).rc = r
         /\ Unrefined(s, c, j, r, v).e = Moved(s.e, c, j, v)
<1> DEFINE i == j + 1
           z == Unrefined(s, c, j, r, v)
           w == s.e[c][i] + v
<1>1. z = [s EXCEPT !.rc = r, !.e[c][i] = w]
  BY DEF Unrefined
<1> HIDE DEF z
<1>2. z = [rc |-> r, e |-> [s.e EXCEPT ![c][i] = w]]
  <2> HIDE DEF w
  <2>1. PICK a1, a2 : s = [rc |-> a1, e |-> a2]
    BY DEF UnfineState
  <2> QED
    BY <1>1, <2>1
<1>3. Moved(s.e, c, j, v) \in Energies
  BY MovedTypes DEF UnfineState
<1>4. z.e = Moved(s.e, c, j, v) /\ z.rc = r
  BY <1>2 DEF Moved
<1>5. UnfineState(z)
  <2> HIDE DEF w, i
  <2> QED
    BY <1>2, <1>3, <1>4 DEF UnfineState
<1> QED
  BY <1>4, <1>5 DEF z

(* Powers of two, up to the most fine bits a band has.                      *)
LEMMA Powers == ASSUME NEW n \in 0..8 PROVE Pow2(n) \in Nat /\ Pow2(n) >= 1 /\ Pow2(n) <= 256
<1>1. n = 0 \/ n = 1 \/ n = 2 \/ n = 3 \/ n = 4 \/ n = 5 \/ n = 6 \/ n = 7 \/ n = 8
  OBVIOUS
<1> QED
  BY <1>1 DEF Pow2, POWERS

(* The offset fine bits stand for is an integer.                            *)
LEMMA FineOffsetInt ==
  ASSUME NEW q \in Int, NEW n \in 0..8
  PROVE  FineOffset(q, n) \in Int
<1>1. Pow2(n) \in Nat /\ Pow2(n) >= 1
  BY Powers
<1>2. \A a \in Int, b \in Nat : b >= 1 => a \div b \in Int
  OBVIOUS
<1>3. (2 * q + 1) * 512 \in Int
  OBVIOUS
<1>4. ((2 * q + 1) * 512) \div Pow2(n) \in Int
  BY <1>1, <1>2, <1>3
<1> QED
  BY <1>4 DEF FineOffset

(* The index of a remaining error is an integer.                            *)
LEMMA FineIndexInt ==
  ASSUME NEW error \in Int, NEW n \in 0..8
  PROVE  FineIndex(error, n) \in Int
<1>1. Pow2(n) \in Nat
  BY Powers
<1>2. \A a \in Int, b \in Nat : a * b \in Int
  OBVIOUS
<1>3. error + 512 \in Int
  OBVIOUS
<1>4. (error + 512) * Pow2(n) \in Int
  BY <1>1, <1>2, <1>3
<1>5. ((error + 512) * Pow2(n)) \div ONE \in Int
  BY <1>4 DEF ONE
<1> QED
  BY <1>1, <1>5 DEF FineIndex, Clamp, MaxOf, MinOf

(* The offset a final bit stands for is an integer.                         *)
LEMMA HalfOffsetInt ==
  ASSUME NEW q2 \in Int, NEW n \in 0..8
  PROVE  HalfOffset(q2, n) \in Int
<1>1. Pow2(8 - n) \in Nat
  <2>1. 8 - n \in 0..8
    OBVIOUS
  <2> QED
    BY <2>1, Powers
<1>2. \A a \in Int, b \in Nat : a * b \in Int
  OBVIOUS
<1>3. 2 * q2 - 1 \in Int
  OBVIOUS
<1> QED
  BY <1>1, <1>2, <1>3 DEF HalfOffset

-----------------------------------------------------------------------------
(* Every band has at most so many fine bits.                                *)
Bounded(bits, most) == most \in 0..8 /\ \A i \in 1..NbBands : bits[i] \in 0..most

(* z is s with one correction of n bits and value q.                        *)
Corrected(s, c, j, q, n, v, z) ==
    /\ FineState(z) /\ z.rc = EncRaw(s.rc, q, n) /\ z.e = Moved(s.e, c, j, v)
    /\ Grows(s.rc, z.rc) /\ z.rc.frac = s.rc.frac + 8 * n

(* One turn of quant_fine_energy's loop passes a band without bits, or      *)
(* sends its bits and moves it.                                             *)
LEMMA FineStepIs ==
  ASSUME NEW p, BandParams(p), NEW bits, NEW most, Bounded(bits, most), NEW s, FineState(s), NEW k \in Nat, k < Steps(p)
  PROVE  \/ bits[BandOf(p, k) + 1] <= 0 /\ FineStep(s, p, bits, k) = s
         \/ /\ bits[BandOf(p, k) + 1] \in 1..most
            /\ \E q \in Int : Corrected(s, ChannelOf(p, k), BandOf(p, k), q, bits[BandOf(p, k) + 1],
                                        FineOffset(q, bits[BandOf(p, k) + 1]), FineStep(s, p, bits, k))
<1> DEFINE c == ChannelOf(p, k)
           j == BandOf(p, k)
           n == bits[j + 1]
           q == FineIndex(s.error[c][j + 1], n)
           v == FineOffset(q, n)
           z == FineStep(s, p, bits, k)
<1>1. c \in 1..2 /\ j \in 0..20 /\ j + 1 \in 1..NbBands
  BY BandsOf
<1>2. n \in 0..most /\ most \in 0..8
  BY <1>1 DEF Bounded
<1>3. CASE n <= 0
  BY <1>3 DEF FineStep
<1>4. CASE ~(n <= 0)
  <2>1. z = Refined(s, c, j, q, n, v)
    BY <1>4 DEF FineStep, FineBand
  <2>2. n \in 1..most /\ n \in 0..8 /\ n \in Nat
    BY <1>2, <1>4
  <2>3. s.error[c][j + 1] \in Int
    <3> HIDE DEF c, j
    <3>1. s.error \in Energies
      BY DEF FineState
    <3> QED
      BY <1>1, <3>1 DEF Energies
  <2> HIDE DEF c, j, n, z
  <2>4. q \in Int
    BY <2>2, <2>3, FineIndexInt
  <2> HIDE DEF q
  <2>5. v \in Int
    BY <2>2, <2>4, FineOffsetInt
  <2> HIDE DEF v
  <2>6. FineState(z) /\ z.rc = EncRaw(s.rc, q, n) /\ z.e = Moved(s.e, c, j, v)
    BY <1>1, <2>1, <2>2, <2>5, RefinedIs
  <2>7. Grows(s.rc, z.rc) /\ z.rc.frac = s.rc.frac + 8 * n
    BY <2>2, <2>6, RawGrows DEF FineState
  <2>8. Corrected(s, c, j, q, n, FineOffset(q, n), z)
    BY <2>6, <2>7 DEF Corrected, v
  <2> QED
    BY <2>2, <2>4, <2>8 DEF c, j, n, z
<1> QED
  BY <1>3, <1>4

(* One turn of unquant_fine_energy's loop does the same by the bits read.   *)
LEMMA UnfineStepIs ==
  ASSUME NEW p, BandParams(p), NEW pd, SameBands(p, pd), NEW bits, NEW most, Bounded(bits, most),
         NEW s, UnfineState(s), NEW k \in Nat, k < Steps(p)
  PROVE  /\ bits[BandOf(p, k) + 1] <= 0 => UnfineStep(s, pd, bits, k) = s
         /\ bits[BandOf(p, k) + 1] \in 1..most /\ DecRaw(s.rc, bits[BandOf(p, k) + 1]).got \in Int
              => /\ UnfineState(UnfineStep(s, pd, bits, k))
                 /\ UnfineStep(s, pd, bits, k).rc = DecRaw(s.rc, bits[BandOf(p, k) + 1])
                 /\ UnfineStep(s, pd, bits, k).e
                      = Moved(s.e, ChannelOf(p, k), BandOf(p, k),
                              FineOffset(DecRaw(s.rc, bits[BandOf(p, k) + 1]).got, bits[BandOf(p, k) + 1]))
<1> DEFINE c == ChannelOf(p, k)
           j == BandOf(p, k)
           n == bits[j + 1]
           r == DecRaw(s.rc, n)
           v == FineOffset(r.got, n)
           z == UnfineStep(s, pd, bits, k)
<1>1. c \in 1..2 /\ j \in 0..20 /\ j + 1 \in 1..NbBands
  BY BandsOf
<1>2. ChannelOf(pd, k) = c /\ BandOf(pd, k) = j
  BY DEF SameBands, ChannelOf, BandOf
<1>3. n \in 0..most /\ most \in 0..8
  BY <1>1 DEF Bounded
<1>4. n <= 0 => z = s
  BY <1>2 DEF UnfineStep
<1>5. ASSUME n \in 1..most, r.got \in Int
      PROVE  UnfineState(z) /\ z.rc = r /\ z.e = Moved(s.e, c, j, v)
  <2>1. ~(n <= 0) /\ n \in 0..8
    BY <1>3, <1>5
  <2>2. z = Unrefined(s, c, j, r, v)
    BY <1>2, <2>1 DEF UnfineStep, UnfineBand
  <2>3. v \in Int
    BY <1>5, <2>1, FineOffsetInt
  <2> HIDE DEF v, r, c, j, n, z
  <2> QED
    BY <1>1, <2>2, <2>3, UnrefinedIs
<1> QED
  BY <1>4, <1>5

-----------------------------------------------------------------------------
(* All fine bits, written, and read.                                        *)
LEMMA FineGrows ==
  ASSUME NEW p, BandParams(p), NEW bits, NEW most, Bounded(bits, most), NEW s, FineState(s), NEW n \in Nat, n <= Steps(p)
  PROVE  /\ FineState(FineFrom(s, p, bits, n))
         /\ Grows(s.rc, FineFrom(s, p, bits, n).rc)
         /\ FineFrom(s, p, bits, n).rc.frac <= s.rc.frac + 8 * most * n
<1> DEFINE E(m) == FineFrom(s, p, bits, m)
           Good(m, z) == FineState(z) /\ Grows(s.rc, z.rc) /\ z.rc.frac <= s.rc.frac + 8 * (most * m)
           T == {m \in Nat : m <= Steps(p) => Good(m, E(m))}
<1>1. E(0) = s /\ \A m \in Nat : E(m + 1) = FineStep(E(m), p, bits, m)
  BY FineGoes
<1>2. Steps(p) \in Nat /\ most \in 0..8 /\ s.rc.frac \in Nat
  BY BandsOf, CoderCounts DEF Bounded, FineState
<1> HIDE DEF E
<1>3. 0 \in T
  <2>1. Grows(s.rc, s.rc)
    BY GrowsSelf DEF FineState
  <2>2. most * 0 = 0
    BY <1>2
  <2> QED
    BY <1>1, <1>2, <2>1, <2>2
<1>4. ASSUME NEW m \in Nat, m \in T PROVE m + 1 \in T
  <2> SUFFICES ASSUME m + 1 <= Steps(p) PROVE Good(m + 1, E(m + 1))
    OBVIOUS
  <2>1. m < Steps(p) /\ Good(m, E(m)) /\ E(m + 1) = FineStep(E(m), p, bits, m)
    BY <1>1, <1>2, <1>4
  <2> DEFINE a == most * m
  <2>2. a \in Nat /\ most * (m + 1) = a + most
    <3>1. \A x, y \in Nat : x * y \in Nat
      OBVIOUS
    <3>2. most \in Nat
      BY <1>2
    <3> QED
      BY <3>1, <3>2
  <2>3. E(m).rc.frac \in Nat /\ E(m).rc.frac <= s.rc.frac + 8 * a
    BY <2>1, CoderCounts DEF FineState
  <2> HIDE DEF a
  <2>4. CASE FineStep(E(m), p, bits, m) = E(m)
    <3>1. E(m).rc.frac <= s.rc.frac + 8 * (a + most)
      BY <1>2, <2>2, <2>3
    <3> QED
      BY <2>1, <2>2, <2>4, <3>1
  <2>5. CASE \E q \in Int : Corrected(E(m), ChannelOf(p, m), BandOf(p, m), q, bits[BandOf(p, m) + 1],
                                      FineOffset(q, bits[BandOf(p, m) + 1]), FineStep(E(m), p, bits, m))
             /\ bits[BandOf(p, m) + 1] \in 1..most
    <3> DEFINE b == bits[BandOf(p, m) + 1]
    <3>1. FineState(E(m + 1)) /\ Grows(E(m).rc, E(m + 1).rc) /\ E(m + 1).rc.frac = E(m).rc.frac + 8 * b /\ b \in 1..most
      BY <2>1, <2>5 DEF Corrected
    <3>2. Grows(s.rc, E(m + 1).rc)
      BY <2>1, <3>1, GrowsOn
    <3> HIDE DEF b
    <3>3. E(m + 1).rc.frac <= s.rc.frac + 8 * (a + most)
      BY <1>2, <2>2, <2>3, <3>1
    <3> QED
      BY <2>2, <3>1, <3>2, <3>3
  <2>6. FineState(E(m))
    BY <2>1
  <2> QED
    BY <2>1, <2>4, <2>5, <2>6, FineStepIs
<1>5. T = Nat
  <2>1. T \in SUBSET Nat
    OBVIOUS
  <2> HIDE DEF T
  <2> QED
    BY <1>3, <1>4, <2>1, NatSetInduction
<1>6. Good(n, E(n))
  <2>1. n \in T
    BY <1>5
  <2> HIDE DEF Good
  <2> QED
    BY <2>1
<1>7. 8 * most * n = 8 * (most * n)
  BY <1>2
<1> QED
  BY <1>6, <1>7 DEF E

(* The decoder follows the encoder through the fine bits, to the same       *)
(* energies.                                                                *)
LEMMA FineMirrors ==
  ASSUME NEW p, BandParams(p), NEW bits, NEW most, Bounded(bits, most), NEW s, FineState(s),
         NEW pd, SameBands(p, pd), NEW sd, UnfineState(sd), NEW all, Follows(sd.rc, s.rc, all),
         NEW n \in Nat, n <= Steps(p), Begins(FineFrom(s, p, bits, n).rc.syms, all)
  PROVE  /\ Follows(UnfineFrom(sd, pd, bits, n).rc, FineFrom(s, p, bits, n).rc, all)
         /\ UnfineFrom(sd, pd, bits, n).rc.bytes = sd.rc.bytes
         /\ UnfineState(UnfineFrom(sd, pd, bits, n))
         /\ Same(p, s.e, sd.e) => Same(p, FineFrom(s, p, bits, n).e, UnfineFrom(sd, pd, bits, n).e)
<1> DEFINE E(m) == FineFrom(s, p, bits, m)
           D(m) == UnfineFrom(sd, pd, bits, m)
           Good(y, z) == /\ UnfineState(z) /\ Follows(z.rc, y.rc, all) /\ z.rc.bytes = sd.rc.bytes
                         /\ Same(p, s.e, sd.e) => Same(p, y.e, z.e)
           T == {m \in Nat : m <= Steps(p) /\ Begins(E(m).rc.syms, all) => Good(E(m), D(m))}
<1>1. E(0) = s /\ \A m \in Nat : E(m + 1) = FineStep(E(m), p, bits, m)
  BY FineGoes
<1>2. D(0) = sd /\ \A m \in Nat : D(m + 1) = UnfineStep(D(m), pd, bits, m)
  BY UnfineGoes
<1>3. Steps(p) \in Nat
  BY BandsOf
<1>4. \A m \in Nat : m <= Steps(p) => FineState(E(m))
  BY FineGrows
<1> HIDE DEF E, D
<1>5. 0 \in T
  BY <1>1, <1>2
<1>6. ASSUME NEW m \in Nat, m \in T PROVE m + 1 \in T
  <2> SUFFICES ASSUME m + 1 <= Steps(p), Begins(E(m + 1).rc.syms, all) PROVE Good(E(m + 1), D(m + 1))
    OBVIOUS
  <2>1. m < Steps(p) /\ m <= Steps(p) /\ FineState(E(m)) /\ E(m + 1) = FineStep(E(m), p, bits, m)
        /\ D(m + 1) = UnfineStep(D(m), pd, bits, m)
    BY <1>1, <1>2, <1>3, <1>4
  <2> DEFINE c == ChannelOf(p, m)
             j == BandOf(p, m)
             b == bits[j + 1]
             r == DecRaw(D(m).rc, b)
  <2>2. CASE b <= 0 /\ FineStep(E(m), p, bits, m) = E(m)
    <3>1. Good(E(m), D(m))
      BY <1>6, <2>1, <2>2
    <3>2. D(m + 1) = D(m)
      BY <2>1, <2>2, <3>1, UnfineStepIs
    <3> QED
      BY <2>1, <2>2, <3>1, <3>2
  <2>3. CASE b \in 1..most /\ \E q \in Int : Corrected(E(m), c, j, q, b, FineOffset(q, b), FineStep(E(m), p, bits, m))
    <3>1. PICK q \in Int : Corrected(E(m), c, j, q, b, FineOffset(q, b), E(m + 1))
      BY <2>1, <2>3
    <3>2. /\ FineState(E(m + 1)) /\ E(m + 1).rc = EncRaw(E(m).rc, q, b) /\ Grows(E(m).rc, E(m + 1).rc)
          /\ E(m + 1).e = Moved(E(m).e, c, j, FineOffset(q, b))
      BY <3>1 DEF Corrected
    <3>3. Begins(E(m).rc.syms, all)
      <4>1. Log(all)
        BY DEF Follows
      <4> QED
        BY <3>2, <4>1, BeginsOn
    <3>4. Good(E(m), D(m))
      BY <1>6, <2>1, <3>3
    <3>5. b \in Nat /\ b \in 0..8
      <4>1. most \in 0..8
        BY DEF Bounded
      <4> HIDE DEF b
      <4> QED
        BY <2>3, <4>1
    <3>6. Reads(r, q, D(m).rc, E(m + 1).rc, all)
      <4> HIDE DEF b
      <4> QED
        BY <3>2, <3>4, <3>5, RawReads DEF r
    <3>7. r.got = q /\ r.bytes = D(m).rc.bytes /\ Follows(r, E(m + 1).rc, all)
      BY <3>6 DEF Reads
    <3>8. UnfineState(D(m + 1)) /\ D(m + 1).rc = r /\ D(m + 1).e = Moved(D(m).e, c, j, FineOffset(q, b))
      BY <2>1, <2>3, <3>4, <3>7, UnfineStepIs
    <3>9. ASSUME Same(p, s.e, sd.e) PROVE Same(p, E(m + 1).e, D(m + 1).e)
      <4>1. Same(p, E(m).e, D(m).e)
        BY <3>4, <3>9
      <4>2. FineOffset(q, b) \in Int
        <5> HIDE DEF b
        <5> QED
          BY <3>5, FineOffsetInt
      <4>3. E(m).e \in Energies /\ D(m).e \in Energies
        BY <2>1, <3>4 DEF FineState, UnfineState
      <4> QED
        BY <2>1, <3>2, <3>8, <4>1, <4>2, <4>3, MovedSame
    <3> QED
      BY <3>4, <3>7, <3>8, <3>9
  <2> QED
    BY <2>1, <2>2, <2>3, FineStepIs
<1>7. T = Nat
  <2>1. T \in SUBSET Nat
    OBVIOUS
  <2> HIDE DEF T
  <2> QED
    BY <1>5, <1>6, <2>1, NatSetInduction
<1>8. Good(E(n), D(n))
  <2>1. n \in T /\ Begins(E(n).rc.syms, all)
    BY <1>7 DEF E
  <2> HIDE DEF Good
  <2> QED
    BY <2>1
<1> QED
  BY <1>8 DEF E, D

-----------------------------------------------------------------------------
(* The last bits.                                                           *)
FinalState(f) == f = [s |-> f.s, left |-> f.left] /\ FineState(f.s) /\ f.left \in Int
UnfinalState(f) == f = [s |-> f.s, left |-> f.left] /\ UnfineState(f.s) /\ f.left \in Int
Idle(f, p, bits, priority, k) == f.left < 1 \/ ~Wants(p, bits, priority, k)

(* The turns go over the bands twice.                                       *)
LEMMA PlaceIs ==
  ASSUME NEW p, BandParams(p), NEW k \in Nat, k < 2 * Steps(p)
  PROVE  PlaceOf(p, k) \in Nat /\ PlaceOf(p, k) < Steps(p)
<1>1. Steps(p) \in Nat
  BY BandsOf
<1> DEFINE n == Steps(p)
<1> HIDE DEF n
<1>2. n \in Nat /\ k < 2 * n
  BY <1>1 DEF n
<1>3. (IF k < n THEN k ELSE k - n) \in Nat /\ (IF k < n THEN k ELSE k - n) < n
  BY <1>2
<1> QED
  BY <1>3 DEF PlaceOf, n

(* g is f after turn k of band j and channel c, which told q.               *)
FinalMove(f, bits, c, j, g, q) ==
    /\ q \in 0..1 /\ FinalState(g) /\ g.left = f.left - 1
    /\ Corrected(f.s, c, j, q, 1, HalfOffset(q, bits[j + 1]), g.s)

(* A turn is idle or corrects a band.                                       *)
LEMMA FinalStepIs ==
  ASSUME NEW p, BandParams(p), NEW bits, NEW most, Bounded(bits, most), NEW priority,
         NEW f, FinalState(f), NEW k \in Nat, k < 2 * Steps(p)
  PROVE  /\ Idle(f, p, bits, priority, k) => FinalStep(f, p, bits, priority, k) = f
         /\ ~Idle(f, p, bits, priority, k)
              => \E q : FinalMove(f, bits, ChannelOf(p, PlaceOf(p, k)), BandOf(p, PlaceOf(p, k)), FinalStep(f, p, bits, priority, k), q)
<1> DEFINE i == PlaceOf(p, k)
           c == ChannelOf(p, i)
           j == BandOf(p, i)
           n == bits[j + 1]
           q == IF f.s.error[c][j + 1] >= 0 THEN 1 ELSE 0
           v == HalfOffset(q, n)
           z == FinalTurn(f.s, p, bits, i)
           g == FinalStep(f, p, bits, priority, k)
<1>0. i \in Nat /\ i < Steps(p)
  BY PlaceIs
<1>1. c \in 1..2 /\ j \in 0..20 /\ j + 1 \in 1..NbBands
  <2> HIDE DEF i
  <2> QED
    BY <1>0, BandsOf
<1>2. n \in 0..8
  BY <1>1 DEF Bounded
<1>3. Idle(f, p, bits, priority, k) => g = f
  BY DEF Idle, FinalStep
<1>4. ASSUME ~Idle(f, p, bits, priority, k)
      PROVE  FinalMove(f, bits, c, j, g, q)
  <2>1. g = [s |-> z, left |-> f.left - 1]
    BY <1>4 DEF Idle, FinalStep, TurnTaken
  <2>2. z = Refined(f.s, c, j, q, 1, v)
    BY DEF FinalTurn, FinalBand
  <2>3. q \in 0..1 /\ q \in Int
    OBVIOUS
  <2> HIDE DEF i, c, j, n, q, z, g
  <2>4. v \in Int
    BY <1>2, <2>3, HalfOffsetInt
  <2> HIDE DEF v
  <2>5. FineState(f.s)
    BY DEF FinalState
  <2>6. FineState(z) /\ z.rc = EncRaw(f.s.rc, q, 1) /\ z.e = Moved(f.s.e, c, j, v)
    BY <1>1, <2>2, <2>4, <2>5, RefinedIs
  <2>7. Grows(f.s.rc, z.rc) /\ z.rc.frac = f.s.rc.frac + 8 * 1
    BY <2>5, <2>6, RawGrows DEF FineState
  <2>8. Corrected(f.s, c, j, q, 1, HalfOffset(q, bits[j + 1]), z)
    BY <2>6, <2>7 DEF Corrected, v, n
  <2>9. g.s = z /\ g.left = f.left - 1
    BY <2>1
  <2>10. FinalState(g)
    BY <2>1, <2>6, <2>9 DEF FinalState
  <2> QED
    BY <2>3, <2>8, <2>9, <2>10 DEF FinalMove
<1> QED
  BY <1>3, <1>4

(* The same turn of the decoder.                                            *)
LEMMA UnfinalStepIs ==
  ASSUME NEW p, BandParams(p), NEW pd, SameBands(p, pd), NEW bits, NEW most, Bounded(bits, most), NEW priority,
         NEW f, UnfinalState(f), NEW k \in Nat, k < 2 * Steps(p), NEW q \in 0..1,
         ~Idle(f, p, bits, priority, k) => DecRaw(f.s.rc, 1).got = q
  PROVE  /\ Idle(f, p, bits, priority, k) => UnfinalStep(f, pd, bits, priority, k) = f
         /\ ~Idle(f, p, bits, priority, k)
              => /\ UnfinalState(UnfinalStep(f, pd, bits, priority, k))
                 /\ UnfinalStep(f, pd, bits, priority, k).left = f.left - 1
                 /\ UnfinalStep(f, pd, bits, priority, k).s.rc = DecRaw(f.s.rc, 1)
                 /\ UnfinalStep(f, pd, bits, priority, k).s.e
                      = Moved(f.s.e, ChannelOf(p, PlaceOf(p, k)), BandOf(p, PlaceOf(p, k)),
                              HalfOffset(q, bits[BandOf(p, PlaceOf(p, k)) + 1]))
<1> DEFINE i == PlaceOf(p, k)
           c == ChannelOf(p, i)
           j == BandOf(p, i)
           n == bits[j + 1]
           r == DecRaw(f.s.rc, 1)
           v == HalfOffset(q, n)
           z == UnfinalTurn(f.s, pd, bits, i)
           g == UnfinalStep(f, pd, bits, priority, k)
<1>0. i \in Nat /\ i < Steps(p)
  BY PlaceIs
<1>1. c \in 1..2 /\ j \in 0..20 /\ j + 1 \in 1..NbBands
  <2> HIDE DEF i
  <2> QED
    BY <1>0, BandsOf
<1>2. n \in 0..8 /\ q \in Int
  BY <1>1 DEF Bounded
<1>3. Steps(pd) = Steps(p) /\ PlaceOf(pd, k) = i /\ PassOf(pd, k) = PassOf(p, k) /\ \A m : ChannelOf(pd, m) = ChannelOf(p, m) /\ BandOf(pd, m) = BandOf(p, m)
  BY DEF SameBands, Steps, PlaceOf, PassOf, ChannelOf, BandOf
<1>4. Wants(pd, bits, priority, k) <=> Wants(p, bits, priority, k)
  <2> HIDE DEF i
  <2> QED
    BY <1>3 DEF Wants, i
<1>5. Idle(f, p, bits, priority, k) => g = f
  BY <1>4 DEF Idle, UnfinalStep
<1>6. ASSUME ~Idle(f, p, bits, priority, k)
      PROVE  UnfinalState(g) /\ g.left = f.left - 1 /\ g.s.rc = r /\ g.s.e = Moved(f.s.e, c, j, v)
  <2>1. g = [s |-> z, left |-> f.left - 1]
    BY <1>3, <1>4, <1>6 DEF Idle, UnfinalStep, TurnTaken
  <2>2. z = Unrefined(f.s, c, j, r, v)
    <3> HIDE DEF i
    <3>1. r.got = q
      BY <1>6
    <3> QED
      BY <1>3, <3>1 DEF UnfinalTurn, UnfinalBand
  <2>3. v \in Int
    <3> HIDE DEF n
    <3> QED
      BY <1>2, HalfOffsetInt
  <2> HIDE DEF i, c, j, n, r, v, z, g
  <2>4. UnfineState(f.s) /\ f.left - 1 \in Int
    BY DEF UnfinalState
  <2>5. UnfineState(z) /\ z.rc = r /\ z.e = Moved(f.s.e, c, j, v)
    BY <1>1, <2>2, <2>3, <2>4, UnrefinedIs
  <2> QED
    BY <2>1, <2>4, <2>5 DEF UnfinalState
<1> QED
  BY <1>5, <1>6

(* All turns, written: no more bits than were left.                         *)
LEMMA FinalGrows ==
  ASSUME NEW p, BandParams(p), NEW bits, NEW most, Bounded(bits, most), NEW priority,
         NEW f, FinalState(f), NEW n \in Nat, n <= 2 * Steps(p)
  PROVE  /\ FinalState(FinalFrom(f, p, bits, priority, n))
         /\ Grows(f.s.rc, FinalFrom(f, p, bits, priority, n).s.rc)
         /\ FinalFrom(f, p, bits, priority, n).s.rc.frac + 8 * FinalFrom(f, p, bits, priority, n).left
              = f.s.rc.frac + 8 * f.left
         /\ f.left >= 0 => FinalFrom(f, p, bits, priority, n).left >= 0
         /\ f.left <= 0 => FinalFrom(f, p, bits, priority, n) = f
<1> DEFINE E(m) == FinalFrom(f, p, bits, priority, m)
           Good(z) == /\ FinalState(z) /\ Grows(f.s.rc, z.s.rc)
                      /\ z.s.rc.frac + 8 * z.left = f.s.rc.frac + 8 * f.left
                      /\ f.left >= 0 => z.left >= 0
                      /\ f.left <= 0 => z = f
           T == {m \in Nat : m <= 2 * Steps(p) => Good(E(m))}
<1>1. E(0) = f /\ \A m \in Nat : E(m + 1) = FinalStep(E(m), p, bits, priority, m)
  BY FinalGoes
<1>2. Steps(p) \in Nat /\ f.left \in Int
  BY BandsOf DEF FinalState
<1> HIDE DEF E
<1>3. 0 \in T
  <2>1. Grows(f.s.rc, f.s.rc)
    BY GrowsSelf DEF FinalState, FineState
  <2> QED
    BY <1>1, <2>1
<1>4. ASSUME NEW m \in Nat, m \in T PROVE m + 1 \in T
  <2> SUFFICES ASSUME m + 1 <= 2 * Steps(p) PROVE Good(E(m + 1))
    OBVIOUS
  <2>1. m < 2 * Steps(p) /\ Good(E(m)) /\ E(m + 1) = FinalStep(E(m), p, bits, priority, m)
    BY <1>1, <1>2, <1>4
  <2>2. CASE Idle(E(m), p, bits, priority, m)
    <3>1. E(m + 1) = E(m)
      BY <2>1, <2>2, FinalStepIs
    <3> HIDE DEF Good
    <3> QED
      BY <2>1, <3>1
  <2>3. CASE ~Idle(E(m), p, bits, priority, m)
    <3>0. FinalState(E(m))
      BY <2>1
    <3>1. PICK q : FinalMove(E(m), bits, ChannelOf(p, PlaceOf(p, m)), BandOf(p, PlaceOf(p, m)), E(m + 1), q)
      <4>1. \E q : FinalMove(E(m), bits, ChannelOf(p, PlaceOf(p, m)), BandOf(p, PlaceOf(p, m)),
                             FinalStep(E(m), p, bits, priority, m), q)
        BY <2>1, <2>3, <3>0, FinalStepIs
      <4> QED
        BY <2>1, <4>1
    <3>2. /\ FinalState(E(m + 1)) /\ Grows(E(m).s.rc, E(m + 1).s.rc) /\ E(m + 1).left = E(m).left - 1
          /\ E(m + 1).s.rc.frac = E(m).s.rc.frac + 8 * 1
      BY <3>1 DEF FinalMove, Corrected
    <3>3. Grows(f.s.rc, E(m + 1).s.rc)
      BY <2>1, <3>2, GrowsOn
    <3>4. E(m).left >= 1 /\ E(m).left \in Int /\ E(m).s.rc.frac \in Nat /\ f.s.rc.frac \in Nat
      BY <2>1, <2>3, CoderCounts DEF Idle, FinalState, FineState
    <3>5. ~(f.left <= 0)
      BY <2>1, <3>4
    <3>6. E(m + 1).s.rc.frac + 8 * E(m + 1).left = f.s.rc.frac + 8 * f.left /\ E(m + 1).left >= 0
      <4> DEFINE a == E(m).s.rc.frac
                 l == E(m).left
                 a0 == f.s.rc.frac
                 l0 == f.left
      <4>1. a + 8 * l = a0 + 8 * l0 /\ a \in Nat /\ a0 \in Nat /\ l \in Int /\ l0 \in Int /\ l >= 1
        BY <1>2, <2>1, <3>4
      <4>2. E(m + 1).s.rc.frac = a + 8 /\ E(m + 1).left = l - 1
        BY <3>2
      <4> HIDE DEF a, l, a0, l0
      <4>3. a + 8 + 8 * (l - 1) = a0 + 8 * l0 /\ l - 1 >= 0
        BY <4>1
      <4> QED
        BY <4>2, <4>3 DEF a0, l0
    <3> QED
      BY <3>2, <3>3, <3>5, <3>6
  <2> QED
    BY <2>2, <2>3
<1>5. T = Nat
  <2>1. T \in SUBSET Nat
    OBVIOUS
  <2> HIDE DEF T
  <2> QED
    BY <1>3, <1>4, <2>1, NatSetInduction
<1>6. Good(E(n))
  <2>1. n \in T
    BY <1>5
  <2> HIDE DEF Good
  <2> QED
    BY <2>1
<1> QED
  BY <1>6 DEF E

(* All turns, read.                                                         *)
LEMMA FinalMirrors ==
  ASSUME NEW p, BandParams(p), NEW bits, NEW most, Bounded(bits, most), NEW priority, NEW f, FinalState(f),
         NEW pd, SameBands(p, pd), NEW fd, UnfinalState(fd), fd.left = f.left, NEW all, Follows(fd.s.rc, f.s.rc, all),
         NEW n \in Nat, n <= 2 * Steps(p), Begins(FinalFrom(f, p, bits, priority, n).s.rc.syms, all)
  PROVE  /\ UnfinalState(UnfinalFrom(fd, pd, bits, priority, n))
         /\ Follows(UnfinalFrom(fd, pd, bits, priority, n).s.rc, FinalFrom(f, p, bits, priority, n).s.rc, all)
         /\ UnfinalFrom(fd, pd, bits, priority, n).s.rc.bytes = fd.s.rc.bytes
         /\ Same(p, f.s.e, fd.s.e)
              => Same(p, FinalFrom(f, p, bits, priority, n).s.e, UnfinalFrom(fd, pd, bits, priority, n).s.e)
<1> DEFINE E(m) == FinalFrom(f, p, bits, priority, m)
           D(m) == UnfinalFrom(fd, pd, bits, priority, m)
           Good(y, z) == /\ UnfinalState(z) /\ Follows(z.s.rc, y.s.rc, all) /\ z.s.rc.bytes = fd.s.rc.bytes /\ z.left = y.left
                         /\ Same(p, f.s.e, fd.s.e) => Same(p, y.s.e, z.s.e)
           T == {m \in Nat : m <= 2 * Steps(p) /\ Begins(E(m).s.rc.syms, all) => Good(E(m), D(m))}
<1>1. E(0) = f /\ \A m \in Nat : E(m + 1) = FinalStep(E(m), p, bits, priority, m)
  BY FinalGoes
<1>2. D(0) = fd /\ \A m \in Nat : D(m + 1) = UnfinalStep(D(m), pd, bits, priority, m)
  BY UnfinalGoes
<1>3. Steps(p) \in Nat
  BY BandsOf
<1>4. \A m \in Nat : m <= 2 * Steps(p) => FinalState(E(m))
  BY FinalGrows
<1> HIDE DEF E, D
<1>5. 0 \in T
  BY <1>1, <1>2
<1>6. ASSUME NEW m \in Nat, m \in T PROVE m + 1 \in T
  <2> SUFFICES ASSUME m + 1 <= 2 * Steps(p), Begins(E(m + 1).s.rc.syms, all) PROVE Good(E(m + 1), D(m + 1))
    OBVIOUS
  <2>1. m < 2 * Steps(p) /\ m <= 2 * Steps(p) /\ FinalState(E(m)) /\ E(m + 1) = FinalStep(E(m), p, bits, priority, m)
        /\ D(m + 1) = UnfinalStep(D(m), pd, bits, priority, m)
    BY <1>1, <1>2, <1>3, <1>4
  <2> DEFINE i == PlaceOf(p, m)
             c == ChannelOf(p, i)
             j == BandOf(p, i)
             b == bits[j + 1]
             r == DecRaw(D(m).s.rc, 1)
  <2>2. CASE Idle(E(m), p, bits, priority, m)
    <3>1. E(m + 1) = E(m)
      BY <2>1, <2>2, FinalStepIs
    <3>2. Good(E(m), D(m))
      BY <1>6, <2>1, <3>1
    <3>3. Idle(D(m), p, bits, priority, m)
      BY <2>2, <3>2 DEF Idle
    <3>4. 0 \in 0..1
      OBVIOUS
    <3>5. D(m + 1) = D(m)
      BY <2>1, <3>2, <3>3, <3>4, UnfinalStepIs
    <3> HIDE DEF Good
    <3> QED
      BY <3>1, <3>2, <3>5
  <2>3. CASE ~Idle(E(m), p, bits, priority, m)
    <3>1. PICK q : FinalMove(E(m), bits, c, j, E(m + 1), q)
      <4>1. \E q : FinalMove(E(m), bits, ChannelOf(p, PlaceOf(p, m)), BandOf(p, PlaceOf(p, m)),
                             FinalStep(E(m), p, bits, priority, m), q)
        BY <2>1, <2>3, FinalStepIs
      <4> QED
        BY <2>1, <4>1
    <3>2. /\ q \in 0..1 /\ E(m + 1).left = E(m).left - 1 /\ E(m + 1).s.rc = EncRaw(E(m).s.rc, q, 1)
          /\ Grows(E(m).s.rc, E(m + 1).s.rc) /\ E(m + 1).s.e = Moved(E(m).s.e, c, j, HalfOffset(q, b))
      BY <3>1 DEF FinalMove, Corrected
    <3>3. Begins(E(m).s.rc.syms, all)
      <4>1. Log(all)
        BY DEF Follows
      <4> QED
        BY <3>2, <4>1, BeginsOn
    <3>4. Good(E(m), D(m))
      BY <1>6, <2>1, <3>3
    <3>5. Reads(r, q, D(m).s.rc, E(m + 1).s.rc, all)
      <4>1. 1 \in Nat /\ Follows(D(m).s.rc, E(m).s.rc, all)
        BY <3>4
      <4> QED
        BY <3>2, <4>1, RawReads DEF r
    <3>6. r.got = q /\ r.bytes = D(m).s.rc.bytes /\ Follows(r, E(m + 1).s.rc, all)
      BY <3>5 DEF Reads
    <3>7. ~Idle(D(m), p, bits, priority, m) /\ UnfinalState(D(m)) /\ D(m).left = E(m).left
      BY <2>3, <3>4 DEF Idle
    <3>8. /\ UnfinalState(D(m + 1)) /\ D(m + 1).left = D(m).left - 1 /\ D(m + 1).s.rc = r
          /\ D(m + 1).s.e = Moved(D(m).s.e, c, j, HalfOffset(q, b))
      BY <2>1, <3>2, <3>6, <3>7, UnfinalStepIs
    <3>9. ASSUME Same(p, f.s.e, fd.s.e) PROVE Same(p, E(m + 1).s.e, D(m + 1).s.e)
      <4>1. Same(p, E(m).s.e, D(m).s.e)
        BY <3>4, <3>9
      <4>2. i \in Nat /\ i < Steps(p)
        BY <2>1, PlaceIs
      <4>3. HalfOffset(q, b) \in Int
        <5>1. j + 1 \in 1..NbBands
          <6> HIDE DEF i
          <6> QED
            BY <4>2, BandsOf
        <5>2. b \in 0..8
          <6> HIDE DEF j
          <6> QED
            BY <5>1 DEF Bounded
        <5>3. q \in Int
          BY <3>2
        <5> HIDE DEF b
        <5> QED
          BY <5>2, <5>3, HalfOffsetInt
      <4>4. E(m).s.e \in Energies /\ D(m).s.e \in Energies
        BY <2>1, <3>7 DEF FinalState, FineState, UnfinalState, UnfineState
      <4> HIDE DEF i
      <4> QED
        BY <3>2, <3>8, <4>1, <4>2, <4>3, <4>4, MovedSame
    <3> QED
      BY <3>2, <3>4, <3>6, <3>7, <3>8, <3>9
  <2> QED
    BY <2>2, <2>3
<1>7. T = Nat
  <2>1. T \in SUBSET Nat
    OBVIOUS
  <2> HIDE DEF T
  <2> QED
    BY <1>5, <1>6, <2>1, NatSetInduction
<1>8. Good(E(n), D(n))
  <2>1. n \in T /\ Begins(E(n).s.rc.syms, all)
    BY <1>7 DEF E
  <2> HIDE DEF Good
  <2> QED
    BY <2>1
<1> QED
  BY <1>8 DEF E, D

-----------------------------------------------------------------------------
(* A frame of B bytes in the end, of which x is written: B is what x counts *)
(* on, or at least 16 bits more than what is written.                       *)
Roomy(x, B) == B \in Nat /\ (B = x.bytes \/ (B <= x.bytes /\ x.frac + 128 <= 64 * B))

(* The room a later coder has the earlier one had.                          *)
LEMMA RoomyOn ==
  ASSUME NEW x, NEW y, Grows(x, y), NEW B, Roomy(y, B)
  PROVE  Roomy(x, B)
<1>1. x.frac \in Nat /\ y.frac \in Nat /\ x.bytes \in Nat /\ y.bytes = x.bytes /\ x.frac <= y.frac
  BY DEF Grows, Coder
<1> QED
  BY <1>1 DEF Roomy

(* With room, a budget of either size leaves 16 bits, or the sizes are the  *)
(* same.                                                                    *)
LEMMA RoomyTells ==
  ASSUME NEW x, Coder(x), NEW B, Roomy(x, B)
  PROVE  8 * B = TotalBits(x) \/ (TellBits(x) + 16 <= 8 * B /\ TellBits(x) + 16 <= TotalBits(x))
<1>1. x.frac \in Nat /\ x.bytes \in Nat
  BY DEF Coder
<1> QED
  BY <1>1 DEF Roomy, TellBits, TotalBits

(* Whatever is asked of the bits left is answered alike.                    *)
LEMMA RoomyAlike ==
  ASSUME NEW x, Coder(x), NEW d, NEW all, Follows(d, x, all), Roomy(x, d.bytes), NEW m \in 0..16
  PROVE  /\ TellBits(d) = TellBits(x)
         /\ TellBits(x) + m <= TotalBits(x) <=> TellBits(d) + m <= TotalBits(d)
         /\ TellBits(x) + m < TotalBits(x) + 1 <=> TellBits(d) + m < TotalBits(d) + 1
<1>1. TellBits(d) = TellBits(x) /\ TellBits(x) \in Nat /\ TotalBits(d) \in Nat /\ TotalBits(x) \in Nat
  BY TellsAlike
<1>2. TotalBits(d) = 8 * d.bytes
  BY DEF TotalBits
<1>3. 8 * d.bytes = TotalBits(x) \/ (TellBits(x) + 16 <= 8 * d.bytes /\ TellBits(x) + 16 <= TotalBits(x))
  BY RoomyTells
<1> DEFINE t == TellBits(x)
           b == TotalBits(x)
           c == TotalBits(d)
<1>4. t \in Nat /\ b \in Nat /\ c \in Nat /\ (b = c \/ (t + 16 <= c /\ t + 16 <= b))
  BY <1>1, <1>2, <1>3
<1> HIDE DEF t, b, c
<1>5. (t + m <= b <=> t + m <= c) /\ (t + m < b + 1 <=> t + m < c + 1)
  BY <1>4
<1> QED
  BY <1>1, <1>5 DEF t, b, c

-----------------------------------------------------------------------------
(* Time-frequency resolution.                                               *)
TfState(r) ==
    /\ r = [rc |-> r.rc, res |-> r.res, curr |-> r.curr, changed |-> r.changed]
    /\ r.curr \in 0..1 /\ r.changed \in 0..1
(* What is wanted of n bands.                                              *)
TfWants(want, n) == Len(want) = n /\ \A k \in 1..n : want[k] \in 0..1

Likewise(r, rd) == rd.res = r.res /\ rd.curr = r.curr /\ rd.changed = r.changed

(* The odds of a change of resolution are those of a bit.                   *)
LEMMA TfLogpIs == ASSUME NEW first, NEW transient PROVE TfLogp(first, transient) \in 2..5 /\ TfLogp(first, transient) \in 1..15
BY DEF TfLogp

(* A band whose flag is not sent keeps the resolution of the band before.   *)
LEMMA TfStaysIs ==
  ASSUME NEW r, TfState(r)
  PROVE  TfStays(r) = [rc |-> r.rc, res |-> Append(r.res, r.curr), curr |-> r.curr, changed |-> r.changed]
<1>1. r = [rc |-> r.rc, res |-> r.res, curr |-> r.curr, changed |-> r.changed]
  BY Zenon DEF TfState
<1>2. PICK a, b, c, d : r = [rc |-> a, res |-> b, curr |-> c, changed |-> d]
  BY <1>1, Zenon
<1> QED
  BY <1>2, SMTT(30) DEF TfStays

(* Both kinds of turn keep the type of the loop's state.                    *)
LEMMA TfSteps ==
  ASSUME NEW r, TfState(r), NEW rc, NEW now \in 0..1
  PROVE  /\ TfState(TfFollows(r, rc, now)) /\ TfFollows(r, rc, now).rc = rc
         /\ TfState(TfStays(r)) /\ TfStays(r).rc = r.rc
<1>1. TfState(TfFollows(r, rc, now)) /\ TfFollows(r, rc, now).rc = rc
  BY DEF TfState, TfFollows, MaxOf
<1>3. TfStays(r) = [rc |-> r.rc, res |-> Append(r.res, r.curr), curr |-> r.curr, changed |-> r.changed]
  BY TfStaysIs
<1>4. TfState(TfStays(r)) /\ TfStays(r).rc = r.rc
  <2>1. r.curr \in 0..1 /\ r.changed \in 0..1
    BY DEF TfState
  <2> QED
    BY <1>3, <2>1 DEF TfState
<1> QED
  BY <1>1, <1>4

(* Both kinds of turn keep both ends' resolutions alike.                    *)
LEMMA TfStepsAlike ==
  ASSUME NEW r, TfState(r), NEW rd, TfState(rd), Likewise(r, rd), NEW rc, NEW rcd, NEW now
  PROVE  Likewise(TfFollows(r, rc, now), TfFollows(rd, rcd, now)) /\ Likewise(TfStays(r), TfStays(rd))
<1>1. Likewise(TfFollows(r, rc, now), TfFollows(rd, rcd, now))
  BY DEF Likewise, TfFollows
<1>4. TfStays(r) = [rc |-> r.rc, res |-> Append(r.res, r.curr), curr |-> r.curr, changed |-> r.changed]
  BY TfStaysIs
<1>5. TfStays(rd) = [rc |-> rd.rc, res |-> Append(rd.res, rd.curr), curr |-> rd.curr, changed |-> rd.changed]
  BY TfStaysIs
<1> QED
  BY <1>1, <1>4, <1>5 DEF Likewise

(* A step of the encoder.                                                   *)
LEMMA EncTfStepIs ==
  ASSUME NEW r, TfState(r), Coder(r.rc), NEW want, NEW transient, NEW budget \in Int, NEW k \in Nat, want[k + 1] \in 0..1
  PROVE  /\ TfState(EncTfStep(r, want, transient, budget, k))
         /\ Grows(r.rc, EncTfStep(r, want, transient, budget, k).rc)
         /\ TellBits(r.rc) <= budget => TellBits(EncTfStep(r, want, transient, budget, k).rc) <= budget
<1> DEFINE w == want[k + 1]
           l == TfLogp(k = 0, transient)
           y == EncBit(r.rc, l, w # r.curr)
           z == EncTfStep(r, want, transient, budget, k)
<1>1. l \in 2..5 /\ l \in 1..15
  BY TfLogpIs
<1>2. CASE TfSent(r.rc, k, transient, budget)
  <2>1. z = TfFollows(r, y, w)
    BY <1>2 DEF EncTfStep
  <2>2. TellBits(r.rc) + l <= budget
    BY <1>2 DEF TfSent
  <2> HIDE DEF l, w
  <2>3. Grows(r.rc, y) /\ y.frac <= r.rc.frac + 8 * l
    BY <1>1, BitGrows
  <2>4. TfState(z) /\ z.rc = y
    BY <2>1, TfSteps DEF w
  <2>5. TellBits(y) <= budget
    <3>1. y.frac \in Nat /\ r.rc.frac \in Nat
      BY <2>3 DEF Grows, Coder
    <3> HIDE DEF y
    <3> QED
      BY <1>1, <2>2, <2>3, <3>1 DEF TellBits
  <2> QED
    BY <2>3, <2>4, <2>5
<1>3. CASE ~TfSent(r.rc, k, transient, budget)
  <2>1. z = TfStays(r)
    BY <1>3 DEF EncTfStep
  <2>2. TfState(z) /\ z.rc = r.rc
    <3>1. 0 \in 0..1
      OBVIOUS
    <3> QED
      BY <2>1, <3>1, TfSteps
  <2>3. Grows(r.rc, r.rc)
    BY GrowsSelf
  <2> QED
    BY <2>2, <2>3
<1> QED
  BY <1>2, <1>3

(* The guard on a flag says the same at both ends.                          *)
Level(t, budget, bd) == budget = bd \/ (t + 5 <= budget /\ t + 5 <= bd)

(* The same step of the decoder.                                            *)
LEMMA DecTfStepIs ==
  ASSUME NEW r, TfState(r), Coder(r.rc), NEW want, NEW transient, NEW budget \in Int, NEW k \in Nat, want[k + 1] \in 0..1,
         NEW rd, TfState(rd), Likewise(r, rd), NEW all, Follows(rd.rc, r.rc, all), NEW bd \in Int,
         Level(TellBits(r.rc), budget, bd), Begins(EncTfStep(r, want, transient, budget, k).rc.syms, all)
  PROVE  /\ TfState(DecTfStep(rd, transient, bd, k))
         /\ Likewise(EncTfStep(r, want, transient, budget, k), DecTfStep(rd, transient, bd, k))
         /\ Follows(DecTfStep(rd, transient, bd, k).rc, EncTfStep(r, want, transient, budget, k).rc, all)
         /\ DecTfStep(rd, transient, bd, k).rc.bytes = rd.rc.bytes
<1> DEFINE w == want[k + 1]
           l == TfLogp(k = 0, transient)
           y == EncBit(r.rc, l, w # r.curr)
           g == DecBit(rd.rc, l)
           z == EncTfStep(r, want, transient, budget, k)
           zd == DecTfStep(rd, transient, bd, k)
<1>1. l \in 2..5 /\ l \in 1..15
  BY TfLogpIs
<1>2. TfSent(rd.rc, k, transient, bd) <=> TfSent(r.rc, k, transient, budget)
  <2>1. TellBits(rd.rc) = TellBits(r.rc) /\ TellBits(r.rc) \in Nat
    BY TellsAlike
  <2> HIDE DEF l
  <2>2. TellBits(r.rc) + l <= budget <=> TellBits(rd.rc) + l <= bd
    BY <1>1, <2>1 DEF Level
  <2> QED
    BY <2>2 DEF TfSent, l
<1>3. CASE TfSent(r.rc, k, transient, budget)
  <2>1. z = TfFollows(r, y, w) /\ zd = TfFollows(rd, g, (rd.curr + g.got) % 2)
    BY <1>2, <1>3 DEF EncTfStep, DecTfStep
  <2>2. z.rc = y
    BY <2>1 DEF TfFollows
  <2>3. Begins(y.syms, all)
    BY <2>2
  <2> HIDE DEF l, w, zd, z
  <2>4. Reads(g, IF w # r.curr THEN 1 ELSE 0, rd.rc, y, all)
    BY <1>1, <2>3, BitReads
  <2> HIDE DEF y, g
  <2>5. g.got = IF w # r.curr THEN 1 ELSE 0
    BY <2>4 DEF Reads
  <2>6. w \in 0..1 /\ r.curr \in 0..1 /\ rd.curr = r.curr
    BY DEF w, TfState, Likewise
  <2>7. (rd.curr + g.got) % 2 = w
    <3>1. (w = 0 \/ w = 1) /\ (r.curr = 0 \/ r.curr = 1)
      BY <2>6
    <3> QED
      BY <2>5, <2>6, <3>1
  <2>8. TfState(zd) /\ zd.rc = g
    BY <2>1, <2>6, <2>7, TfSteps
  <2>9. Likewise(z, zd)
    BY <2>1, <2>7, TfStepsAlike
  <2> QED
    BY <2>2, <2>4, <2>8, <2>9 DEF Reads, z, zd
<1>4. CASE ~TfSent(r.rc, k, transient, budget)
  <2>1. z = TfStays(r) /\ zd = TfStays(rd)
    BY <1>2, <1>4 DEF EncTfStep, DecTfStep
  <2>2. TfState(zd) /\ zd.rc = rd.rc /\ z.rc = r.rc
    <3>1. 0 \in 0..1
      OBVIOUS
    <3> QED
      BY <2>1, <3>1, TfSteps
  <2>3. Likewise(z, zd)
    BY <2>1, TfStepsAlike
  <2> QED
    BY <2>2, <2>3
<1> QED
  BY <1>3, <1>4

(* The loop of tf_encode only appends, and never past the budget it set     *)
(* aside.                                                                   *)
LEMMA TfGrows ==
  ASSUME NEW n \in Nat, NEW want, TfWants(want, n), NEW transient, NEW budget \in Int,
         NEW r, TfState(r), Coder(r.rc), NEW m \in Nat, m <= n
  PROVE  /\ TfState(EncTf(r, want, transient, budget, m))
         /\ Grows(r.rc, EncTf(r, want, transient, budget, m).rc)
         /\ TellBits(r.rc) <= budget => TellBits(EncTf(r, want, transient, budget, m).rc) <= budget
<1> DEFINE E(i) == EncTf(r, want, transient, budget, i)
           Good(z) == /\ TfState(z) /\ Grows(r.rc, z.rc)
                      /\ TellBits(r.rc) <= budget => TellBits(z.rc) <= budget
           T == {i \in Nat : i <= n => Good(E(i))}
<1>1. E(0) = r /\ \A i \in Nat : E(i + 1) = EncTfStep(E(i), want, transient, budget, i)
  BY EncTfGoes
<1> HIDE DEF E
<1>2. 0 \in T
  BY <1>1, GrowsSelf
<1>3. ASSUME NEW i \in Nat, i \in T PROVE i + 1 \in T
  <2> SUFFICES ASSUME i + 1 <= n PROVE Good(E(i + 1))
    OBVIOUS
  <2>1. Good(E(i)) /\ E(i + 1) = EncTfStep(E(i), want, transient, budget, i) /\ want[i + 1] \in 0..1
    BY <1>1, <1>3 DEF TfWants
  <2>2. TfState(E(i)) /\ Coder(E(i).rc) /\ Grows(r.rc, E(i).rc)
    BY <2>1 DEF Grows
  <2>3. /\ TfState(E(i + 1)) /\ Grows(E(i).rc, E(i + 1).rc)
        /\ TellBits(E(i).rc) <= budget => TellBits(E(i + 1).rc) <= budget
    BY <2>1, <2>2, EncTfStepIs
  <2>4. Grows(r.rc, E(i + 1).rc)
    BY <2>2, <2>3, GrowsOn
  <2> QED
    BY <2>1, <2>3, <2>4
<1>4. T = Nat
  <2>1. T \in SUBSET Nat
    OBVIOUS
  <2> HIDE DEF T
  <2> QED
    BY <1>2, <1>3, <2>1, NatSetInduction
<1>5. Good(E(m))
  <2>1. m \in T
    BY <1>4
  <2> HIDE DEF Good
  <2> QED
    BY <2>1
<1> QED
  BY <1>5 DEF E

(* tf_decode's loop reads the flags tf_encode's loop sent.                  *)
LEMMA TfFlagsMirror ==
  ASSUME NEW n \in Nat, NEW want, TfWants(want, n), NEW transient, NEW budget \in Int,
         NEW r, TfState(r), NEW rd, TfState(rd), Likewise(r, rd), NEW all, Follows(rd.rc, r.rc, all), NEW bd \in Int,
         Begins(EncTf(r, want, transient, budget, n).rc.syms, all),
         Level(TellBits(EncTf(r, want, transient, budget, n).rc), budget, bd)
  PROVE  /\ TfState(DecTf(rd, transient, bd, n))
         /\ Likewise(EncTf(r, want, transient, budget, n), DecTf(rd, transient, bd, n))
         /\ Follows(DecTf(rd, transient, bd, n).rc, EncTf(r, want, transient, budget, n).rc, all)
         /\ DecTf(rd, transient, bd, n).rc.bytes = rd.rc.bytes
<1> DEFINE E(i) == EncTf(r, want, transient, budget, i)
           D(i) == DecTf(rd, transient, bd, i)
           Good(y, z) == TfState(z) /\ Likewise(y, z) /\ Follows(z.rc, y.rc, all) /\ z.rc.bytes = rd.rc.bytes
           Asked(y) == Begins(y.rc.syms, all) /\ Level(TellBits(y.rc), budget, bd)
           T == {i \in Nat : i <= n /\ Asked(E(i)) => Good(E(i), D(i))}
<1>0. Coder(r.rc) /\ Log(all)
  BY DEF Follows
<1>1. E(0) = r /\ \A i \in Nat : E(i + 1) = EncTfStep(E(i), want, transient, budget, i)
  BY EncTfGoes
<1>2. D(0) = rd /\ \A i \in Nat : D(i + 1) = DecTfStep(D(i), transient, bd, i)
  BY DecTfGoes
<1>3. \A i \in Nat : i <= n => TfState(E(i)) /\ Grows(r.rc, E(i).rc)
  BY <1>0, TfGrows
<1> HIDE DEF E, D
<1>4. 0 \in T
  BY <1>1, <1>2
<1>5. ASSUME NEW i \in Nat, i \in T PROVE i + 1 \in T
  <2> SUFFICES ASSUME i + 1 <= n, Asked(E(i + 1)) PROVE Good(E(i + 1), D(i + 1))
    OBVIOUS
  <2>0. want[i + 1] \in 0..1 /\ i <= n
    BY DEF TfWants
  <2>1. /\ E(i + 1) = EncTfStep(E(i), want, transient, budget, i) /\ want[i + 1] \in 0..1 /\ i <= n
        /\ D(i + 1) = DecTfStep(D(i), transient, bd, i)
    BY <1>1, <1>2, <2>0
  <2>2. TfState(E(i)) /\ Coder(E(i).rc)
    BY <1>3, <2>1 DEF Grows
  <2>3. Grows(E(i).rc, E(i + 1).rc)
    BY <2>1, <2>2, EncTfStepIs
  <2>4. Begins(E(i).rc.syms, all)
    BY <1>0, <2>3, BeginsOn
  <2>5. Level(TellBits(E(i).rc), budget, bd)
    <3>1. E(i).rc.frac \in Nat /\ E(i + 1).rc.frac \in Nat /\ E(i).rc.frac <= E(i + 1).rc.frac
      BY <2>3 DEF Grows, Coder
    <3>2. TellBits(E(i).rc) \in Nat /\ TellBits(E(i + 1).rc) \in Nat /\ TellBits(E(i).rc) <= TellBits(E(i + 1).rc)
      BY <3>1 DEF TellBits
    <3> QED
      BY <3>2 DEF Level
  <2>6. Good(E(i), D(i))
    BY <1>5, <2>1, <2>4, <2>5
  <2>7. /\ TfState(D(i)) /\ Likewise(E(i), D(i)) /\ Follows(D(i).rc, E(i).rc, all)
        /\ Begins(EncTfStep(E(i), want, transient, budget, i).rc.syms, all)
    BY <2>1, <2>6
  <2>8. /\ TfState(D(i + 1)) /\ Likewise(E(i + 1), D(i + 1)) /\ Follows(D(i + 1).rc, E(i + 1).rc, all)
        /\ D(i + 1).rc.bytes = D(i).rc.bytes
    BY <2>1, <2>2, <2>5, <2>7, DecTfStepIs
  <2> QED
    BY <2>6, <2>8
<1>6. T = Nat
  <2>1. T \in SUBSET Nat
    OBVIOUS
  <2> HIDE DEF T
  <2> QED
    BY <1>4, <1>5, <2>1, NatSetInduction
<1>7. Good(E(n), D(n))
  <2>1. n \in T /\ Asked(E(n))
    BY <1>6 DEF E
  <2> HIDE DEF Good, Asked
  <2> QED
    BY <2>1
<1> QED
  BY <1>7 DEF E, D

(* All of the resolutions, with the choice of the table.                    *)
LEMMA TfCodes ==
  ASSUME NEW x, Coder(x), NEW n \in Nat, NEW want, TfWants(want, n), NEW which \in 0..1, NEW lm \in 0..3,
         NEW transient \in BOOLEAN
  PROVE  /\ Grows(x, tf_encode(x, want, which, lm, transient)[1])
         /\ TellBits(x) <= TotalBits(x) => TellBits(tf_encode(x, want, which, lm, transient)[1]) <= TotalBits(x)
<1> DEFINE reserve == TfReserve(x, lm, transient)
           budget == TotalBits(x) - reserve
           r == EncTf(TfStart(x), want, transient, budget, n)
           t == EncChoice(r, which, lm, transient, reserve)
<1>1. tf_encode(x, want, which, lm, transient) = t
  BY DEF tf_encode, TfWants
<1>2. TellBits(x) \in Nat /\ TotalBits(x) \in Nat
  BY CoderCounts
<1>3. reserve \in 0..1 /\ (reserve = 1 => TellBits(x) <= budget)
  BY <1>2 DEF TfReserve
<1>4. TfState(TfStart(x)) /\ TfStart(x).rc = x
  BY DEF TfState, TfStart
<1>5. budget \in Int
  <2> HIDE DEF reserve
  <2> QED
    BY <1>2, <1>3
<1> HIDE DEF reserve, budget
<1>6. TfState(r) /\ Grows(x, r.rc) /\ (TellBits(x) <= budget => TellBits(r.rc) <= budget)
  BY <1>4, <1>5, TfGrows
<1> HIDE DEF r
<1>7. Coder(r.rc) /\ r.rc.frac \in Nat
  BY <1>6 DEF Grows, Coder
<1>8. CASE TfChoice(r, lm, transient, reserve)
  <2> DEFINE y == EncBit(r.rc, 1, which = 1)
  <2>1. t[1] = y /\ reserve = 1
    BY <1>8 DEF EncChoice, Resolved, TfChoice
  <2>2. 1 \in 1..15
    OBVIOUS
  <2>3. Grows(r.rc, y) /\ y.frac <= r.rc.frac + 8 * 1
    BY <1>7, <2>2, BitGrows
  <2>4. Grows(x, y) /\ y.frac \in Nat
    BY <1>6, <2>3, GrowsOn DEF Grows, Coder
  <2>5. TellBits(r.rc) <= TotalBits(x) - 1
    BY <1>3, <1>6, <2>1 DEF budget
  <2> HIDE DEF y
  <2>6. TellBits(y) <= TotalBits(x)
    BY <1>2, <1>7, <2>3, <2>4, <2>5 DEF TellBits
  <2> QED
    BY <1>1, <2>1, <2>4, <2>6
<1>9. CASE ~TfChoice(r, lm, transient, reserve)
  <2>1. t[1] = r.rc
    BY <1>9 DEF EncChoice, Resolved
  <2>2. TellBits(x) <= TotalBits(x) => TellBits(r.rc) <= TotalBits(x)
    <3>1. TellBits(r.rc) \in Nat
      BY <1>7, CoderCounts
    <3>2. CASE reserve = 1
      <4>1. budget <= TotalBits(x) /\ TellBits(r.rc) <= budget
        BY <1>2, <1>3, <1>6, <3>2 DEF budget
      <4> QED
        BY <1>2, <1>5, <3>1, <4>1
    <3>3. CASE reserve = 0
      <4>1. budget = TotalBits(x)
        BY <1>2, <3>3 DEF budget
      <4> QED
        BY <1>6, <4>1
    <3> QED
      BY <1>3, <3>2, <3>3
  <2> QED
    BY <1>1, <1>6, <2>1, <2>2
<1> QED
  BY <1>8, <1>9

TfReady(x, n, want, which, lm, transient, d, all) ==
    /\ n \in Nat /\ TfWants(want, n) /\ which \in 0..1 /\ lm \in 0..3 /\ transient \in BOOLEAN
    /\ Follows(d, x, all)
    /\ Begins(tf_encode(x, want, which, lm, transient)[1].syms, all)
    /\ Roomy(tf_encode(x, want, which, lm, transient)[1], d.bytes)
TfDone(x, n, want, which, lm, transient, d, all) ==
    /\ Follows(tf_decode(d, n, lm, transient)[1], tf_encode(x, want, which, lm, transient)[1], all)
    /\ tf_decode(d, n, lm, transient)[1].bytes = d.bytes
    /\ tf_decode(d, n, lm, transient)[2] = tf_encode(x, want, which, lm, transient)[2]

(* tf_decode reads what tf_encode sent, the choice of table included, under *)
(* budgets of either size.                                                  *)
LEMMA TfMirrors ==
  ASSUME NEW x, NEW n, NEW want, NEW which, NEW lm, NEW transient, NEW d, NEW all,
         TfReady(x, n, want, which, lm, transient, d, all)
  PROVE  TfDone(x, n, want, which, lm, transient, d, all)
<1>a. /\ n \in Nat /\ TfWants(want, n) /\ which \in 0..1 /\ lm \in 0..3 /\ transient \in BOOLEAN
      /\ Follows(d, x, all)
      /\ Begins(tf_encode(x, want, which, lm, transient)[1].syms, all)
      /\ Roomy(tf_encode(x, want, which, lm, transient)[1], d.bytes)
  BY DEF TfReady
<1> USE <1>a
<1> DEFINE reserve == TfReserve(x, lm, transient)
           budget == TotalBits(x) - reserve
           bd == TotalBits(d) - reserve
           r == EncTf(TfStart(x), want, transient, budget, n)
           rd == DecTf(TfStart(d), transient, bd, n)
           t == EncChoice(r, which, lm, transient, reserve)
           td == DecChoice(rd, DecBit(rd.rc, 1), lm, transient, reserve)
<1>0. Coder(x) /\ Log(all)
  BY DEF Follows
<1>1. tf_encode(x, want, which, lm, transient) = t
  BY DEF tf_encode, TfWants
<1>2. Grows(x, t[1])
  BY <1>0, <1>1, TfCodes
<1>3. Roomy(x, d.bytes)
  BY <1>1, <1>2, RoomyOn
<1>4. TfReserve(d, lm, transient) = reserve
  <2>1. 3 \in 0..16 /\ 5 \in 0..16
    OBVIOUS
  <2>2. /\ TellBits(d) = TellBits(x)
        /\ TellBits(x) + 3 < TotalBits(x) + 1 <=> TellBits(d) + 3 < TotalBits(d) + 1
        /\ TellBits(x) + 5 < TotalBits(x) + 1 <=> TellBits(d) + 5 < TotalBits(d) + 1
    BY <1>0, <1>3, <2>1, RoomyAlike
  <2>3. TellBits(x) \in Nat /\ TotalBits(x) \in Nat /\ TotalBits(d) \in Nat
    BY TellsAlike
  <2>4. /\ TellBits(x) + 2 < TotalBits(x) <=> TellBits(d) + 2 < TotalBits(d)
        /\ TellBits(x) + 4 < TotalBits(x) <=> TellBits(d) + 4 < TotalBits(d)
    BY <2>2, <2>3
  <2> QED
    BY <2>4 DEF TfReserve
<1>5. tf_decode(d, n, lm, transient) = td
  <2>1. tf_decode(d, n, lm, transient)
          = DecChoice(DecTf(TfStart(d), transient, TotalBits(d) - TfReserve(d, lm, transient), n),
                      DecBit(DecTf(TfStart(d), transient, TotalBits(d) - TfReserve(d, lm, transient), n).rc, 1),
                      lm, transient, TfReserve(d, lm, transient))
    BY DEF tf_decode
  <2> HIDE DEF reserve
  <2> QED
    BY <1>4, <2>1
<1>6. TellBits(x) \in Nat /\ TotalBits(x) \in Nat /\ TotalBits(d) \in Nat /\ reserve \in 0..1
  BY TellsAlike DEF TfReserve
<1>7. /\ TfState(TfStart(x)) /\ TfStart(x).rc = x /\ TfState(TfStart(d)) /\ TfStart(d).rc = d
      /\ Likewise(TfStart(x), TfStart(d))
  BY DEF TfState, TfStart, Likewise
<1>8. budget \in Int /\ bd \in Int
  <2> HIDE DEF reserve
  <2> QED
    BY <1>6
<1> HIDE DEF reserve
<1>9. TfState(r) /\ Grows(x, r.rc)
  <2> HIDE DEF budget
  <2> QED
    BY <1>0, <1>7, <1>8, TfGrows
<1>10. Grows(r.rc, t[1])
  <2>1. Coder(r.rc) /\ 1 \in 1..15
    BY <1>9 DEF Grows
  <2> HIDE DEF r
  <2>2. Grows(r.rc, EncBit(r.rc, 1, which = 1)) /\ Grows(r.rc, r.rc)
    BY <2>1, BitGrows, GrowsSelf
  <2> QED
    BY <2>2 DEF EncChoice, Resolved
<1>11. Begins(r.rc.syms, all) /\ Roomy(r.rc, d.bytes)
  BY <1>0, <1>1, <1>10, BeginsOn, RoomyOn
<1>12. Level(TellBits(r.rc), budget, bd)
  <2>1. Coder(r.rc) /\ r.rc.bytes = x.bytes
    BY <1>9 DEF Grows
  <2>2. TellBits(r.rc) \in Nat /\ TotalBits(r.rc) = TotalBits(x) /\ TotalBits(d) = 8 * d.bytes
    BY <2>1, CoderCounts DEF TotalBits
  <2>3. 8 * d.bytes = TotalBits(r.rc) \/ (TellBits(r.rc) + 16 <= 8 * d.bytes /\ TellBits(r.rc) + 16 <= TotalBits(r.rc))
    BY <1>11, <2>1, RoomyTells
  <2> DEFINE a == TellBits(r.rc)
             b == TotalBits(x)
             c == TotalBits(d)
  <2>4. a \in Nat /\ b \in Nat /\ c \in Nat /\ (c = b \/ (a + 16 <= c /\ a + 16 <= b))
    BY <1>6, <2>2, <2>3
  <2> HIDE DEF a, b, c
  <2>5. Level(a, b - reserve, c - reserve)
    BY <1>6, <2>4 DEF Level
  <2> QED
    BY <2>5 DEF a, b, c
<1>13. TfState(rd) /\ Likewise(r, rd) /\ Follows(rd.rc, r.rc, all) /\ rd.rc.bytes = d.bytes
  <2> HIDE DEF budget, bd
  <2>1. Begins(EncTf(TfStart(x), want, transient, budget, n).rc.syms, all)
        /\ Level(TellBits(EncTf(TfStart(x), want, transient, budget, n).rc), budget, bd)
    BY <1>11, <1>12
  <2>2. Follows(TfStart(d).rc, TfStart(x).rc, all)
    BY <1>7
  <2> DEFINE r0 == TfStart(x)
             d0 == TfStart(d)
  <2>4. TfState(r0) /\ TfState(d0) /\ Likewise(r0, d0) /\ r0.rc = x /\ d0.rc = d
    BY <1>7
  <2>5. /\ Begins(EncTf(r0, want, transient, budget, n).rc.syms, all)
        /\ Level(TellBits(EncTf(r0, want, transient, budget, n).rc), budget, bd) /\ Follows(d0.rc, r0.rc, all)
    BY <2>1, <2>2
  <2> HIDE DEF r0, d0
  <2>6. /\ TfState(DecTf(d0, transient, bd, n))
        /\ Likewise(EncTf(r0, want, transient, budget, n), DecTf(d0, transient, bd, n))
        /\ Follows(DecTf(d0, transient, bd, n).rc, EncTf(r0, want, transient, budget, n).rc, all)
        /\ DecTf(d0, transient, bd, n).rc.bytes = d0.rc.bytes
    BY <1>8, <2>4, <2>5, TfFlagsMirror
  <2> QED
    BY <2>4, <2>6 DEF r0, d0
<1> HIDE DEF r, rd, budget, bd
<1>14. TfChoice(rd, lm, transient, reserve) <=> TfChoice(r, lm, transient, reserve)
  BY <1>13 DEF TfChoice, Likewise
<1>15. CASE TfChoice(r, lm, transient, reserve)
  <2> DEFINE y == EncBit(r.rc, 1, which = 1)
             g == DecBit(rd.rc, 1)
  <2>1. t = Resolved(y, r, lm, transient, which) /\ td = Resolved(g, rd, lm, transient, g.got)
    BY <1>14, <1>15 DEF EncChoice, DecChoice
  <2>2. t[1] = y /\ td[1] = g
    BY <2>1 DEF Resolved
  <2>3. 1 \in 1..15 /\ Begins(y.syms, all)
    BY <1>1, <2>2
  <2>4. Reads(g, IF which = 1 THEN 1 ELSE 0, rd.rc, y, all)
    BY <1>13, <2>3, BitReads
  <2> HIDE DEF y, g
  <2>5. g.got = which
    BY <2>4 DEF Reads
  <2>6. td[2] = t[2]
    BY <1>13, <2>1, <2>5 DEF Resolved, Likewise
  <2> QED
    BY <1>1, <1>5, <1>13, <2>2, <2>4, <2>6 DEF Reads, TfDone
<1>16. CASE ~TfChoice(r, lm, transient, reserve)
  <2>1. t = Resolved(r.rc, r, lm, transient, 0) /\ td = Resolved(rd.rc, rd, lm, transient, 0)
    BY <1>14, <1>16 DEF EncChoice, DecChoice
  <2>2. t[1] = r.rc /\ td[1] = rd.rc /\ td[2] = t[2]
    BY <1>13, <2>1 DEF Resolved, Likewise
  <2> QED
    BY <1>1, <1>5, <1>13, <2>2 DEF TfDone
<1> QED
  BY <1>15, <1>16

-----------------------------------------------------------------------------
(* The boosts of a band.                                                    *)
BoostState(b) ==
    /\ b = [rc |-> b.rc, logp |-> b.logp, total |-> b.total, boost |-> b.boost]
    /\ b.logp \in 1..6 /\ b.total \in Nat /\ b.boost \in Nat
BoostsAlike(b, bd) == bd.logp = b.logp /\ bd.total = b.total /\ bd.boost = b.boost

(* Room for what is written and promised.                                   *)
Afford(frac, total, bytes, B) == B \in Nat /\ (B = bytes \/ (B <= bytes /\ frac + total + 128 <= 64 * B))

(* Every band has a width, of 22 bins at most.                              *)
LEMMA WidthIs == ASSUME NEW j \in 0..20 PROVE Width(j) \in 1..22
<1>1. \/ j = 0 \/ j = 1 \/ j = 2 \/ j = 3 \/ j = 4 \/ j = 5 \/ j = 6 \/ j = 7 \/ j = 8 \/ j = 9 \/ j = 10
      \/ j = 11 \/ j = 12 \/ j = 13 \/ j = 14 \/ j = 15 \/ j = 16 \/ j = 17 \/ j = 18 \/ j = 19 \/ j = 20
  OBVIOUS
<1> QED
  BY <1>1 DEF Width, e_bands, EBAND_5MS

(* A boost comes in quanta of at least an eighth of a bit.                  *)
LEMMA QuantaIs ==
  ASSUME NEW p, BandParams(p), NEW j \in 0..20
  PROVE  Quanta(p, j) \in Nat /\ Quanta(p, j) >= 1
<1> DEFINE w == Width(j)
           h == Pow2(p.lm)
           b == BandWidth(p, j)
<1>1. w \in Nat /\ w >= 1
  BY WidthIs
<1>2. h \in Nat /\ h >= 1
  <2>1. p.lm \in 0..8
    BY DEF BandParams
  <2> QED
    BY <2>1, Powers
<1>3. p.channels = 1 \/ p.channels = 2
  BY DEF BandParams
<1>4. b = p.channels * w * h
  BY DEF BandWidth
<1> HIDE DEF w, h, b
<1>5. \A u, v \in Nat : u * v \in Nat /\ (u >= 1 /\ v >= 1 => u * v >= 1)
  OBVIOUS
<1>6. p.channels * w \in Nat /\ p.channels * w >= 1
  BY <1>1, <1>3
<1>7. b \in Nat /\ b >= 1
  BY <1>2, <1>4, <1>5, <1>6
<1> QED
  BY <1>7 DEF Quanta, MinOf, MaxOf, b

(* A boost raises its band and the total by one quantum.                    *)
LEMMA BoostByIs ==
  ASSUME NEW b, BoostState(b), NEW q \in Nat, NEW rc
  PROVE  /\ BoostState(BoostBy(b, rc, q)) /\ BoostBy(b, rc, q).rc = rc /\ BoostBy(b, rc, q).total = b.total + q
         /\ BoostBy(b, rc, q).boost = b.boost + q /\ BoostBy(b, rc, q).logp = 1
BY DEF BoostState, BoostBy

(* Boosts sent, whether there is room or not.                               *)
LEMMA EncBoostsIs ==
  ASSUME NEW b, BoostState(b), Coder(b.rc), NEW q \in Nat, q >= 1, NEW n \in Nat
  PROVE  /\ BoostState(EncBoosts(b, q, n)) /\ Grows(b.rc, EncBoosts(b, q, n).rc)
         /\ EncBoosts(b, q, n).total >= b.total + n
<1> DEFINE E(m) == EncBoosts(b, q, m)
           Good(m, z) == BoostState(z) /\ Grows(b.rc, z.rc) /\ z.total >= b.total + m
           T == {m \in Nat : Good(m, E(m))}
<1>1. E(0) = b /\ \A m \in Nat : E(m + 1) = EncOne(E(m), q)
  BY EncBoostsGoes
<1>2. b.total \in Nat
  BY DEF BoostState
<1> HIDE DEF E
<1>3. 0 \in T
  BY <1>1, <1>2, GrowsSelf
<1>4. ASSUME NEW m \in Nat, m \in T PROVE m + 1 \in T
  <2>1. BoostState(E(m)) /\ Grows(b.rc, E(m).rc) /\ E(m).total >= b.total + m /\ E(m).total \in Nat
    BY <1>4 DEF BoostState
  <2> DEFINE y == EncBit(E(m).rc, E(m).logp, TRUE)
  <2>2. E(m + 1) = BoostBy(E(m), y, q)
    BY <1>1 DEF EncOne
  <2>3. Coder(E(m).rc) /\ E(m).logp \in 1..15
    BY <2>1 DEF Grows, BoostState
  <2>4. Grows(E(m).rc, y)
    BY <2>3, BitGrows
  <2> HIDE DEF y
  <2>5. BoostState(E(m + 1)) /\ E(m + 1).rc = y /\ E(m + 1).total = E(m).total + q
    BY <2>1, <2>2, BoostByIs
  <2>6. Grows(b.rc, E(m + 1).rc)
    BY <2>1, <2>4, <2>5, GrowsOn
  <2>7. E(m + 1).total >= b.total + (m + 1)
    BY <1>2, <2>1, <2>5
  <2> QED
    BY <2>5, <2>6, <2>7
<1>5. T = Nat
  <2>1. T \in SUBSET Nat
    OBVIOUS
  <2> HIDE DEF T
  <2> QED
    BY <1>3, <1>4, <2>1, NatSetInduction
<1>6. Good(n, E(n))
  <2>1. n \in T
    BY <1>5
  <2> HIDE DEF Good
  <2> QED
    BY <2>1
<1> QED
  BY <1>6 DEF E

(* One more.                                                                *)
LEMMA EncBoostsOn ==
  ASSUME NEW b, BoostState(b), Coder(b.rc), NEW q \in Nat, q >= 1, NEW n \in Nat
  PROVE  LET y == EncBoosts(b, q, n)
             z == EncBoosts(b, q, n + 1)
         IN  /\ z = BoostBy(y, EncBit(y.rc, y.logp, TRUE), q)
             /\ z.rc = EncBit(y.rc, y.logp, TRUE) /\ z.total = y.total + q /\ z.boost = y.boost + q /\ z.logp = 1
             /\ Grows(y.rc, z.rc) /\ z.rc.frac <= y.rc.frac + 8 * y.logp
<1> DEFINE y == EncBoosts(b, q, n)
           z == EncBoosts(b, q, n + 1)
           w == EncBit(y.rc, y.logp, TRUE)
<1>1. z = EncOne(y, q)
  BY EncBoostsGoes
<1>2. BoostState(y) /\ Grows(b.rc, y.rc)
  BY EncBoostsIs
<1> HIDE DEF y, z
<1>3. z = BoostBy(y, w, q)
  BY <1>1 DEF EncOne
<1>4. Coder(y.rc) /\ y.logp \in 1..15
  BY <1>2 DEF Grows, BoostState
<1>5. Grows(y.rc, w) /\ w.frac <= y.rc.frac + 8 * y.logp
  BY <1>4, BitGrows
<1> HIDE DEF w
<1>6. z.rc = w /\ z.total = y.total + q /\ z.boost = y.boost + q /\ z.logp = 1
  BY <1>2, <1>3, BoostByIs
<1> QED
  BY <1>3, <1>5, <1>6 DEF y, z, w

(* The encoder stops at the first boost not wanted, or without room.        *)
LEMMA EncCountIs ==
  ASSUME NEW b, NEW p, NEW j, NEW want \in Nat
  PROVE  /\ EncCount(b, p, j, want) \in 0..want
         /\ ~EncMore(b, p, j, want, EncCount(b, p, j, want))
         /\ \A k \in 0..(EncCount(b, p, j, want) - 1) : EncMore(b, p, j, want, k)
<1> DEFINE S == {k \in Nat : ~EncMore(b, p, j, want, k)}
           Stops(n) == ~EncMore(b, p, j, want, n) /\ \A k \in 0..(n - 1) : EncMore(b, p, j, want, k)
<1>1. want \in S
  BY DEF EncMore
<1>2. PICK n \in S : \A m \in S : n <= m
  <2>1. S \subseteq Nat
    OBVIOUS
  <2> HIDE DEF S
  <2> QED
    BY <1>1, <2>1, LeastNumber
<1>3. n \in 0..want /\ Stops(n)
  <2>1. n \in Nat /\ n <= want /\ ~EncMore(b, p, j, want, n)
    BY <1>1, <1>2
  <2>2. ASSUME NEW k \in 0..(n - 1) PROVE EncMore(b, p, j, want, k)
    <3>1. k \in Nat /\ ~(n <= k)
      BY <2>1
    <3> QED
      BY <1>2, <3>1
  <2> QED
    BY <2>1, <2>2
<1>4. EncCount(b, p, j, want) = CHOOSE m \in 0..want : Stops(m)
  BY DEF EncCount
<1> HIDE DEF Stops
<1>5. EncCount(b, p, j, want) \in 0..want /\ Stops(EncCount(b, p, j, want))
  BY <1>3, <1>4
<1> QED
  BY <1>5 DEF Stops

(* The decoder's count is any number of boosts at which it stops first.     *)
LEMMA DecCountIs ==
  ASSUME NEW b, NEW p, NEW j, NEW n \in 0..(8 * TotalBits(b.rc)), TotalBits(b.rc) \in Nat,
         ~DecMore(b, p, j, n), \A k \in 0..(n - 1) : DecMore(b, p, j, k)
  PROVE  DecCount(b, p, j) = n
<1> DEFINE M == 0..(8 * TotalBits(b.rc))
           Stops(m) == ~DecMore(b, p, j, m) /\ \A k \in 0..(m - 1) : DecMore(b, p, j, k)
           c == CHOOSE m \in M : Stops(m)
<1>1. DecCount(b, p, j) = c
  BY DEF DecCount
<1>2. Stops(n) /\ n \in M
  OBVIOUS
<1>3. c \in M /\ Stops(c)
  <2> HIDE DEF M, Stops
  <2> QED
    BY <1>2
<1> HIDE DEF c
<1>4. c \in Nat /\ n \in Nat
  BY <1>3
<1>5. ~(c < n)
  BY <1>3, <1>4
<1>6. ~(n < c)
  BY <1>2, <1>3, <1>4
<1> QED
  BY <1>1, <1>4, <1>5, <1>6

(* The boosts of a band, written: they fit.                                 *)
LEMMA EncBoostIs ==
  ASSUME NEW b, BoostState(b), Coder(b.rc), NEW p, BandParams(p), NEW j \in 0..20, NEW want \in Nat
  PROVE  /\ BoostState(EncBoost(b, p, j, want)) /\ Grows(b.rc, EncBoost(b, p, j, want).rc)
         /\ b.total <= EncBoost(b, p, j, want).total
         /\ b.rc.frac <= 8 * TotalBits(b.rc) => EncBoost(b, p, j, want).rc.frac <= 8 * TotalBits(b.rc)
<1> DEFINE q == Quanta(p, j)
           n == EncCount(b, p, j, want)
           E(m) == EncBoosts(b, q, m)
           most == 8 * TotalBits(b.rc)
           last == E(n)
           z == EncBoost(b, p, j, want)
<1>1. q \in Nat /\ q >= 1
  BY QuantaIs
<1>2. n \in Nat /\ \A k \in 0..(n - 1) : EncMore(b, p, j, want, k)
  BY EncCountIs
<1>3. E(0) = b
  BY EncBoostsGoes
<1>4. \A m \in Nat : BoostState(E(m)) /\ Grows(b.rc, E(m).rc) /\ E(m).total >= b.total + m
  <2> HIDE DEF q
  <2> QED
    BY <1>1, EncBoostsIs
<1>5. \A m \in Nat : E(m + 1).rc.frac <= E(m).rc.frac + 8 * E(m).logp
  <2> HIDE DEF q
  <2> QED
    BY <1>1, EncBoostsOn
<1>6. \A m \in Nat : EncMore(b, p, j, want, m) => BoostMay(E(m), p, j)
  BY DEF EncMore
<1>7. z = IF BoostMay(last, p, j) THEN [last EXCEPT !.rc = EncBit(last.rc, last.logp, FALSE)] ELSE last
  BY DEF EncBoost
<1> HIDE DEF E, n, q
<1>8. most \in Nat /\ \A m \in Nat : 8 * TotalBits(E(m).rc) = most /\ E(m).rc.frac \in Nat
  <2>1. most \in Nat
    BY CoderCounts
  <2>2. ASSUME NEW m \in Nat PROVE TotalBits(E(m).rc) = TotalBits(b.rc) /\ E(m).rc.frac \in Nat
    <3>1. Grows(b.rc, E(m).rc)
      BY <1>4
    <3>2. E(m).rc.bytes = b.rc.bytes /\ E(m).rc.frac \in Nat
      BY <3>1 DEF Grows, Coder
    <3> QED
      BY <3>2 DEF TotalBits
  <2> QED
    BY <2>1, <2>2
<1> HIDE DEF most
<1>9. \A m \in Nat : BoostMay(E(m), p, j) => E(m).rc.frac + 8 * E(m).logp < most
  <2> SUFFICES ASSUME NEW m \in Nat, BoostMay(E(m), p, j) PROVE E(m).rc.frac + 8 * E(m).logp < most
    OBVIOUS
  <2>1. E(m).rc.frac + 8 * E(m).logp < most - E(m).total
    BY <1>8 DEF BoostMay
  <2>2. E(m).total \in Nat /\ E(m).logp \in Nat /\ E(m).rc.frac \in Nat
    BY <1>4, <1>8 DEF BoostState
  <2> QED
    BY <1>8, <2>1, <2>2
<1>10. ASSUME b.rc.frac <= most PROVE last.rc.frac <= most
  <2>1. CASE n = 0
    BY <1>3, <1>10, <2>1
  <2>2. CASE n # 0
    <3>1. n - 1 \in Nat /\ n - 1 \in 0..(n - 1) /\ (n - 1) + 1 = n
      BY <1>2, <2>2
    <3>2. BoostMay(E(n - 1), p, j)
      BY <1>2, <1>6, <3>1
    <3>3. last.rc.frac <= E(n - 1).rc.frac + 8 * E(n - 1).logp
      BY <1>5, <3>1
    <3>4. E(n - 1).rc.frac + 8 * E(n - 1).logp < most
      BY <1>9, <3>1, <3>2
    <3>5. E(n - 1).rc.frac \in Nat /\ E(n - 1).logp \in Nat /\ last.rc.frac \in Nat
      BY <1>2, <1>4, <1>8, <3>1 DEF BoostState
    <3> QED
      BY <1>8, <3>3, <3>4, <3>5
  <2> QED
    BY <2>1, <2>2
<1>11. BoostState(last) /\ Grows(b.rc, last.rc) /\ last.total >= b.total + n /\ b.total \in Nat /\ last.total \in Nat
  BY <1>2, <1>4 DEF BoostState
<1>12. CASE ~BoostMay(last, p, j)
  BY <1>2, <1>7, <1>10, <1>11, <1>12 DEF most
<1>13. CASE BoostMay(last, p, j)
  <2> DEFINE y == EncBit(last.rc, last.logp, FALSE)
  <2>1. Coder(last.rc) /\ last.logp \in 1..15 /\ last.logp \in Nat
    BY <1>11 DEF Grows, BoostState
  <2>2. Grows(last.rc, y) /\ y.frac <= last.rc.frac + 8 * last.logp
    BY <2>1, BitGrows
  <2>3. last.rc.frac + 8 * last.logp < most
    BY <1>2, <1>9, <1>13
  <2> HIDE DEF y
  <2>4. y.frac <= most
    <3>1. y.frac \in Nat /\ last.rc.frac \in Nat
      BY <2>2 DEF Grows, Coder
    <3> QED
      BY <1>8, <2>1, <2>2, <2>3, <3>1
  <2>5. z = [last EXCEPT !.rc = y]
    BY <1>7, <1>13 DEF y
  <2> HIDE DEF last, z
  <2>6. z = [rc |-> y, logp |-> last.logp, total |-> last.total, boost |-> last.boost]
    <3>1. PICK a1, a2, a3, a4 : last = [rc |-> a1, logp |-> a2, total |-> a3, boost |-> a4]
      BY <1>11 DEF BoostState
    <3> QED
      BY <2>5, <3>1
  <2>7. BoostState(z)
    BY <1>11, <2>6 DEF BoostState
  <2>8. Grows(b.rc, y)
    BY <1>11, <2>2, GrowsOn
  <2>9. b.total <= last.total
    BY <1>2, <1>11
  <2> QED
    BY <2>4, <2>6, <2>7, <2>8, <2>9 DEF z, most
<1> QED
  BY <1>12, <1>13

-----------------------------------------------------------------------------
(* Later boosts only add.                                                   *)
LEMMA EncBoostsFar ==
  ASSUME NEW b, BoostState(b), Coder(b.rc), NEW q \in Nat, q >= 1, NEW k \in Nat, NEW n \in Nat
  PROVE  /\ Grows(EncBoosts(b, q, k).rc, EncBoosts(b, q, k + n).rc)
         /\ EncBoosts(b, q, k).total <= EncBoosts(b, q, k + n).total
<1> DEFINE E(m) == EncBoosts(b, q, m)
           Good(z) == Grows(E(k).rc, z.rc) /\ E(k).total <= z.total
           T == {i \in Nat : Good(E(k + i))}
<1>1. \A m \in Nat : BoostState(E(m)) /\ Grows(b.rc, E(m).rc)
  BY EncBoostsIs
<1>2. \A m \in Nat : E(m + 1).total = E(m).total + q /\ Grows(E(m).rc, E(m + 1).rc)
  BY EncBoostsOn
<1> HIDE DEF E
<1>3. 0 \in T
  <2>1. Coder(E(k).rc) /\ E(k).total \in Nat
    BY <1>1 DEF Grows, BoostState
  <2> QED
    BY <2>1, GrowsSelf
<1>4. ASSUME NEW i \in Nat, i \in T PROVE i + 1 \in T
  <2>1. k + i \in Nat /\ k + (i + 1) = (k + i) + 1
    OBVIOUS
  <2>2. Grows(E(k).rc, E(k + i).rc) /\ E(k).total <= E(k + i).total
    BY <1>4
  <2>3. Grows(E(k).rc, E(k + (i + 1)).rc)
    BY <1>2, <2>1, <2>2, GrowsOn
  <2>4. E(k).total \in Nat /\ E(k + i).total \in Nat
    BY <1>1, <2>1 DEF BoostState
  <2>5. E(k + (i + 1)).total = E(k + i).total + q
    BY <1>2, <2>1
  <2>6. E(k).total <= E(k + (i + 1)).total
    BY <2>2, <2>4, <2>5
  <2> QED
    BY <2>3, <2>6
<1>5. T = Nat
  <2>1. T \in SUBSET Nat
    OBVIOUS
  <2> HIDE DEF T
  <2> QED
    BY <1>3, <1>4, <2>1, NatSetInduction
<1>6. Good(E(k + n))
  <2>1. n \in T
    BY <1>5
  <2> HIDE DEF Good
  <2> QED
    BY <2>1
<1> QED
  BY <1>6 DEF E

(* There may be one more at both ends, or at neither.                       *)
LEMMA BoostMayAlike ==
  ASSUME NEW b, BoostState(b), NEW bd, BoostState(bd), BoostsAlike(b, bd), NEW all, Follows(bd.rc, b.rc, all),
         NEW p, NEW pd, SameBands(p, pd), NEW j, Afford(b.rc.frac, b.total, b.rc.bytes, bd.rc.bytes)
  PROVE  /\ BoostMay(bd, pd, j) <=> BoostMay(b, p, j)
         /\ BoostMay(b, p, j) => b.total < 64 * bd.rc.bytes
<1>1. b.rc.frac \in Nat /\ bd.rc.frac = b.rc.frac /\ b.rc.bytes \in Nat /\ bd.rc.bytes \in Nat
  BY DEF Follows, Coder
<1>2. b.logp \in 1..6 /\ b.total \in Nat /\ bd.logp = b.logp /\ bd.total = b.total /\ bd.boost = b.boost
  BY DEF BoostState, BoostsAlike
<1>3. pd.lm = p.lm /\ pd.channels = p.channels
  BY DEF SameBands
<1> DEFINE f == b.rc.frac
           t == b.total
           l == b.logp
           m == b.rc.bytes
           n == bd.rc.bytes
<1>4. /\ f \in Nat /\ t \in Nat /\ l \in 1..6 /\ m \in Nat /\ n \in Nat
      /\ n = m \/ (n <= m /\ f + t + 128 <= 64 * n)
  BY <1>1, <1>2 DEF Afford
<1>5. BoostMay(b, p, j) <=> f + 8 * l < 8 * (8 * m) - t /\ b.boost < Cap(j, p.lm, p.channels)
  BY DEF BoostMay, TotalBits
<1>6. BoostMay(bd, pd, j) <=> f + 8 * l < 8 * (8 * n) - t /\ b.boost < Cap(j, p.lm, p.channels)
  BY <1>1, <1>2, <1>3 DEF BoostMay, TotalBits
<1> HIDE DEF f, t, l, m, n
<1>7. /\ f + 8 * l < 8 * (8 * m) - t <=> f + 8 * l < 8 * (8 * n) - t
      /\ f + 8 * l < 8 * (8 * m) - t => t < 64 * n
  BY <1>4
<1> QED
  BY <1>5, <1>6, <1>7 DEF t, n

(* The boosts of a band, in one predicate each for what must hold and what  *)
(* then does.                                                               *)
BoostReady(b, p, j, want, pd, bd, all) ==
    /\ BoostState(b) /\ BandParams(p) /\ j \in 0..20 /\ want \in Nat
    /\ SameBands(p, pd) /\ BoostState(bd) /\ BoostsAlike(b, bd) /\ Follows(bd.rc, b.rc, all)
    /\ Begins(EncBoost(b, p, j, want).rc.syms, all)
    /\ Afford(EncBoost(b, p, j, want).rc.frac, EncBoost(b, p, j, want).total, b.rc.bytes, bd.rc.bytes)
BoostDone(y, yd, bd, all) ==
    BoostState(yd) /\ BoostsAlike(y, yd) /\ Follows(yd.rc, y.rc, all) /\ yd.rc.bytes = bd.rc.bytes

(* The decoder reads as many boosts of a band as the encoder sent.          *)
LEMMA BoostMirrors ==
  ASSUME NEW b, NEW p, NEW j, NEW want, NEW pd, NEW bd, NEW all, BoostReady(b, p, j, want, pd, bd, all)
  PROVE  BoostDone(EncBoost(b, p, j, want), DecBoost(bd, pd, j), bd, all)
<1>a. /\ BoostState(b) /\ BandParams(p) /\ j \in 0..20 /\ want \in Nat
      /\ SameBands(p, pd) /\ BoostState(bd) /\ BoostsAlike(b, bd) /\ Follows(bd.rc, b.rc, all)
      /\ Begins(EncBoost(b, p, j, want).rc.syms, all)
      /\ Afford(EncBoost(b, p, j, want).rc.frac, EncBoost(b, p, j, want).total, b.rc.bytes, bd.rc.bytes)
  BY DEF BoostReady
<1> USE <1>a
<1> DEFINE q == Quanta(p, j)
           n == EncCount(b, p, j, want)
           E(m) == EncBoosts(b, q, m)
           D(m) == DecBoosts(bd, q, m)
           z == EncBoost(b, p, j, want)
           y == EncBit(E(n).rc, E(n).logp, FALSE)
<1>0. Coder(b.rc) /\ Log(all) /\ Coder(bd.rc)
  BY DEF Follows
<1>1. q \in Nat /\ q >= 1 /\ Quanta(pd, j) = q
  <2>1. q \in Nat /\ q >= 1
    BY QuantaIs
  <2>2. pd.channels = p.channels /\ pd.lm = p.lm
    BY DEF SameBands
  <2>3. BandWidth(pd, j) = BandWidth(p, j)
    BY <2>2 DEF BandWidth
  <2> QED
    BY <2>1, <2>3 DEF Quanta
<1>2. n \in Nat /\ ~EncMore(b, p, j, want, n) /\ \A k \in 0..(n - 1) : EncMore(b, p, j, want, k)
  BY EncCountIs
<1>3. E(0) = b /\ D(0) = bd /\ \A m \in Nat : D(m + 1) = BoostBy(D(m), DecBit(D(m).rc, D(m).logp), q)
  <2>1. E(0) = b
    BY EncBoostsGoes
  <2>2. D(0) = bd /\ \A m \in Nat : D(m + 1) = DecOne(D(m), q)
    BY DecBoostsGoes
  <2> QED
    BY <2>1, <2>2 DEF DecOne
<1>4. \A m \in Nat : BoostState(E(m)) /\ Grows(b.rc, E(m).rc) /\ E(m).total >= b.total + m
  <2> HIDE DEF q
  <2> QED
    BY <1>0, <1>1, EncBoostsIs
<1>5. \A m \in Nat : E(m + 1) = BoostBy(E(m), EncBit(E(m).rc, E(m).logp, TRUE), q)
  <2> HIDE DEF q
  <2> QED
    BY <1>0, <1>1, EncBoostsOn
<1>6. \A k, i \in Nat : Grows(E(k).rc, E(k + i).rc) /\ E(k).total <= E(k + i).total
  <2> HIDE DEF q
  <2> QED
    BY <1>0, <1>1, EncBoostsFar
<1>7. \A m \in Nat : EncMore(b, p, j, want, m) <=> m < want /\ BoostMay(E(m), p, j)
  BY DEF EncMore
<1>8. z = IF BoostMay(E(n), p, j) THEN [E(n) EXCEPT !.rc = y] ELSE E(n)
  BY DEF EncBoost
<1>9. \A m \in Nat : DecMore(bd, pd, j, m) <=> BoostMay(D(m), pd, j) /\ DecBit(D(m).rc, D(m).logp).got # 0
  BY <1>1 DEF DecMore
<1>10. DecBoost(bd, pd, j)
         = LET last == D(DecCount(bd, pd, j))
           IN  IF BoostMay(last, pd, j) THEN [last EXCEPT !.rc = DecBit(last.rc, last.logp)] ELSE last
  BY <1>1 DEF DecBoost
<1> HIDE DEF E, D, n, q
<1>11. /\ z.total = E(n).total /\ Grows(E(n).rc, z.rc) /\ z.logp = E(n).logp /\ z.boost = E(n).boost
       /\ BoostMay(E(n), p, j) => z.rc = y
  <2>1. BoostState(E(n)) /\ Coder(E(n).rc) /\ E(n).logp \in 1..15
    BY <1>2, <1>4 DEF Grows, BoostState
  <2>2. Grows(E(n).rc, y) /\ Grows(E(n).rc, E(n).rc)
    BY <2>1, BitGrows, GrowsSelf
  <2> HIDE DEF y
  <2>3. PICK a1, a2, a3, a4 : E(n) = [rc |-> a1, logp |-> a2, total |-> a3, boost |-> a4]
    BY <2>1 DEF BoostState
  <2>4. CASE BoostMay(E(n), p, j)
    <3>1. z = [rc |-> y, logp |-> a2, total |-> a3, boost |-> a4]
      BY <1>8, <2>3, <2>4
    <3> QED
      BY <2>2, <2>3, <3>1
  <2>5. CASE ~BoostMay(E(n), p, j)
    BY <1>8, <2>2, <2>5
  <2> QED
    BY <2>4, <2>5
<1> HIDE DEF z
<1>12. ASSUME NEW k \in Nat, k <= n
       PROVE  Begins(E(k).rc.syms, all) /\ Afford(E(k).rc.frac, E(k).total, b.rc.bytes, bd.rc.bytes) /\ E(k).rc.bytes = b.rc.bytes
  <2>1. n - k \in Nat /\ k + (n - k) = n
    BY <1>2, <1>12
  <2>2. Grows(E(k).rc, E(n).rc) /\ E(k).total <= E(n).total
    BY <1>6, <2>1
  <2>3. Grows(E(k).rc, z.rc)
    BY <1>11, <2>2, GrowsOn
  <2>4. Begins(E(k).rc.syms, all)
    BY <1>0, <2>3, BeginsOn DEF z
  <2>5. E(k).rc.frac \in Nat /\ z.rc.frac \in Nat /\ E(k).rc.frac <= z.rc.frac
    BY <2>3 DEF Grows, Coder
  <2>6. E(k).total \in Nat /\ z.total \in Nat /\ E(k).total <= z.total
    BY <1>2, <1>4, <1>11, <2>2 DEF BoostState
  <2>7. b.rc.bytes \in Nat /\ bd.rc.bytes \in Nat
    BY <1>0 DEF Coder
  <2>8. Afford(E(k).rc.frac, E(k).total, b.rc.bytes, bd.rc.bytes)
    <3>1. Afford(z.rc.frac, z.total, b.rc.bytes, bd.rc.bytes)
      BY DEF z
    <3> QED
      BY <2>5, <2>6, <2>7, <3>1 DEF Afford
  <2>9. Grows(b.rc, E(k).rc)
    BY <1>4
  <2> QED
    BY <2>4, <2>8, <2>9 DEF Grows
<1> DEFINE Good(k, u, v) == BoostState(v) /\ BoostsAlike(u, v) /\ Follows(v.rc, u.rc, all) /\ v.rc.bytes = bd.rc.bytes
           T == {k \in Nat : k <= n => Good(k, E(k), D(k))}
<1>13. 0 \in T
  BY <1>3
<1>14. ASSUME NEW k \in Nat, k <= n, Good(k, E(k), D(k)), NEW v, Begins(EncBit(E(k).rc, E(k).logp, v).syms, all)
       PROVE  Reads(DecBit(D(k).rc, D(k).logp), IF v THEN 1 ELSE 0, D(k).rc, EncBit(E(k).rc, E(k).logp, v), all)
  <2>1. D(k).logp = E(k).logp /\ E(k).logp \in 1..15 /\ Follows(D(k).rc, E(k).rc, all)
    BY <1>4, <1>14 DEF BoostsAlike, BoostState
  <2>2. Reads(DecBit(D(k).rc, E(k).logp), IF v THEN 1 ELSE 0, D(k).rc, EncBit(E(k).rc, E(k).logp, v), all)
    BY <1>14, <2>1, BitReads
  <2> QED
    BY <2>1, <2>2
<1>15. ASSUME NEW k \in Nat, k + 1 <= n, Good(k, E(k), D(k))
       PROVE  /\ Reads(DecBit(D(k).rc, D(k).logp), 1, D(k).rc, E(k + 1).rc, all)
              /\ Good(k + 1, E(k + 1), D(k + 1))
  <2> DEFINE w == EncBit(E(k).rc, E(k).logp, TRUE)
             g == DecBit(D(k).rc, D(k).logp)
  <2>0. k <= n /\ k + 1 \in Nat
    BY <1>2, <1>15
  <2>1. E(k + 1) = BoostBy(E(k), w, q) /\ D(k + 1) = BoostBy(D(k), g, q) /\ BoostState(E(k)) /\ BoostState(D(k))
    BY <1>3, <1>4, <1>5, <1>15
  <2>2. E(k + 1).rc = w
    <3> HIDE DEF w
    <3>1. E(k + 1) = [rc |-> w, logp |-> 1, total |-> E(k).total + q, boost |-> E(k).boost + q]
      BY <2>1 DEF BoostBy
    <3> QED
      BY <3>1
  <2>3. Begins(w.syms, all)
    BY <1>12, <1>15, <2>0, <2>2
  <2>4. Reads(g, 1, D(k).rc, w, all)
    <3>1. Reads(g, IF TRUE THEN 1 ELSE 0, D(k).rc, w, all)
      BY <1>14, <1>15, <2>0, <2>3
    <3> QED
      BY <3>1
  <2> HIDE DEF g, w
  <2>5. BoostState(D(k + 1)) /\ D(k + 1).rc = g
    BY <1>1, <2>1, BoostByIs
  <2>6. BoostsAlike(E(k + 1), D(k + 1))
    <3>1. BoostsAlike(E(k), D(k))
      BY <1>15
    <3> QED
      BY <2>1, <3>1 DEF BoostsAlike, BoostBy
  <2>7. Follows(g, w, all) /\ g.bytes = D(k).rc.bytes
    BY <2>4 DEF Reads
  <2> QED
    BY <1>15, <2>2, <2>4, <2>5, <2>6, <2>7 DEF g
<1>16. ASSUME NEW k \in Nat, k \in T PROVE k + 1 \in T
  <2> SUFFICES ASSUME k + 1 <= n PROVE Good(k + 1, E(k + 1), D(k + 1))
    OBVIOUS
  <2>1. k <= n
    BY <1>2
  <2>2. Good(k, E(k), D(k))
    BY <1>16, <2>1
  <2> HIDE DEF Good
  <2> QED
    BY <1>15, <2>2
<1>17. \A k \in Nat : k <= n => Good(k, E(k), D(k))
  <2>1. T \in SUBSET Nat
    OBVIOUS
  <2>2. T = Nat
    <3> HIDE DEF T
    <3> QED
      BY <1>13, <1>16, <2>1, NatSetInduction
  <2> HIDE DEF Good
  <2> QED
    BY <2>2
<1>18. ASSUME NEW k \in Nat, k <= n
       PROVE  /\ BoostMay(D(k), pd, j) <=> BoostMay(E(k), p, j)
              /\ BoostMay(E(k), p, j) => E(k).total < 64 * bd.rc.bytes
  <2>1. Good(k, E(k), D(k)) /\ BoostState(E(k))
    BY <1>4, <1>17, <1>18
  <2>2. Afford(E(k).rc.frac, E(k).total, E(k).rc.bytes, D(k).rc.bytes) /\ D(k).rc.bytes = bd.rc.bytes
    BY <1>12, <1>18, <2>1
  <2> QED
    BY <2>1, <2>2, BoostMayAlike
<1>19. ASSUME NEW k \in 0..(n - 1) PROVE DecMore(bd, pd, j, k)
  <2>1. k \in Nat /\ k <= n /\ k + 1 <= n
    BY <1>2
  <2>2. BoostMay(D(k), pd, j)
    BY <1>2, <1>7, <1>18, <2>1
  <2>3. Reads(DecBit(D(k).rc, D(k).logp), 1, D(k).rc, E(k + 1).rc, all)
    <3> HIDE DEF Good
    <3> QED
      BY <1>15, <1>17, <2>1
  <2>4. DecBit(D(k).rc, D(k).logp).got = 1
    BY <2>3 DEF Reads
  <2> QED
    BY <1>9, <2>1, <2>2, <2>4
<1>20. Good(n, E(n), D(n)) /\ n <= n
  BY <1>2, <1>17
<1>21. ASSUME BoostMay(E(n), p, j)
       PROVE  Reads(DecBit(D(n).rc, D(n).logp), 0, D(n).rc, z.rc, all)
  <2>1. z.rc = y
    BY <1>11, <1>21
  <2>2. Begins(y.syms, all)
    BY <2>1 DEF z
  <2>3. Reads(DecBit(D(n).rc, D(n).logp), IF FALSE THEN 1 ELSE 0, D(n).rc, y, all)
    <3> HIDE DEF Good
    <3> QED
      BY <1>2, <1>14, <1>20, <2>2
  <2> QED
    BY <2>1, <2>3
<1>22. ~DecMore(bd, pd, j, n)
  <2>1. CASE BoostMay(E(n), p, j)
    BY <1>2, <1>9, <1>21, <2>1 DEF Reads
  <2>2. CASE ~BoostMay(E(n), p, j)
    BY <1>2, <1>9, <1>18, <1>20, <2>2
  <2> QED
    BY <2>1, <2>2
<1>23. n \in 0..(8 * TotalBits(bd.rc)) /\ TotalBits(bd.rc) \in Nat
  <2>1. bd.rc.bytes \in Nat
    BY <1>0 DEF Coder
  <2>2. CASE n = 0
    BY <2>1, <2>2 DEF TotalBits
  <2>3. CASE n # 0
    <3>1. n - 1 \in Nat /\ n - 1 \in 0..(n - 1) /\ n - 1 <= n
      BY <1>2, <2>3
    <3>2. E(n - 1).total < 64 * bd.rc.bytes
      BY <1>2, <1>7, <1>18, <3>1
    <3>3. E(n - 1).total >= b.total + (n - 1) /\ b.total \in Nat /\ E(n - 1).total \in Nat
      BY <1>4, <3>1 DEF BoostState
    <3> QED
      BY <1>2, <2>1, <3>1, <3>2, <3>3 DEF TotalBits
  <2> QED
    BY <2>2, <2>3
<1>24. DecCount(bd, pd, j) = n
  BY <1>19, <1>22, <1>23, DecCountIs
<1> DEFINE g == DecBit(D(n).rc, D(n).logp)
           zd == DecBoost(bd, pd, j)
<1>25. zd = IF BoostMay(D(n), pd, j) THEN [D(n) EXCEPT !.rc = g] ELSE D(n)
  BY <1>10, <1>24
<1>26. BoostMay(D(n), pd, j) <=> BoostMay(E(n), p, j)
  BY <1>2, <1>18, <1>20
<1>27. BoostsAlike(z, D(n))
  BY <1>11, <1>20 DEF BoostsAlike
<1> HIDE DEF zd, g
<1>28. CASE BoostMay(E(n), p, j)
  <2>1. PICK a1, a2, a3, a4 : D(n) = [rc |-> a1, logp |-> a2, total |-> a3, boost |-> a4]
    BY <1>20 DEF BoostState
  <2>2. zd = [rc |-> g, logp |-> D(n).logp, total |-> D(n).total, boost |-> D(n).boost]
    BY <1>25, <1>26, <1>28, <2>1
  <2>3. Reads(g, 0, D(n).rc, z.rc, all)
    BY <1>21, <1>28 DEF g
  <2>4. BoostState(zd)
    BY <1>20, <2>2 DEF BoostState
  <2>5. BoostsAlike(z, zd)
    BY <1>27, <2>2 DEF BoostsAlike
  <2>6. Follows(zd.rc, z.rc, all) /\ zd.rc.bytes = bd.rc.bytes
    BY <1>20, <2>2, <2>3 DEF Reads
  <2> QED
    BY <2>4, <2>5, <2>6 DEF z, zd, BoostDone
<1>29. CASE ~BoostMay(E(n), p, j)
  <2>1. zd = D(n)
    BY <1>25, <1>26, <1>29
  <2>2. z = E(n)
    BY <1>8, <1>29 DEF z
  <2> QED
    BY <1>20, <1>27, <2>1, <2>2 DEF z, zd, BoostDone
<1> QED
  BY <1>28, <1>29

-----------------------------------------------------------------------------
(* The boosts of all bands.                                                 *)
DynState(d, n) ==
    /\ d = [rc |-> d.rc, boosts |-> d.boosts, total |-> d.total, logp |-> d.logp]
    /\ d.boosts \in Seq(Nat) /\ Len(d.boosts) = n /\ d.total \in Nat /\ d.logp \in 2..6
DynAlike(d, dd) == dd.boosts = d.boosts /\ dd.total = d.total /\ dd.logp = d.logp
DynWants(p, want) == \A i \in 1..NbBands : want[i] \in Nat

(* A band begins without boosts, on the coder left by the band before.      *)
LEMMA UnboostedIs ==
  ASSUME NEW d, NEW n, DynState(d, n)
  PROVE  BoostState(Unboosted(d)) /\ Unboosted(d).rc = d.rc /\ Unboosted(d).total = d.total
BY DEF DynState, BoostState, Unboosted

(* A band with its boosts is one band more of the loop.                     *)
LEMMA BoostedIs ==
  ASSUME NEW d, NEW n \in Nat, DynState(d, n), NEW b, BoostState(b)
  PROVE  DynState(Boosted(d, b), n + 1) /\ Boosted(d, b).rc = b.rc /\ Boosted(d, b).total = b.total
<1>1. d.boosts \in Seq(Nat) /\ b.boost \in Nat /\ b.total \in Nat /\ d.logp \in 2..6 /\ Len(d.boosts) = n
  BY DEF DynState, BoostState
<1>2. Append(d.boosts, b.boost) \in Seq(Nat) /\ Len(Append(d.boosts, b.boost)) = n + 1
  BY <1>1
<1>3. (IF b.boost > 0 THEN MaxOf(2, d.logp - 1) ELSE d.logp) \in 2..6
  BY <1>1 DEF MaxOf
<1> DEFINE a == Append(d.boosts, b.boost)
           l == IF b.boost > 0 THEN MaxOf(2, d.logp - 1) ELSE d.logp
<1>4. Boosted(d, b) = [rc |-> b.rc, boosts |-> a, total |-> b.total, logp |-> l]
  BY DEF Boosted
<1> HIDE DEF a, l
<1> QED
  BY <1>1, <1>2, <1>3, <1>4 DEF DynState, a, l

(* Bands boosted alike keep the loops of both ends alike.                   *)
LEMMA BoostedAlike ==
  ASSUME NEW d, NEW dd, DynAlike(d, dd), NEW b, NEW bd, BoostsAlike(b, bd)
  PROVE  DynAlike(Boosted(d, b), Boosted(dd, bd)) /\ BoostsAlike(Unboosted(d), Unboosted(dd))
BY DEF DynAlike, BoostsAlike, Boosted, Unboosted

(* A band of the encoder.                                                   *)
LEMMA EncDynStepIs ==
  ASSUME NEW p, BandParams(p), NEW want, DynWants(p, want), NEW k \in Nat, p.start + k < p.end,
         NEW d, DynState(d, k), Coder(d.rc)
  PROVE  /\ DynState(EncDynStep(d, p, want, k), k + 1)
         /\ Grows(d.rc, EncDynStep(d, p, want, k).rc)
         /\ d.total <= EncDynStep(d, p, want, k).total
         /\ d.rc.frac <= 8 * TotalBits(d.rc) => EncDynStep(d, p, want, k).rc.frac <= 8 * TotalBits(d.rc)
<1> DEFINE j == p.start + k
           u == Unboosted(d)
           z == EncBoost(u, p, j, want[j + 1])
<1>1. j \in 0..20 /\ j + 1 \in 1..NbBands
  BY DEF BandParams, NbBands
<1>2. want[j + 1] \in Nat
  BY <1>1 DEF DynWants
<1>3. EncDynStep(d, p, want, k) = Boosted(d, z)
  BY DEF EncDynStep
<1>4. BoostState(u) /\ u.rc = d.rc /\ u.total = d.total
  BY UnboostedIs
<1> HIDE DEF j, u
<1>5. /\ BoostState(z) /\ Grows(u.rc, z.rc) /\ u.total <= z.total
      /\ u.rc.frac <= 8 * TotalBits(u.rc) => z.rc.frac <= 8 * TotalBits(u.rc)
  BY <1>1, <1>2, <1>4, EncBoostIs
<1> HIDE DEF z
<1>6. DynState(Boosted(d, z), k + 1) /\ Boosted(d, z).rc = z.rc /\ Boosted(d, z).total = z.total
  BY <1>5, BoostedIs
<1> QED
  BY <1>3, <1>4, <1>5, <1>6

(* A band of the decoder.                                                   *)
LEMMA DecDynStepIs ==
  ASSUME NEW p, BandParams(p), NEW want, DynWants(p, want), NEW k \in Nat, p.start + k < p.end,
         NEW d, DynState(d, k), NEW pd, SameBands(p, pd), NEW dd, DynState(dd, k), DynAlike(d, dd),
         NEW all, Follows(dd.rc, d.rc, all), Begins(EncDynStep(d, p, want, k).rc.syms, all),
         Afford(EncDynStep(d, p, want, k).rc.frac, EncDynStep(d, p, want, k).total, d.rc.bytes, dd.rc.bytes)
  PROVE  /\ DynState(DecDynStep(dd, pd, k), k + 1)
         /\ DynAlike(EncDynStep(d, p, want, k), DecDynStep(dd, pd, k))
         /\ Follows(DecDynStep(dd, pd, k).rc, EncDynStep(d, p, want, k).rc, all)
         /\ DecDynStep(dd, pd, k).rc.bytes = dd.rc.bytes
<1> DEFINE j == p.start + k
           u == Unboosted(d)
           ud == Unboosted(dd)
           w == want[j + 1]
           z == EncBoost(u, p, j, w)
           zd == DecBoost(ud, pd, j)
<1>1. j \in 0..20 /\ j + 1 \in 1..NbBands
  BY DEF BandParams, NbBands
<1>2. w \in Nat
  BY <1>1 DEF DynWants
<1>3. EncDynStep(d, p, want, k) = Boosted(d, z) /\ DecDynStep(dd, pd, k) = Boosted(dd, zd)
  BY DEF EncDynStep, DecDynStep, SameBands
<1>4. BoostState(u) /\ u.rc = d.rc /\ u.total = d.total /\ BoostState(ud) /\ ud.rc = dd.rc
  BY UnboostedIs
<1>5. BoostsAlike(u, ud)
  BY DEF DynAlike, Unboosted, BoostsAlike
<1> HIDE DEF j, u, ud, w
<1>6. Coder(d.rc)
  BY DEF Follows
<1>7. BoostState(z)
  BY <1>1, <1>2, <1>4, <1>6, EncBoostIs
<1> HIDE DEF z
<1>8. Boosted(d, z).rc = z.rc /\ Boosted(d, z).total = z.total
  BY <1>7, BoostedIs
<1>9. Begins(z.rc.syms, all) /\ Afford(z.rc.frac, z.total, u.rc.bytes, ud.rc.bytes) /\ Follows(ud.rc, u.rc, all)
  BY <1>3, <1>4, <1>8
<1>13. /\ Begins(EncBoost(u, p, j, w).rc.syms, all)
       /\ Afford(EncBoost(u, p, j, w).rc.frac, EncBoost(u, p, j, w).total, u.rc.bytes, ud.rc.bytes)
  BY <1>9 DEF z
<1>14. BoostReady(u, p, j, w, pd, ud, all)
  BY <1>1, <1>2, <1>4, <1>5, <1>9, <1>13 DEF BoostReady
<1>15. BoostDone(EncBoost(u, p, j, w), DecBoost(ud, pd, j), ud, all)
  BY <1>14, BoostMirrors
<1>10. BoostState(zd) /\ BoostsAlike(z, zd) /\ Follows(zd.rc, z.rc, all) /\ zd.rc.bytes = ud.rc.bytes
  BY <1>15 DEF z, zd, BoostDone
<1> HIDE DEF zd
<1>11. DynState(Boosted(dd, zd), k + 1) /\ Boosted(dd, zd).rc = zd.rc
  BY <1>10, BoostedIs
<1>12. DynAlike(Boosted(d, z), Boosted(dd, zd))
  BY <1>10, BoostedAlike
<1> QED
  BY <1>3, <1>4, <1>8, <1>10, <1>11, <1>12

(* All bands, written.                                                      *)
LEMMA DynGrows ==
  ASSUME NEW p, BandParams(p), NEW want, DynWants(p, want), NEW d, DynState(d, 0), Coder(d.rc),
         NEW n \in Nat, n <= p.end - p.start
  PROVE  /\ DynState(EncDynalloc(d, p, want, n), n)
         /\ Grows(d.rc, EncDynalloc(d, p, want, n).rc)
         /\ d.rc.frac <= 8 * TotalBits(d.rc) => EncDynalloc(d, p, want, n).rc.frac <= 8 * TotalBits(d.rc)
<1> DEFINE E(m) == EncDynalloc(d, p, want, m)
           Good(m, z) == /\ DynState(z, m) /\ Grows(d.rc, z.rc)
                         /\ d.rc.frac <= 8 * TotalBits(d.rc) => z.rc.frac <= 8 * TotalBits(d.rc)
           T == {m \in Nat : m <= p.end - p.start => Good(m, E(m))}
<1>1. E(0) = d /\ \A m \in Nat : E(m + 1) = EncDynStep(E(m), p, want, m)
  BY EncDynGoes
<1>2. p.start \in Nat /\ p.end \in Nat
  BY DEF BandParams
<1> HIDE DEF E
<1>3. 0 \in T
  BY <1>1, GrowsSelf
<1>4. ASSUME NEW m \in Nat, m \in T PROVE m + 1 \in T
  <2> SUFFICES ASSUME m + 1 <= p.end - p.start PROVE Good(m + 1, E(m + 1))
    OBVIOUS
  <2>1. p.start + m < p.end /\ m <= p.end - p.start
    BY <1>2
  <2>2. DynState(E(m), m) /\ Grows(d.rc, E(m).rc)
        /\ (d.rc.frac <= 8 * TotalBits(d.rc) => E(m).rc.frac <= 8 * TotalBits(d.rc))
    BY <1>4, <2>1
  <2>3. Coder(E(m).rc) /\ TotalBits(E(m).rc) = TotalBits(d.rc)
    BY <2>2 DEF Grows, TotalBits
  <2>4. /\ DynState(E(m + 1), m + 1) /\ Grows(E(m).rc, E(m + 1).rc)
        /\ E(m).rc.frac <= 8 * TotalBits(E(m).rc) => E(m + 1).rc.frac <= 8 * TotalBits(E(m).rc)
    BY <1>1, <2>1, <2>2, <2>3, EncDynStepIs
  <2>5. Grows(d.rc, E(m + 1).rc)
    BY <2>2, <2>4, GrowsOn
  <2> QED
    BY <2>2, <2>3, <2>4, <2>5
<1>5. T = Nat
  <2>1. T \in SUBSET Nat
    OBVIOUS
  <2> HIDE DEF T
  <2> QED
    BY <1>3, <1>4, <2>1, NatSetInduction
<1>6. Good(n, E(n))
  <2>1. n \in T
    BY <1>5
  <2> HIDE DEF Good
  <2> QED
    BY <2>1
<1> QED
  BY <1>6 DEF E

(* All bands, read.                                                         *)
LEMMA DynMirrors ==
  ASSUME NEW p, BandParams(p), NEW want, DynWants(p, want), NEW d, DynState(d, 0),
         NEW pd, SameBands(p, pd), NEW dd, DynState(dd, 0), DynAlike(d, dd), NEW all, Follows(dd.rc, d.rc, all),
         NEW n \in Nat, n = p.end - p.start, Begins(EncDynalloc(d, p, want, n).rc.syms, all),
         Afford(EncDynalloc(d, p, want, n).rc.frac, EncDynalloc(d, p, want, n).total, d.rc.bytes, dd.rc.bytes)
  PROVE  /\ DynState(DecDynalloc(dd, pd, n), n)
         /\ DynAlike(EncDynalloc(d, p, want, n), DecDynalloc(dd, pd, n))
         /\ Follows(DecDynalloc(dd, pd, n).rc, EncDynalloc(d, p, want, n).rc, all)
         /\ DecDynalloc(dd, pd, n).rc.bytes = dd.rc.bytes
<1> DEFINE E(m) == EncDynalloc(d, p, want, m)
           D(m) == DecDynalloc(dd, pd, m)
           Good(m, y, z) == DynState(z, m) /\ DynAlike(y, z) /\ Follows(z.rc, y.rc, all) /\ z.rc.bytes = dd.rc.bytes
           Asked(y) == Begins(y.rc.syms, all) /\ Afford(y.rc.frac, y.total, d.rc.bytes, dd.rc.bytes)
           T == {m \in Nat : m <= n /\ Asked(E(m)) => Good(m, E(m), D(m))}
<1>0. Coder(d.rc) /\ Log(all) /\ d.rc.bytes \in Nat /\ dd.rc.bytes \in Nat
  BY DEF Follows, Coder
<1>1. E(0) = d /\ \A m \in Nat : E(m + 1) = EncDynStep(E(m), p, want, m)
  BY EncDynGoes
<1>2. D(0) = dd /\ \A m \in Nat : D(m + 1) = DecDynStep(D(m), pd, m)
  BY DecDynGoes
<1>3. p.start \in Nat /\ p.end \in Nat
  BY DEF BandParams
<1>4. \A m \in Nat : m <= n => DynState(E(m), m) /\ Grows(d.rc, E(m).rc)
  BY <1>0, DynGrows
<1> HIDE DEF E, D
<1>5. 0 \in T
  BY <1>1, <1>2
<1>6. ASSUME NEW m \in Nat, m \in T PROVE m + 1 \in T
  <2> SUFFICES ASSUME m + 1 <= n, Asked(E(m + 1)) PROVE Good(m + 1, E(m + 1), D(m + 1))
    OBVIOUS
  <2>1. p.start + m < p.end /\ m <= n /\ E(m + 1) = EncDynStep(E(m), p, want, m) /\ D(m + 1) = DecDynStep(D(m), pd, m)
    BY <1>1, <1>2, <1>3
  <2>2. DynState(E(m), m) /\ Coder(E(m).rc) /\ E(m).rc.bytes = d.rc.bytes
    BY <1>4, <2>1 DEF Grows
  <2>3. Grows(E(m).rc, E(m + 1).rc) /\ E(m).total <= E(m + 1).total /\ DynState(E(m + 1), m + 1)
    BY <2>1, <2>2, EncDynStepIs
  <2>4. Begins(E(m).rc.syms, all)
    BY <1>0, <2>3, BeginsOn
  <2>5. Afford(E(m).rc.frac, E(m).total, d.rc.bytes, dd.rc.bytes)
    <3>1. E(m).rc.frac \in Nat /\ E(m + 1).rc.frac \in Nat /\ E(m).rc.frac <= E(m + 1).rc.frac
      BY <2>3 DEF Grows, Coder
    <3>2. E(m).total \in Nat /\ E(m + 1).total \in Nat
      BY <2>2, <2>3 DEF DynState
    <3>3. Afford(E(m + 1).rc.frac, E(m + 1).total, d.rc.bytes, dd.rc.bytes)
      OBVIOUS
    <3> QED
      BY <1>0, <2>3, <3>1, <3>2, <3>3 DEF Afford
  <2>6. Good(m, E(m), D(m))
    BY <1>6, <2>1, <2>4, <2>5
  <2>7. /\ DynState(D(m), m) /\ DynAlike(E(m), D(m)) /\ Follows(D(m).rc, E(m).rc, all) /\ D(m).rc.bytes = dd.rc.bytes
        /\ Begins(EncDynStep(E(m), p, want, m).rc.syms, all)
        /\ Afford(EncDynStep(E(m), p, want, m).rc.frac, EncDynStep(E(m), p, want, m).total, E(m).rc.bytes, D(m).rc.bytes)
    BY <2>1, <2>2, <2>6
  <2>8. /\ DynState(D(m + 1), m + 1) /\ DynAlike(E(m + 1), D(m + 1)) /\ Follows(D(m + 1).rc, E(m + 1).rc, all)
        /\ D(m + 1).rc.bytes = D(m).rc.bytes
    BY <2>1, <2>2, <2>7, DecDynStepIs
  <2> QED
    BY <2>7, <2>8
<1>7. T = Nat
  <2>1. T \in SUBSET Nat
    OBVIOUS
  <2> HIDE DEF T
  <2> QED
    BY <1>5, <1>6, <2>1, NatSetInduction
<1>8. Good(n, E(n), D(n))
  <2>1. n \in T /\ Asked(E(n)) /\ n <= n
    BY <1>7 DEF E
  <2> HIDE DEF Good, Asked
  <2> QED
    BY <2>1
<1> QED
  BY <1>8 DEF E, D

-----------------------------------------------------------------------------
(* The header of a frame.                                                   *)

LEMMA NothingLogged == Log(<<>>) /\ Len(<<>>) = 0
<1>1. <<>> \in Seq(Elements(<<>>))
  OBVIOUS
<1> QED
  BY <1>1 DEF Log

(* A decoder opened on a packet follows the encoder opened for it.          *)
LEMMA OpenedFollows ==
  ASSUME NEW f, f.tell0 \in Nat, NEW A \in Nat, NEW B \in Nat, NEW all, Log(all)
  PROVE  /\ Coder(FreshCoder(f, A, <<>>)) /\ FreshCoder(f, A, <<>>).frac = f.tell0 /\ FreshCoder(f, A, <<>>).bytes = A
         /\ FreshCoder(f, A, <<>>).ok
         /\ Follows(FreshCoder(f, B, all), FreshCoder(f, A, <<>>), all) /\ FreshCoder(f, B, all).bytes = B
<1> DEFINE x == FreshCoder(f, A, <<>>)
           d == FreshCoder(f, B, all)
<1>1. x = [frac |-> f.tell0, bytes |-> A, syms |-> <<>>, place |-> 0, ok |-> TRUE, got |-> 0]
  BY DEF FreshCoder
<1>2. d = [frac |-> f.tell0, bytes |-> B, syms |-> all, place |-> 0, ok |-> TRUE, got |-> 0]
  BY DEF FreshCoder
<1> HIDE DEF x, d
<1>3. Coder(x)
  BY <1>1, NothingLogged DEF Coder
<1>4. Coder(d)
  BY <1>2 DEF Coder
<1>5. Len(all) \in Nat
  BY DEF Log
<1>6. Begins(<<>>, all)
  BY <1>5, NothingLogged DEF Begins
<1>7. Follows(d, x, all)
  BY <1>1, <1>2, <1>3, <1>4, <1>6, NothingLogged DEF Follows
<1> QED
  BY <1>1, <1>2, <1>3, <1>7 DEF x, d

(* All bits left are given up.                                              *)
LEMMA Forwarded ==
  ASSUME NEW x, Coder(x), TellBits(x) <= TotalBits(x)
  PROVE  /\ Coder(FastForward(x)) /\ TellBits(FastForward(x)) = TotalBits(x)
         /\ FastForward(x).frac = x.frac + 8 * (TotalBits(x) - TellBits(x))
         /\ FastForward(x).bytes = x.bytes /\ FastForward(x).syms = x.syms /\ FastForward(x).ok = x.ok
         /\ FastForward(x).got = x.got /\ FastForward(x).place = x.place
<1> DEFINE m == 8 * (TotalBits(x) - TellBits(x))
           y == FastForward(x)
<1>1. PICK a, b, s, p, o, g : x = [frac |-> a, bytes |-> b, syms |-> s, place |-> p, ok |-> o, got |-> g]
  BY DEF Coder
<1>2. y = [x EXCEPT !.frac = @ + m]
  BY DEF FastForward
<1>3. TotalBits(x) \in Nat /\ TellBits(x) \in Nat /\ x.frac \in Nat
  BY CoderCounts
<1>4. m \in Nat
  BY <1>3
<1> HIDE DEF y, m
<1>5. y = [frac |-> a + m, bytes |-> b, syms |-> s, place |-> p, ok |-> o, got |-> g]
  BY <1>1, <1>2
<1>6. Coder(y)
  BY <1>1, <1>3, <1>4, <1>5 DEF Coder
<1>7. TellBits(y) = TotalBits(x)
  <2>1. y.frac = x.frac + m
    BY <1>1, <1>5
  <2>2. (x.frac + m + 7) \div 8 = (x.frac + 7) \div 8 + (TotalBits(x) - TellBits(x))
    BY <1>3 DEF m
  <2> QED
    BY <1>3, <2>1, <2>2 DEF TellBits
<1> QED
  BY <1>1, <1>5, <1>6, <1>7 DEF y, m

(* After both ends count a silent frame as full they are still in step.     *)
LEMMA ForwardedFollows ==
  ASSUME NEW x, NEW d, NEW all, Follows(d, x, all), TellBits(x) <= TotalBits(x), d.bytes = x.bytes
  PROVE  Follows(FastForward(d), FastForward(x), all) /\ FastForward(d).bytes = d.bytes /\ FastForward(d).got = d.got
<1>1. Coder(x) /\ Coder(d) /\ TellBits(d) = TellBits(x) /\ d.frac = x.frac
  BY TellsAlike DEF Follows
<1>2. TotalBits(d) = TotalBits(x)
  BY DEF TotalBits
<1>3. /\ Coder(FastForward(x)) /\ FastForward(x).frac = x.frac + 8 * (TotalBits(x) - TellBits(x)) /\ FastForward(x).syms = x.syms
      /\ Coder(FastForward(d)) /\ FastForward(d).frac = d.frac + 8 * (TotalBits(d) - TellBits(d))
      /\ FastForward(d).bytes = d.bytes /\ FastForward(d).syms = d.syms /\ FastForward(d).ok = d.ok
      /\ FastForward(d).got = d.got /\ FastForward(d).place = d.place
  BY <1>1, <1>2, Forwarded
<1>4. FastForward(d).frac = FastForward(x).frac
  BY <1>1, <1>2, <1>3
<1> QED
  BY <1>1, <1>3, <1>4 DEF Follows

(* A coder of another size.                                                 *)
LEMMA Resized ==
  ASSUME NEW x, Coder(x), NEW n \in Nat
  PROVE  /\ Coder([x EXCEPT !.bytes = n]) /\ [x EXCEPT !.bytes = n].bytes = n /\ [x EXCEPT !.bytes = n].frac = x.frac
         /\ [x EXCEPT !.bytes = n].syms = x.syms /\ [x EXCEPT !.bytes = n].ok = x.ok
         /\ \A d, all : Follows(d, x, all) => Follows(d, [x EXCEPT !.bytes = n], all)
<1> DEFINE y == [x EXCEPT !.bytes = n]
<1>1. PICK a, b, s, p, o, g : x = [frac |-> a, bytes |-> b, syms |-> s, place |-> p, ok |-> o, got |-> g]
  BY DEF Coder
<1>2. y = [frac |-> a, bytes |-> n, syms |-> s, place |-> p, ok |-> o, got |-> g]
  BY <1>1
<1> HIDE DEF y
<1>3. Coder(y)
  BY <1>1, <1>2 DEF Coder
<1>4. \A d, all : Follows(d, x, all) => Follows(d, y, all)
  BY <1>1, <1>2, <1>3 DEF Follows
<1> QED
  BY <1>1, <1>2, <1>3, <1>4 DEF y

(* Facts about a frame that the code is called with.                        *)
Sized(f) == f.tell0 \in Nat /\ f.bytes \in Nat /\ f.bytes >= 2 /\ f.tell0 <= 64 * f.bytes /\ f.vbr \in Nat /\ f.silent \in BOOLEAN
Plain(f) == FreshCoder(f, f.bytes, <<>>)
WasSilent(f) == f.silent /\ TellBits(Plain(f)) = 1
HushSent(f) == EncSilence(Plain(f), f.silent, f.vbr)
HushRead(f, B, all) == DecSilence(FreshCoder(f, B, all))

HushLeaves(f, x) ==
    /\ Coder(x) /\ x.ok /\ x.bytes \in Nat /\ 2 <= x.bytes /\ x.bytes <= f.bytes /\ TellBits(x) <= TotalBits(x)
    /\ WasSilent(f) => TellBits(x) = TotalBits(x)
    /\ ~WasSilent(f) => x.frac = f.tell0 /\ x.bytes = f.bytes
HushHeard(f, x, h, B, all) ==
    /\ Follows(h, x, all) /\ h.bytes = B
    /\ WasSilent(f) => h.got = 1
    /\ ~WasSilent(f) /\ TellBits(x) < TotalBits(x) => h.got = 0

(* A silent frame: the flag is sent and read, and both ends are full.       *)
LEMMA SilenceSilent ==
  ASSUME NEW f, Sized(f), WasSilent(f)
  PROVE  /\ HushLeaves(f, HushSent(f))
         /\ \A B, all : Log(all) /\ Begins(HushSent(f).syms, all) /\ Roomy(HushSent(f), B)
                           => HushHeard(f, HushSent(f), HushRead(f, B, all), B, all)
<1> DEFINE x0 == Plain(f)
           y == EncBit(x0, 15, TRUE)
           n == MaxOf(2, MinOf(f.bytes, ((TellBits(y) + 7) \div 8) + 2))
           z == IF f.vbr > 0 THEN [y EXCEPT !.bytes = n] ELSE y
           x == HushSent(f)
<1>1. /\ f.tell0 \in Nat /\ f.bytes \in Nat /\ f.bytes >= 2 /\ f.tell0 <= 64 * f.bytes /\ f.vbr \in Nat
      /\ f.silent = TRUE /\ TellBits(x0) = 1
  BY DEF Sized, WasSilent
<1>2. Coder(x0) /\ x0.frac = f.tell0 /\ x0.bytes = f.bytes /\ x0.ok
  BY <1>1, NothingLogged, OpenedFollows DEF Plain
<1>15. 15 \in 1..15
  OBVIOUS
<1>3. x = FastForward(z)
  <2>1. x = EncSilence(x0, TRUE, f.vbr)
    BY <1>1 DEF HushSent
  <2>2. EncSilence(x0, TRUE, f.vbr) = Hushed(y, f.vbr)
    BY <1>1 DEF EncSilence
  <2>3. Hushed(y, f.vbr) = FastForward(IF f.vbr > 0 THEN [y EXCEPT !.bytes = MaxOf(2, MinOf(y.bytes, ((TellBits(y) + 7) \div 8) + 2))] ELSE y)
    BY DEF Hushed
  <2>4. y.bytes = f.bytes
    <3>1. Grows(x0, EncBit(x0, 15, TRUE))
      BY <1>2, <1>15, BitGrows
    <3> QED
      BY <1>2, <3>1 DEF Grows
  <2> QED
    BY <2>1, <2>2, <2>3, <2>4
<1> HIDE DEF x0
<1>4. Grows(x0, y) /\ y.frac <= x0.frac + 8 * 15
  BY <1>2, <1>15, BitGrows
<1>5. Coder(y) /\ y.bytes = f.bytes /\ y.ok /\ y.frac \in Nat
  BY <1>2, <1>4 DEF Grows, Coder
<1>6. TellBits(y) \in Nat /\ TellBits(y) <= 16
  <2>1. x0.frac <= 8
    BY <1>1, <1>2 DEF TellBits
  <2> HIDE DEF y
  <2>2. y.frac <= 128 /\ y.frac \in Nat
    <3>1. x0.frac \in Nat
      BY <1>1, <1>2
    <3> QED
      BY <1>4, <1>5, <2>1, <3>1
  <2> QED
    BY <2>2 DEF TellBits
<1> HIDE DEF y
<1>7. n \in Nat /\ 2 <= n /\ n <= f.bytes
  BY <1>1, <1>6 DEF MaxOf, MinOf
<1> HIDE DEF n
<1>8. /\ Coder(z) /\ z.frac = y.frac /\ z.syms = y.syms /\ z.ok /\ z.bytes \in Nat /\ 2 <= z.bytes /\ z.bytes <= f.bytes
      /\ \A d, all : Follows(d, y, all) => Follows(d, z, all)
  <2>1. CASE f.vbr > 0
    BY <1>5, <1>7, <2>1, Resized
  <2>2. CASE ~(f.vbr > 0)
    BY <1>1, <1>5, <2>2
  <2> QED
    BY <2>1, <2>2
<1> HIDE DEF z
<1>9. TellBits(z) <= TotalBits(z)
  BY <1>5, <1>6, <1>8 DEF TellBits, TotalBits
<1>10. /\ Coder(x) /\ TellBits(x) = TotalBits(z) /\ x.bytes = z.bytes /\ x.syms = z.syms /\ x.ok = z.ok
       /\ x.frac = z.frac + 8 * (TotalBits(z) - TellBits(z))
  BY <1>3, <1>8, <1>9, Forwarded
<1> HIDE DEF x
<1>11. TotalBits(x) = TotalBits(z) /\ TotalBits(x) \in Nat
  BY <1>8, <1>10 DEF TotalBits
<1>12. HushLeaves(f, x)
  BY <1>8, <1>10, <1>11 DEF HushLeaves
<1>13. ASSUME NEW B, NEW all, Log(all), Begins(x.syms, all), Roomy(x, B)
       PROVE  HushHeard(f, x, HushRead(f, B, all), B, all)
  <2> DEFINE d == FreshCoder(f, B, all)
             g == DecBit(d, 15)
  <2>1. B = x.bytes
    <3>1. 8 * B = TotalBits(x) \/ TellBits(x) + 16 <= TotalBits(x)
      BY <1>10, <1>13, RoomyTells
    <3> QED
      BY <1>8, <1>10, <1>11, <1>13, <3>1 DEF TotalBits, Roomy
  <2>2. Follows(d, x0, all) /\ d.bytes = B
    BY <1>1, <1>8, <1>10, <1>13, <2>1, OpenedFollows DEF Plain, x0
  <2> HIDE DEF d
  <2>3. Begins(EncBit(x0, 15, TRUE).syms, all)
    BY <1>8, <1>10, <1>13 DEF y
  <2>4. Reads(g, 1, d, y, all)
    BY <1>15, <2>2, <2>3, BitReads DEF y
  <2> HIDE DEF g
  <2>5. Follows(g, z, all) /\ g.got = 1 /\ g.bytes = z.bytes
    BY <1>8, <1>10, <2>1, <2>2, <2>4 DEF Reads
  <2>6. TellBits(d) = 1 /\ ~(TellBits(d) >= TotalBits(d))
    <3>1. TellBits(d) = 1
      BY <1>1, <2>2, TellsAlike
    <3> QED
      BY <1>8, <1>10, <2>1, <2>2, <3>1 DEF TotalBits
  <2>7. HushRead(f, B, all) = FastForward(g)
    BY <2>5, <2>6 DEF HushRead, DecSilence, d, g
  <2>8. Follows(FastForward(g), FastForward(z), all) /\ FastForward(g).bytes = g.bytes /\ FastForward(g).got = g.got
    BY <1>9, <2>5, ForwardedFollows
  <2> QED
    BY <1>3, <1>10, <2>1, <2>5, <2>7, <2>8 DEF HushHeard
<1> QED
  BY <1>12, <1>13 DEF x

(* Any other frame: the flag is sent and read, where there is one.          *)
LEMMA SilenceLoud ==
  ASSUME NEW f, Sized(f), ~WasSilent(f)
  PROVE  /\ HushLeaves(f, HushSent(f))
         /\ \A B, all : Log(all) /\ Begins(HushSent(f).syms, all) /\ Roomy(HushSent(f), B)
                           => HushHeard(f, HushSent(f), HushRead(f, B, all), B, all)
<1> DEFINE x0 == Plain(f)
           x == HushSent(f)
<1>1. /\ f.tell0 \in Nat /\ f.bytes \in Nat /\ f.bytes >= 2 /\ f.tell0 <= 64 * f.bytes /\ f.vbr \in Nat
      /\ f.silent \in BOOLEAN
  BY DEF Sized
<1>2. Coder(x0) /\ x0.frac = f.tell0 /\ x0.bytes = f.bytes /\ x0.ok /\ TellBits(x0) \in Nat
  BY <1>1, NothingLogged, OpenedFollows, CoderCounts DEF Plain
<1>3. IF TellBits(x0) = 1 THEN x = EncBit(x0, 15, FALSE) ELSE x = x0
  BY <1>1 DEF WasSilent, HushSent, EncSilence
<1> HIDE DEF x0
<1>15. 15 \in 1..15
  OBVIOUS
<1> HIDE DEF x
<1>4. Grows(x0, x) /\ x.frac = x0.frac
  <2>1. CASE TellBits(x0) = 1
    <3>1. Grows(x0, EncBit(x0, 15, FALSE))
      BY <1>2, <1>15, BitGrows
    <3>2. EncBit(x0, 15, FALSE).frac = x0.frac + 0
      <4>1. EncBit(x0, 15, FALSE) = PutSym(x0, "bit", 15, 0, 0)
        BY DEF EncBit
      <4>2. 0 \in Nat
        OBVIOUS
      <4>3. PutSym(x0, "bit", 15, 0, 0).frac = x0.frac + 0
        BY <1>2, <4>2, PutGrows
      <4> QED
        BY <4>1, <4>3
    <3>3. x = EncBit(x0, 15, FALSE) /\ x0.frac + 0 = x0.frac
      BY <1>1, <1>2, <1>3, <2>1
    <3> QED
      BY <3>1, <3>2, <3>3
  <2>2. CASE TellBits(x0) # 1
    BY <1>2, <1>3, <2>2, GrowsSelf
  <2> QED
    BY <2>1, <2>2
<1> HIDE DEF x
<1>5. Coder(x) /\ x.ok /\ x.bytes = f.bytes /\ x.frac = f.tell0
  BY <1>2, <1>4 DEF Grows
<1>6. TellBits(x) <= TotalBits(x) /\ TellBits(x) = TellBits(x0) /\ TotalBits(x) = 8 * f.bytes
  BY <1>1, <1>2, <1>5 DEF TellBits, TotalBits
<1>7. HushLeaves(f, x)
  BY <1>1, <1>5, <1>6 DEF HushLeaves
<1>8. ASSUME NEW B, NEW all, Log(all), Begins(x.syms, all), Roomy(x, B)
      PROVE  HushHeard(f, x, HushRead(f, B, all), B, all)
  <2> DEFINE d == FreshCoder(f, B, all)
  <2>1. B \in Nat
    BY <1>8 DEF Roomy
  <2>2. Follows(d, x0, all) /\ d.bytes = B
    BY <1>1, <1>8, <2>1, OpenedFollows DEF Plain, x0
  <2>3. HushRead(f, B, all) =
          LET flagged == IF TellBits(d) >= TotalBits(d) THEN [d EXCEPT !.got = 1]
                         ELSE IF TellBits(d) = 1 THEN DecBit(d, 15) ELSE [d EXCEPT !.got = 0]
          IN  IF flagged.got = 1 THEN FastForward(flagged) ELSE flagged
    BY DEF HushRead, DecSilence
  <2> HIDE DEF d
  <2>4. TellBits(d) = TellBits(x) /\ TotalBits(d) = 8 * B /\ TellBits(x) \in Nat
    BY <1>2, <1>6, <2>2, TellsAlike DEF TotalBits
  <2>5. 8 * B = TotalBits(x) \/ TellBits(x) + 16 <= 8 * B
    BY <1>5, <1>8, RoomyTells
  <2>6. CASE TellBits(d) >= TotalBits(d)
    <3> DEFINE g == [d EXCEPT !.got = 1]
    <3>1. 8 * B = TotalBits(x) /\ B = x.bytes /\ TellBits(x) = TotalBits(x) /\ 8 * f.bytes = TellBits(x0)
      BY <1>1, <1>5, <1>6, <2>1, <2>4, <2>5, <2>6 DEF TotalBits
    <3>2. TellBits(x0) # 1
      BY <1>1, <3>1
    <3>3. x = x0
      BY <1>3, <3>2 DEF x
    <3>4. Follows(g, x, all) /\ g.got = 1 /\ g.bytes = B
      BY <2>2, <3>3, GotFollows
    <3> HIDE DEF g
    <3>5. HushRead(f, B, all) = FastForward(g)
      BY <2>3, <2>6, <3>4 DEF g
    <3>6. Follows(FastForward(g), FastForward(x), all) /\ FastForward(g).bytes = g.bytes
      BY <1>6, <3>1, <3>4, ForwardedFollows
    <3>7. FastForward(x).frac = x.frac /\ FastForward(x).syms = x.syms
      <4>1. /\ FastForward(x).frac = x.frac + 8 * (TotalBits(x) - TellBits(x))
            /\ FastForward(x).syms = x.syms
        BY <1>5, <1>6, Forwarded
      <4> QED
        BY <1>1, <1>5, <1>6, <2>4, <3>1, <4>1
    <3>8. Follows(FastForward(g), x, all)
      BY <1>5, <3>6, <3>7 DEF Follows
    <3> QED
      BY <3>1, <3>4, <3>5, <3>6, <3>8, <2>4 DEF HushHeard
  <2>7. CASE ~(TellBits(d) >= TotalBits(d)) /\ TellBits(d) = 1
    <3>1. x = EncBit(x0, 15, FALSE)
      BY <1>3, <1>6, <2>4, <2>7 DEF x
    <3>2. Reads(DecBit(d, 15), 0, d, x, all)
      BY <1>8, <1>15, <2>2, <3>1, BitReads
    <3>3. HushRead(f, B, all) = DecBit(d, 15)
      BY <2>3, <2>7, <3>2 DEF Reads
    <3> QED
      BY <2>2, <3>2, <3>3 DEF Reads, HushHeard
  <2>8. CASE ~(TellBits(d) >= TotalBits(d)) /\ TellBits(d) # 1
    <3>1. x = x0
      BY <1>3, <1>6, <2>4, <2>8 DEF x
    <3>2. Reads([d EXCEPT !.got = 0], 0, d, x, all)
      BY <2>2, <3>1, GotReads
    <3>3. HushRead(f, B, all) = [d EXCEPT !.got = 0]
      BY <2>3, <2>8, <3>2 DEF Reads
    <3> QED
      BY <2>2, <3>2, <3>3 DEF Reads, HushHeard
  <2> QED
    BY <2>6, <2>7, <2>8
<1> QED
  BY <1>7, <1>8 DEF x

(* The pitch filter.                                                        *)
Pitches == [t : 15..1022, g : 0..8, tapset : 0..2]

(* A pitch period splits into an octave and a place in it that make it up   *)
(* again.                                                                   *)
LEMMA OctaveIs ==
  ASSUME NEW t \in 15..1022
  PROVE  /\ Octave(t) \in 0..5 /\ 4 + Octave(t) \in Nat /\ 4 + Octave(t) <= 9
         /\ Lowest(Octave(t)) + (t + 1 - Lowest(Octave(t))) - 1 = t
<1>1. Octave(t) \in 0..5
  BY DEF Octave
<1> DEFINE o == Octave(t)
<1> HIDE DEF o
<1>2. Pow2(o) \in Nat
  <2>1. o \in 0..8
    BY <1>1 DEF o
  <2> QED
    BY <2>1, Powers
<1>3. Lowest(o) \in Nat
  BY <1>2 DEF Lowest
<1> DEFINE l == Lowest(o)
<1> HIDE DEF l
<1>4. l + (t + 1 - l) - 1 = t
  BY <1>3 DEF l
<1> QED
  BY <1>1, <1>4 DEF o, l

(* What is written before the tap set.                                      *)
Placed(x, f) == EncRaw(PutSym(EncBit(x, 1, TRUE), "octave", 6, Octave(f.t), 21), f.t + 1 - Lowest(Octave(f.t)), 4 + Octave(f.t))
Gained(x, f) == EncRaw(Placed(x, f), f.g - 1, 3)
TapCost(f) == IF f.tapset = 0 THEN 8 ELSE 16

(* The pitch is sent in six symbols, of 141 eighths of a bit at most.       *)
LEMMA PitchPlaced ==
  ASSUME NEW x, Coder(x), NEW f \in Pitches, f.g > 0
  PROVE  /\ EncPitch(x, f) = PutSym(Gained(x, f), "tapset", 2, f.tapset, TapCost(f))
         /\ TapCost(f) \in Nat /\ TapCost(f) >= 8 /\ TapCost(f) <= 16
         /\ Grows(x, EncBit(x, 1, TRUE))
         /\ Grows(EncBit(x, 1, TRUE), PutSym(EncBit(x, 1, TRUE), "octave", 6, Octave(f.t), 21))
         /\ Grows(PutSym(EncBit(x, 1, TRUE), "octave", 6, Octave(f.t), 21), Placed(x, f))
         /\ Grows(Placed(x, f), Gained(x, f))
         /\ Gained(x, f).frac <= x.frac + 125
         /\ EncPitch(x, f).frac = Gained(x, f).frac + TapCost(f)
         /\ Grows(Gained(x, f), EncPitch(x, f))
<1> DEFINE y1 == EncBit(x, 1, TRUE)
           o == Octave(f.t)
           y2 == PutSym(y1, "octave", 6, o, 21)
           v == f.t + 1 - Lowest(o)
           y3 == EncRaw(y2, v, 4 + o)
           w == f.g - 1
           y4 == EncRaw(y3, w, 3)
           c == TapCost(f)
<1>1. f.t \in 15..1022 /\ f.g \in 0..8 /\ f.g # 0
  BY DEF Pitches
<1>2. o \in 0..5 /\ 4 + o \in Nat /\ 4 + o <= 9
  BY <1>1, OctaveIs
<1>3. EncPitch(x, f) = PutSym(y4, "tapset", 2, f.tapset, c)
  <2>1. (f.g > 0) = TRUE /\ f.g # 0
    BY <1>1
  <2> QED
    BY <2>1 DEF EncPitch, TapCost
<1>4. c \in Nat /\ c >= 8 /\ c <= 16
  BY DEF TapCost
<1> HIDE DEF o, v, w, c
<1>5. 1 \in 1..15 /\ 21 \in Nat /\ 3 \in Nat
  OBVIOUS
<1>6. Grows(x, y1) /\ y1.frac <= x.frac + 8 * 1
  BY <1>5, BitGrows
<1> HIDE DEF y1
<1>7. Coder(y1) /\ y1.frac \in Nat /\ x.frac \in Nat
  BY <1>6 DEF Grows, Coder
<1>8. Grows(y1, y2) /\ y2.frac = y1.frac + 21
  BY <1>5, <1>7, PutGrows
<1> HIDE DEF y2
<1>9. Coder(y2) /\ y2.frac \in Nat
  BY <1>8 DEF Grows, Coder
<1>10. Grows(y2, y3) /\ y3.frac = y2.frac + 8 * (4 + o)
  BY <1>2, <1>9, RawGrows
<1> HIDE DEF y3
<1>11. Coder(y3) /\ y3.frac \in Nat
  BY <1>10 DEF Grows, Coder
<1>12. Grows(y3, y4) /\ y4.frac = y3.frac + 8 * 3
  BY <1>5, <1>11, RawGrows
<1> HIDE DEF y4
<1>13. Coder(y4) /\ y4.frac \in Nat
  BY <1>12 DEF Grows, Coder
<1>14. Grows(y4, PutSym(y4, "tapset", 2, f.tapset, c)) /\ PutSym(y4, "tapset", 2, f.tapset, c).frac = y4.frac + c
  BY <1>4, <1>13, PutGrows
<1>15. y4.frac <= x.frac + 125
  BY <1>2, <1>6, <1>7, <1>8, <1>9, <1>10, <1>11, <1>12, <1>13
<1>16. Gained(x, f) = y4 /\ Placed(x, f) = y3
  BY DEF Gained, Placed, y4, y3, y2, y1, v, o, w
<1> QED
  BY <1>3, <1>4, <1>6, <1>8, <1>10, <1>12, <1>14, <1>15, <1>16 DEF c, y1, y2, o

(* Sending the pitch, or that there is none, appends, at a bounded cost.    *)
LEMMA PitchGrows ==
  ASSUME NEW x, Coder(x), NEW f \in Pitches
  PROVE  /\ Grows(x, EncPitch(x, f))
         /\ EncPitch(x, f).frac <= x.frac + 141
         /\ f.g = 0 => EncPitch(x, f).frac <= x.frac + 8
<1>1. x.frac \in Nat
  BY DEF Coder
<1>2. CASE f.g = 0
  <2>1. EncPitch(x, f) = EncBit(x, 1, FALSE)
    <3>1. (f.g > 0) = FALSE
      BY <1>2
    <3> QED
      BY <1>2, <3>1 DEF EncPitch
  <2>2. 1 \in 1..15
    OBVIOUS
  <2>3. Grows(x, EncBit(x, 1, FALSE)) /\ EncBit(x, 1, FALSE).frac <= x.frac + 8 * 1
    BY <2>2, BitGrows
  <2>4. EncBit(x, 1, FALSE).frac \in Nat
    BY <2>3 DEF Grows, Coder
  <2> DEFINE y == EncBit(x, 1, FALSE)
  <2>6. y.frac <= x.frac + 8 * 1 /\ y.frac \in Nat
    BY <2>3, <2>4
  <2> HIDE DEF y
  <2>5. y.frac <= x.frac + 8 /\ y.frac <= x.frac + 141
    BY <1>1, <2>6
  <2> QED
    BY <2>1, <2>3, <2>5 DEF y
<1>3. CASE f.g # 0
  <2>1. f.g > 0
    BY <1>3 DEF Pitches
  <2>2. /\ Grows(x, EncBit(x, 1, TRUE))
        /\ Grows(EncBit(x, 1, TRUE), PutSym(EncBit(x, 1, TRUE), "octave", 6, Octave(f.t), 21))
        /\ Grows(PutSym(EncBit(x, 1, TRUE), "octave", 6, Octave(f.t), 21), Placed(x, f))
        /\ Grows(Placed(x, f), Gained(x, f))
        /\ Grows(Gained(x, f), EncPitch(x, f))
    BY <2>1, PitchPlaced
  <2>3. Grows(x, EncPitch(x, f))
    <3>1. Grows(x, PutSym(EncBit(x, 1, TRUE), "octave", 6, Octave(f.t), 21))
      BY <2>2, GrowsOn
    <3>2. Grows(x, Placed(x, f))
      BY <2>2, <3>1, GrowsOn
    <3>3. Grows(x, Gained(x, f))
      BY <2>2, <3>2, GrowsOn
    <3> QED
      BY <2>2, <3>3, GrowsOn
  <2>4. /\ Gained(x, f).frac <= x.frac + 125
        /\ EncPitch(x, f).frac = Gained(x, f).frac + TapCost(f)
        /\ TapCost(f) \in Nat /\ TapCost(f) <= 16
    BY <2>1, PitchPlaced
  <2>5. Gained(x, f).frac \in Nat
    BY <2>2 DEF Grows, Coder
  <2> QED
    BY <1>1, <1>3, <2>3, <2>4, <2>5
<1> QED
  BY <1>2, <1>3

(* The pitch read is the one sent.                                          *)
LEMMA PitchReads ==
  ASSUME NEW x, NEW d, NEW all, Follows(d, x, all), NEW f \in Pitches, Begins(EncPitch(x, f).syms, all),
         f.g > 0 => EncPitch(x, f).frac + 8 <= 8 * TotalBits(d)
  PROVE  /\ Follows(DecPitch(d)[1], EncPitch(x, f), all) /\ DecPitch(d)[1].bytes = d.bytes
         /\ Sounding(DecPitch(d)[2]) = Sounding(f)
<1>0. Coder(x) /\ Log(all) /\ 1 \in 1..15
  BY DEF Follows
<1>1. CASE f.g = 0
  <2>1. EncPitch(x, f) = EncBit(x, 1, FALSE)
    <3>1. (f.g > 0) = FALSE
      BY <1>1
    <3> QED
      BY <1>1, <3>1 DEF EncPitch
  <2>2. Reads(DecBit(d, 1), 0, d, EncBit(x, 1, FALSE), all)
    BY <1>0, <2>1, BitReads
  <2>3. DecPitch(d) = <<DecBit(d, 1), NoPitch>>
    BY <2>2 DEF DecPitch, Reads
  <2>4. Sounding(f) = NoPitch /\ Sounding(NoPitch) = NoPitch
    BY <1>1 DEF Sounding, NoPitch
  <2>5. DecPitch(d)[1] = DecBit(d, 1) /\ DecPitch(d)[2] = NoPitch
    BY <2>3
  <2>6. Follows(DecBit(d, 1), EncPitch(x, f), all) /\ DecBit(d, 1).bytes = d.bytes
    BY <2>1, <2>2 DEF Reads
  <2> QED
    BY <2>4, <2>5, <2>6
<1>2. CASE f.g # 0
  <2>0. f.g > 0 /\ f.t \in 15..1022 /\ f.g \in 1..8 /\ f.tapset \in 0..2
    BY <1>2 DEF Pitches
  <2> DEFINE o == Octave(f.t)
             v == f.t + 1 - Lowest(o)
             y1 == EncBit(x, 1, TRUE)
             y2 == PutSym(y1, "octave", 6, o, 21)
             y3 == Placed(x, f)
             y4 == Gained(x, f)
             c == TapCost(f)
             y == EncPitch(x, f)
             d1 == DecBit(d, 1)
             d2 == AskSym(d1, "octave", 6)
             d3 == DecRaw(d2, 4 + o)
             d4 == DecRaw(d3, 3)
             d5 == AskSym(d4, "tapset", 2)
  <2>1. /\ y = PutSym(y4, "tapset", 2, f.tapset, c)
        /\ c \in Nat /\ c >= 8
        /\ Grows(x, y1) /\ Grows(y1, y2) /\ Grows(y2, y3) /\ Grows(y3, y4) /\ Grows(y4, y)
        /\ y.frac = y4.frac + c
    BY <1>0, <2>0, PitchPlaced
  <2>2. Begins(y4.syms, all)
    BY <1>0, <2>1, BeginsOn
  <2>3. Begins(y3.syms, all)
    BY <1>0, <2>1, <2>2, BeginsOn
  <2>4. Begins(y2.syms, all)
    BY <1>0, <2>1, <2>3, BeginsOn
  <2>5. Begins(y1.syms, all)
    BY <1>0, <2>1, <2>4, BeginsOn
  <2>6. o \in 0..5 /\ 4 + o \in Nat /\ Lowest(o) + v - 1 = f.t
    BY <2>0, OctaveIs
  <2>7. y3 = EncRaw(y2, v, 4 + o) /\ y4 = EncRaw(y3, f.g - 1, 3)
    BY DEF Placed, Gained
  <2>8. DecPitch(d) = IF d1.got = 0 THEN <<d1, NoPitch>>
                      ELSE DecTapset(DecRaw(DecRaw(d2, 4 + d2.got), 3), Lowest(d2.got) + DecRaw(d2, 4 + d2.got).got - 1,
                                     DecRaw(DecRaw(d2, 4 + d2.got), 3).got + 1)
    BY DEF DecPitch, DecOctave, DecPeriod
  <2> HIDE DEF o, v, c, y, y3, y4, d5, d4, d3, d2, d1
  <2>9. Reads(d1, 1, d, y1, all)
    <3>1. Reads(DecBit(d, 1), IF TRUE THEN 1 ELSE 0, d, EncBit(x, 1, TRUE), all)
      BY <1>0, <2>5, BitReads
    <3> QED
      BY <3>1 DEF d1
  <2> HIDE DEF y1
  <2>10. Reads(d2, o, d1, y2, all)
    <3>1. Follows(d1, y1, all) /\ 21 \in Nat
      BY <2>9 DEF Reads
    <3> QED
      BY <2>4, <3>1, PutReads DEF d2
  <2> HIDE DEF y2
  <2>11. Reads(d3, v, d2, y3, all)
    <3>1. Follows(d2, y2, all)
      BY <2>10 DEF Reads
    <3>2. Reads(DecRaw(d2, 4 + o), v, d2, EncRaw(y2, v, 4 + o), all)
      BY <2>3, <2>6, <2>7, <3>1, RawReads
    <3> QED
      BY <2>7, <3>2 DEF d3
  <2>12. Reads(d4, f.g - 1, d3, y4, all)
    <3>1. Follows(d3, y3, all) /\ 3 \in Nat
      BY <2>11 DEF Reads
    <3>2. Reads(DecRaw(d3, 3), f.g - 1, d3, EncRaw(y3, f.g - 1, 3), all)
      BY <2>2, <2>7, <3>1, RawReads
    <3> QED
      BY <2>7, <3>2 DEF d4
  <2>13. Reads(d5, f.tapset, d4, y, all)
    <3>1. Follows(d4, y4, all)
      BY <2>12 DEF Reads
    <3>2. Begins(PutSym(y4, "tapset", 2, f.tapset, c).syms, all)
      BY <2>1 DEF y
    <3>3. Reads(AskSym(d4, "tapset", 2), f.tapset, d4, PutSym(y4, "tapset", 2, f.tapset, c), all)
      BY <2>1, <3>1, <3>2, PutReads
    <3> QED
      BY <2>1, <3>3 DEF d5
  <2>14. DecPitch(d) = DecTapset(d4, f.t, f.g)
    <3>1. d1.got = 1 /\ d2.got = o /\ d3.got = v /\ d4.got = f.g - 1
      BY <2>9, <2>10, <2>11, <2>12 DEF Reads
    <3>2. DecPitch(d) = DecTapset(d4, Lowest(o) + v - 1, d4.got + 1)
      BY <2>8, <3>1 DEF d3, d4
    <3>3. d4.got + 1 = f.g
      BY <2>0, <3>1
    <3> QED
      BY <2>6, <3>2, <3>3
  <2>15. d4.bytes = d.bytes
    BY <2>9, <2>10, <2>11, <2>12 DEF Reads
  <2>16. TellBits(d4) + 2 <= TotalBits(d4)
    <3>1. d4.frac = y4.frac /\ y4.frac \in Nat /\ d.bytes \in Nat
      BY <2>12 DEF Reads, Follows, Coder
    <3>2. y4.frac + 16 <= 8 * (8 * d.bytes)
      BY <2>0, <2>1, <3>1 DEF TotalBits, y
    <3> QED
      BY <2>15, <3>1, <3>2 DEF TellBits, TotalBits
  <2>17. DecPitch(d) = <<d5, [t |-> f.t, g |-> f.g, tapset |-> d5.got]>>
    BY <2>14, <2>16 DEF DecTapset, d5
  <2>18. d5.got = f.tapset /\ Follows(d5, y, all) /\ d5.bytes = d.bytes
    BY <2>13, <2>15 DEF Reads
  <2>19. [t |-> f.t, g |-> f.g, tapset |-> f.tapset] = f
    BY DEF Pitches
  <2>20. DecPitch(d)[1] = d5 /\ DecPitch(d)[2] = f
    BY <2>17, <2>18, <2>19
  <2> QED
    BY <2>18, <2>20 DEF y
<1> QED
  BY <1>1, <1>2

(* The header of a frame, written: pitch filter, then transient flag.       *)
PitchCoded(f, pitch) == IF PitchSent(HushSent(f), f.start, WasSilent(f)) THEN EncPitch(HushSent(f), pitch) ELSE HushSent(f)
CodedTransient(f, pitch) == f.transient /\ TransientSent(PitchCoded(f, pitch), f.lm)
HeaderCoded(f, pitch) ==
    IF TransientSent(PitchCoded(f, pitch), f.lm) THEN EncBit(PitchCoded(f, pitch), 3, f.transient) ELSE PitchCoded(f, pitch)

(* And read.                                                                *)
PitchRead(f, B, all) ==
    LET hush == HushRead(f, B, all) IN IF PitchSent(hush, f.start, hush.got = 1) THEN DecPitch(hush) ELSE <<hush, NoPitch>>
HeaderRead(f, B, all) ==
    LET tuned == PitchRead(f, B, all)[1] IN IF TransientSent(tuned, f.lm) THEN DecBit(tuned, 3) ELSE [tuned EXCEPT !.got = 0]

(* A pitch is filtered only when it is worth its bits.                      *)
PitchWorth(f, pitch) ==
    /\ pitch \in Pitches
    /\ pitch.g # 0 => f.start = 0 /\ f.bytes - ((TellBits(Plain(f)) + 4) \div 8) > 12

HeaderLeaves(f, x) ==
    Coder(x) /\ x.ok /\ x.bytes \in Nat /\ 2 <= x.bytes /\ x.bytes <= f.bytes /\ TellBits(x) <= TotalBits(x)

(* The flag of silence is sent and read by either kind of frame.            *)
LEMMA SilenceCodes ==
  ASSUME NEW f, Sized(f)
  PROVE  /\ HushLeaves(f, HushSent(f))
         /\ \A B, all : Log(all) /\ Begins(HushSent(f).syms, all) /\ Roomy(HushSent(f), B)
                           => HushHeard(f, HushSent(f), HushRead(f, B, all), B, all)
BY SilenceSilent, SilenceLoud

(* Room for a pitch in a frame that was not hushed.                         *)
LEMMA PitchRoom ==
  ASSUME NEW f, Sized(f), NEW pitch, PitchWorth(f, pitch), pitch.g # 0, ~WasSilent(f)
  PROVE  /\ f.start = 0 /\ TellBits(HushSent(f)) + 97 <= TotalBits(HushSent(f))
<1> DEFINE x0 == Plain(f)
           x1 == HushSent(f)
<1>1. f.tell0 \in Nat /\ f.bytes \in Nat
  BY DEF Sized
<1>2. x0.frac = f.tell0
  BY DEF Plain, FreshCoder
<1>3. x1.frac = f.tell0 /\ x1.bytes = f.bytes
  BY SilenceCodes DEF HushLeaves
<1> HIDE DEF x0, x1
<1>4. TellBits(x1) = TellBits(x0) /\ TotalBits(x1) = 8 * f.bytes /\ TellBits(x0) \in Nat
  BY <1>1, <1>2, <1>3 DEF TellBits, TotalBits
<1> DEFINE t == TellBits(x0)
           b == f.bytes
<1>5. f.start = 0 /\ b - ((t + 4) \div 8) > 12
  BY DEF PitchWorth, x0
<1>6. t \in Nat /\ b \in Nat
  BY <1>1, <1>4
<1> HIDE DEF t, b
<1>7. t + 97 <= 8 * b
  BY <1>5, <1>6
<1> QED
  BY <1>4, <1>5, <1>7 DEF t, b, x1

(* The pitch is coded where there is room for it, so the header stays       *)
(* within the frame.                                                        *)
LEMMA PitchCodedGrows ==
  ASSUME NEW f, Sized(f), NEW pitch, PitchWorth(f, pitch)
  PROVE  Grows(HushSent(f), PitchCoded(f, pitch)) /\ HeaderLeaves(f, PitchCoded(f, pitch))
<1> DEFINE x1 == HushSent(f)
           x2 == PitchCoded(f, pitch)
<1>1. HushLeaves(f, x1)
  BY SilenceCodes
<1>2. Coder(x1) /\ x1.ok /\ x1.bytes \in Nat /\ 2 <= x1.bytes /\ x1.bytes <= f.bytes /\ TellBits(x1) <= TotalBits(x1)
  BY <1>1 DEF HushLeaves
<1>3. x2 = IF PitchSent(x1, f.start, WasSilent(f)) THEN EncPitch(x1, pitch) ELSE x1
  BY DEF PitchCoded
<1> HIDE DEF x2
<1>4. CASE ~PitchSent(x1, f.start, WasSilent(f))
  BY <1>2, <1>3, <1>4, GrowsSelf DEF HeaderLeaves, x2
<1>5. CASE PitchSent(x1, f.start, WasSilent(f))
  <2>1. Grows(x1, x2) /\ x2.frac <= x1.frac + 141 /\ (pitch.g = 0 => x2.frac <= x1.frac + 8)
    BY <1>2, <1>3, <1>5, PitchGrows DEF PitchWorth
  <2>2. pitch.g # 0 => TellBits(x1) + 97 <= TotalBits(x1)
    BY <1>5, PitchRoom DEF PitchSent
  <2>3. TellBits(x1) + 16 <= TotalBits(x1)
    BY <1>5 DEF PitchSent
  <2> HIDE DEF x1
  <2>4. Coder(x2) /\ x2.ok /\ x2.bytes = x1.bytes /\ x2.frac \in Nat /\ x1.frac \in Nat /\ TotalBits(x2) = TotalBits(x1)
    BY <1>2, <2>1 DEF Grows, Coder, TotalBits
  <2>5. TellBits(x2) <= TotalBits(x1)
    <3>1. TotalBits(x1) \in Nat
      BY <1>2 DEF TotalBits
    <3> DEFINE m == TotalBits(x1)
    <3> HIDE DEF m
    <3>2. m \in Nat /\ x2.frac <= x1.frac + 141 /\ (x2.frac <= x1.frac + 8 \/ TellBits(x1) + 97 <= m) /\ TellBits(x1) + 16 <= m
      BY <2>1, <2>2, <2>3, <3>1 DEF m
    <3>3. TellBits(x2) <= m
      BY <2>4, <3>2 DEF TellBits
    <3> QED
      BY <3>3 DEF m
  <2> QED
    BY <1>2, <2>1, <2>4, <2>5 DEF HeaderLeaves, x1, x2
<1> QED
  BY <1>4, <1>5

(* The transient flag that follows stays within the frame.                  *)
LEMMA HeaderGrows ==
  ASSUME NEW f, Sized(f), NEW pitch, PitchWorth(f, pitch)
  PROVE  Grows(PitchCoded(f, pitch), HeaderCoded(f, pitch)) /\ HeaderLeaves(f, HeaderCoded(f, pitch))
<1> DEFINE x2 == PitchCoded(f, pitch)
           x3 == HeaderCoded(f, pitch)
<1>1. HeaderLeaves(f, x2)
  BY PitchCodedGrows
<1>2. x3 = IF TransientSent(x2, f.lm) THEN EncBit(x2, 3, f.transient) ELSE x2
  BY DEF HeaderCoded
<1> HIDE DEF x2, x3
<1>3. Coder(x2) /\ 3 \in 1..15
  BY <1>1 DEF HeaderLeaves
<1>4. CASE ~TransientSent(x2, f.lm)
  BY <1>1, <1>2, <1>3, <1>4, GrowsSelf DEF x2, x3
<1>5. CASE TransientSent(x2, f.lm)
  <2>1. Grows(x2, EncBit(x2, 3, f.transient)) /\ EncBit(x2, 3, f.transient).frac <= x2.frac + 8 * 3
    BY <1>3, BitGrows
  <2>2. Grows(x2, x3) /\ x3.frac <= x2.frac + 8 * 3
    BY <1>2, <1>5, <2>1
  <2>3. TellBits(x2) + 3 <= TotalBits(x2)
    BY <1>5 DEF TransientSent
  <2>4. Coder(x3) /\ x3.ok /\ x3.bytes = x2.bytes /\ x3.frac \in Nat /\ x2.frac \in Nat /\ x2.bytes \in Nat
    BY <1>1, <2>2 DEF Grows, Coder, HeaderLeaves
  <2>5. TellBits(x3) <= TotalBits(x3)
    BY <2>2, <2>3, <2>4 DEF TellBits, TotalBits
  <2> QED
    BY <1>1, <2>2, <2>4, <2>5 DEF HeaderLeaves, x2, x3
<1> QED
  BY <1>4, <1>5

(* The pitch filter, read.                                                  *)
PitchAlike(f, pitch, got) == (WasSilent(f) => pitch.g = 0) => Sounding(got) = Sounding(pitch)

(* The decoder looks for a pitch where the encoder sent one, or said there  *)
(* is none.                                                                 *)
LEMMA PitchMirrors ==
  ASSUME NEW f, Sized(f), NEW pitch, PitchWorth(f, pitch), NEW B, NEW all, Log(all),
         Begins(PitchCoded(f, pitch).syms, all), Roomy(PitchCoded(f, pitch), B)
  PROVE  /\ Follows(PitchRead(f, B, all)[1], PitchCoded(f, pitch), all) /\ PitchRead(f, B, all)[1].bytes = B
         /\ PitchAlike(f, pitch, PitchRead(f, B, all)[2])
<1> DEFINE x1 == HushSent(f)
           x2 == PitchCoded(f, pitch)
           h == HushRead(f, B, all)
<1>1. Grows(x1, x2)
  BY PitchCodedGrows
<1>2. Begins(x1.syms, all)
  BY <1>1, BeginsOn
<1>3. Roomy(x1, B)
  BY <1>1, RoomyOn
<1>4. HushLeaves(f, x1) /\ HushHeard(f, x1, h, B, all)
  BY <1>2, <1>3, SilenceCodes
<1>5. /\ Coder(x1) /\ TellBits(x1) <= TotalBits(x1) /\ Follows(h, x1, all) /\ h.bytes = B
      /\ WasSilent(f) => TellBits(x1) = TotalBits(x1) /\ h.got = 1
      /\ ~WasSilent(f) /\ TellBits(x1) < TotalBits(x1) => h.got = 0
  BY <1>4 DEF HushLeaves, HushHeard
<1>6. x2 = IF PitchSent(x1, f.start, WasSilent(f)) THEN EncPitch(x1, pitch) ELSE x1
  BY DEF PitchCoded
<1>7. PitchRead(f, B, all) = IF PitchSent(h, f.start, h.got = 1) THEN DecPitch(h) ELSE <<h, NoPitch>>
  BY DEF PitchRead
<1> DEFINE g == PitchRead(f, B, all)
<1>8. pitch.g # 0 /\ ~WasSilent(f) => f.start = 0 /\ TellBits(x1) + 97 <= TotalBits(x1)
  BY PitchRoom
<1> HIDE DEF x1, x2, h, g
<1>9. TellBits(x1) + 16 <= TotalBits(x1) <=> TellBits(h) + 16 <= TotalBits(h)
  <2>1. 16 \in 0..16 /\ Roomy(x1, h.bytes)
    BY <1>3, <1>5
  <2> QED
    BY <1>5, <2>1, RoomyAlike
<1>10. TellBits(x1) \in Nat /\ TotalBits(x1) \in Nat
  BY <1>5, CoderCounts
<1>11. PitchSent(x1, f.start, WasSilent(f)) <=> PitchSent(h, f.start, h.got = 1)
  BY <1>5, <1>9, <1>10 DEF PitchSent
<1>12. CASE ~PitchSent(x1, f.start, WasSilent(f))
  <2>1. x2 = x1
    BY <1>6, <1>12
  <2>2. g = <<h, NoPitch>>
    BY <1>7, <1>11, <1>12 DEF g
  <2>3. g[1] = h /\ g[2] = NoPitch
    BY <2>2
  <2>4. PitchAlike(f, pitch, g[2])
    <3>1. (WasSilent(f) => pitch.g = 0) => pitch.g = 0
      BY <1>8, <1>10, <1>12 DEF PitchSent
    <3> QED
      BY <2>3, <3>1 DEF PitchAlike, Sounding, NoPitch
  <2> QED
    BY <1>5, <2>1, <2>3, <2>4 DEF g, x2
<1>13. CASE PitchSent(x1, f.start, WasSilent(f))
  <2>1. x2 = EncPitch(x1, pitch) /\ ~WasSilent(f)
    BY <1>6, <1>13 DEF PitchSent
  <2>2. g = DecPitch(h)
    BY <1>7, <1>11, <1>13 DEF g
  <2>3. pitch.g > 0 => EncPitch(x1, pitch).frac + 8 <= 8 * TotalBits(h)
    <3>1. SUFFICES ASSUME pitch.g > 0 PROVE x2.frac + 8 <= 8 * TotalBits(h)
      BY <2>1
    <3>2. pitch \in Pitches /\ pitch.g # 0
      BY <3>1 DEF PitchWorth, Pitches
    <3>3. TellBits(x1) + 97 <= TotalBits(x1)
      BY <1>8, <2>1, <3>2
    <3>4. x2.frac <= x1.frac + 141
      BY <1>5, <2>1, <3>2, PitchGrows
    <3>5. x2.frac \in Nat /\ x1.frac \in Nat /\ x2.bytes = x1.bytes /\ x1.bytes \in Nat /\ B \in Nat
      BY <1>1, <1>3 DEF Grows, Coder, x1, x2, Roomy
    <3>6. CASE B = x2.bytes
      <4>1. x1.frac + 7 < 8 * TellBits(x1) + 8
        BY <3>5 DEF TellBits
      <4> DEFINE t == TellBits(x1)
                 m == x1.bytes
      <4>2. t \in Nat /\ m \in Nat /\ x1.frac + 7 < 8 * t + 8 /\ t + 97 <= 8 * m /\ x2.frac <= x1.frac + 141
        BY <1>10, <3>3, <3>4, <3>5, <4>1 DEF TotalBits
      <4> HIDE DEF t, m
      <4>3. x2.frac + 8 <= 8 * (8 * m)
        BY <3>5, <4>2
      <4> QED
        BY <1>5, <3>5, <3>6, <4>3 DEF TotalBits, m
    <3>7. CASE x2.frac + 128 <= 64 * B
      <4>1. x2.frac + 8 <= 8 * (8 * B)
        BY <3>5, <3>7
      <4> QED
        BY <1>5, <4>1 DEF TotalBits
    <3> QED
      BY <3>6, <3>7 DEF Roomy, x2
  <2>4. pitch \in Pitches /\ Begins(EncPitch(x1, pitch).syms, all)
    BY <2>1 DEF PitchWorth, x2
  <2>5. /\ Follows(DecPitch(h)[1], EncPitch(x1, pitch), all) /\ DecPitch(h)[1].bytes = h.bytes
        /\ Sounding(DecPitch(h)[2]) = Sounding(pitch)
    BY <1>5, <2>3, <2>4, PitchReads
  <2> QED
    BY <1>5, <2>1, <2>2, <2>5 DEF g, x2, PitchAlike
<1> QED
  BY <1>12, <1>13

(* The header, read.                                                        *)
HeaderHeard(f, pitch, x, B, all) ==
    /\ Follows(HeaderRead(f, B, all), x, all) /\ HeaderRead(f, B, all).bytes = B
    /\ HeaderRead(f, B, all).got = IF CodedTransient(f, pitch) THEN 1 ELSE 0
    /\ PitchAlike(f, pitch, PitchRead(f, B, all)[2])

(* The whole header is read as it was coded.                                *)
LEMMA HeaderMirrors ==
  ASSUME NEW f, Sized(f), f.transient \in BOOLEAN, NEW pitch, PitchWorth(f, pitch), NEW B, NEW all, Log(all),
         Begins(HeaderCoded(f, pitch).syms, all), Roomy(HeaderCoded(f, pitch), B)
  PROVE  HeaderHeard(f, pitch, HeaderCoded(f, pitch), B, all)
<1> DEFINE x2 == PitchCoded(f, pitch)
           x3 == HeaderCoded(f, pitch)
           d == PitchRead(f, B, all)[1]
<1>1. Grows(x2, x3)
  BY HeaderGrows
<1>2. Begins(x2.syms, all)
  BY <1>1, BeginsOn
<1>3. Roomy(x2, B)
  BY <1>1, RoomyOn
<1>4. Follows(d, x2, all) /\ d.bytes = B /\ PitchAlike(f, pitch, PitchRead(f, B, all)[2])
  BY <1>2, <1>3, PitchMirrors
<1>5. x3 = IF TransientSent(x2, f.lm) THEN EncBit(x2, 3, f.transient) ELSE x2
  BY DEF HeaderCoded
<1>6. HeaderRead(f, B, all) = IF TransientSent(d, f.lm) THEN DecBit(d, 3) ELSE [d EXCEPT !.got = 0]
  BY DEF HeaderRead
<1>7. CodedTransient(f, pitch) <=> (f.transient /\ TransientSent(x2, f.lm))
  BY DEF CodedTransient
<1> HIDE DEF x2, x3, d
<1>8. Coder(x2)
  BY <1>1 DEF Grows
<1>9. TellBits(x2) + 3 <= TotalBits(x2) <=> TellBits(d) + 3 <= TotalBits(d)
  <2>1. 3 \in 0..16 /\ Roomy(x2, d.bytes)
    BY <1>3, <1>4
  <2> QED
    BY <1>4, <1>8, <2>1, RoomyAlike
<1>10. TransientSent(x2, f.lm) <=> TransientSent(d, f.lm)
  BY <1>9 DEF TransientSent
<1>11. CASE TransientSent(x2, f.lm)
  <2>1. 3 \in 1..15 /\ Begins(EncBit(x2, 3, f.transient).syms, all)
    BY <1>5, <1>11 DEF x3
  <2>2. Reads(DecBit(d, 3), IF f.transient THEN 1 ELSE 0, d, EncBit(x2, 3, f.transient), all)
    BY <1>4, <2>1, BitReads
  <2>3. HeaderRead(f, B, all) = DecBit(d, 3) /\ x3 = EncBit(x2, 3, f.transient)
    BY <1>5, <1>6, <1>10, <1>11
  <2>4. DecBit(d, 3).got = IF CodedTransient(f, pitch) THEN 1 ELSE 0
    BY <1>7, <1>11, <2>2 DEF Reads
  <2> QED
    BY <1>4, <2>2, <2>3, <2>4 DEF Reads, HeaderHeard, x3
<1>12. CASE ~TransientSent(x2, f.lm)
  <2>1. Reads([d EXCEPT !.got = 0], 0, d, x2, all)
    BY <1>4, GotReads
  <2>2. HeaderRead(f, B, all) = [d EXCEPT !.got = 0] /\ x3 = x2 /\ ~CodedTransient(f, pitch)
    BY <1>5, <1>6, <1>7, <1>10, <1>12
  <2> QED
    BY <1>4, <2>1, <2>2 DEF Reads, HeaderHeard, x3
<1> QED
  BY <1>11, <1>12

-----------------------------------------------------------------------------
(* The coarse energies of a frame.                                          *)
IntraRead(d) == IF TellBits(d) + 3 <= TotalBits(d) THEN DecBit(d, 3) ELSE [d EXCEPT !.got = 0]

(* Coarse coding starts from the energies kept, after its flag.             *)
LEMMA CoarseStarts ==
  ASSUME NEW p, BandParams(p), NEW x, Coder(x), p.budget = TotalBits(x), TellBits(x) <= TotalBits(x), NEW e \in Energies
  PROVE  /\ CoarseState(CoarseStart(x, p, e)) /\ CoarseStart(x, p, e).rc = Intra(x, p)
         /\ CoarseStart(x, p, e).e = e /\ CoarseStart(x, p, e).prev = <<0, 0>>
         /\ Grows(x, Intra(x, p)) /\ TellBits(Intra(x, p)) <= TotalBits(x)
<1>1. Grows(x, Intra(x, p)) /\ TellBits(Intra(x, p)) <= TotalBits(x)
  <2>1. CASE TellBits(x) + 3 <= p.budget
    <3>1. Intra(x, p) = EncBit(x, 3, p.intra) /\ 3 \in 1..15
      BY <2>1 DEF Intra
    <3> DEFINE y == Intra(x, p)
    <3>2. Grows(x, y) /\ y.frac <= x.frac + 8 * 3
      BY <3>1, BitGrows
    <3> HIDE DEF y
    <3>3. y.frac \in Nat /\ x.frac \in Nat /\ x.bytes \in Nat
      BY <3>2 DEF Grows, Coder
    <3>4. TellBits(y) <= TotalBits(x)
      BY <2>1, <3>2, <3>3 DEF TellBits, TotalBits
    <3> QED
      BY <3>2, <3>4 DEF y
  <2>2. CASE ~(TellBits(x) + 3 <= p.budget)
    BY <2>2, GrowsSelf DEF Intra
  <2> QED
    BY <2>1, <2>2
<1> DEFINE r == Intra(x, p)
           z == <<Zeros(NbBands), Zeros(NbBands)>>
<1>2. z \in Energies
  <2>1. Zeros(NbBands) \in [1..NbBands -> Int]
    BY DEF Zeros
  <2> QED
    BY <2>1 DEF Energies
<1>3. <<0, 0>> \in [1..2 -> Int]
  OBVIOUS
<1>4. Coder(r)
  BY <1>1 DEF Grows
<1> HIDE DEF r, z
<1>5. CoarseStart(x, p, e) = [rc |-> r, e |-> e, prev |-> <<0, 0>>, bad |-> 0, error |-> z]
  BY DEF CoarseStart, r, z
<1> DEFINE n == <<0, 0>>
<1> HIDE DEF n
<1>6. CoarseStart(x, p, e) = [rc |-> r, e |-> e, prev |-> n, bad |-> 0, error |-> z] /\ n \in [1..2 -> Int]
  BY <1>3, <1>5 DEF n
<1>7. CoarseState(CoarseStart(x, p, e))
  BY <1>2, <1>4, <1>6 DEF CoarseState
<1> QED
  BY <1>1, <1>5, <1>7 DEF r

(* Coarse coding only appends, and stays within the frame.                  *)
LEMMA CoarseCodes ==
  ASSUME NEW p, BandParams(p), NEW x, Coder(x), p.budget = TotalBits(x), TellBits(x) <= TotalBits(x),
         NEW e \in Energies, NEW levels \in Energies
  PROVE  /\ CoarseState(quant_coarse_energy_impl(x, p, levels, e))
         /\ Grows(x, quant_coarse_energy_impl(x, p, levels, e).rc)
         /\ TellBits(quant_coarse_energy_impl(x, p, levels, e).rc) <= TotalBits(x)
         /\ Grows(x, Intra(x, p)) /\ Grows(Intra(x, p), quant_coarse_energy_impl(x, p, levels, e).rc)
<1> DEFINE s == CoarseStart(x, p, e)
           z == CoarseFrom(s, p, levels, Steps(p))
<1>1. quant_coarse_energy_impl(x, p, levels, e) = z
  BY DEF quant_coarse_energy_impl, CoarseStart, Intra
<1>2. CoarseState(s) /\ s.rc = Intra(x, p) /\ Grows(x, Intra(x, p)) /\ TellBits(Intra(x, p)) <= TotalBits(x)
  BY CoarseStarts
<1> HIDE DEF s
<1>3. Steps(p) \in Nat /\ Steps(p) <= Steps(p)
  BY BandsOf
<1>4. CoarseState(z) /\ Grows(s.rc, z.rc) /\ (TellBits(s.rc) <= p.budget => TellBits(z.rc) <= p.budget)
  BY <1>2, <1>3, CoarseGrows
<1> HIDE DEF z
<1>5. Grows(x, z.rc)
  BY <1>2, <1>4, GrowsOn
<1> QED
  BY <1>1, <1>2, <1>4, <1>5

(* Whether the energies are predicted, read.                                *)
LEMMA IntraMirrors ==
  ASSUME NEW p, p.intra \in BOOLEAN, NEW x, Coder(x), p.budget = TotalBits(x), p.intra => TellBits(x) + 3 <= TotalBits(x),
         NEW d, NEW all, Follows(d, x, all), Begins(Intra(x, p).syms, all), Roomy(x, d.bytes)
  PROVE  /\ Follows(IntraRead(d), Intra(x, p), all) /\ IntraRead(d).bytes = d.bytes
         /\ IntraRead(d).got = IF p.intra THEN 1 ELSE 0
<1>1. TellBits(x) + 3 <= TotalBits(x) <=> TellBits(d) + 3 <= TotalBits(d)
  <2>1. 3 \in 0..16
    OBVIOUS
  <2> QED
    BY <2>1, RoomyAlike
<1>2. CASE TellBits(x) + 3 <= TotalBits(x)
  <2>1. Intra(x, p) = EncBit(x, 3, p.intra) /\ IntraRead(d) = DecBit(d, 3) /\ 3 \in 1..15
    BY <1>1, <1>2 DEF Intra, IntraRead
  <2>2. Reads(DecBit(d, 3), IF p.intra THEN 1 ELSE 0, d, EncBit(x, 3, p.intra), all)
    BY <2>1, BitReads
  <2> QED
    BY <2>1, <2>2 DEF Reads
<1>3. CASE ~(TellBits(x) + 3 <= TotalBits(x))
  <2>1. Intra(x, p) = x /\ IntraRead(d) = [d EXCEPT !.got = 0] /\ ~p.intra
    BY <1>1, <1>3 DEF Intra, IntraRead
  <2>2. Reads([d EXCEPT !.got = 0], 0, d, x, all)
    BY GotReads
  <2> QED
    BY <2>1, <2>2 DEF Reads
<1> QED
  BY <1>2, <1>3

(* The energies, read.                                                      *)
CoarseReady(x, p, levels, e, pd, ed, d, all) ==
    /\ BandParams(p) /\ Coder(x) /\ p.budget = TotalBits(x) /\ TellBits(x) <= TotalBits(x)
    /\ e \in Energies /\ levels \in Energies /\ ed \in Energies
    /\ SameBands(p, pd) /\ pd.budget = TotalBits(d)
    /\ Follows(d, Intra(x, p), all) /\ Begins(quant_coarse_energy_impl(x, p, levels, e).rc.syms, all)
    /\ Roomy(quant_coarse_energy_impl(x, p, levels, e).rc, d.bytes)
CoarseDone(z, zd, d, all) == UncoarseState(zd) /\ Follows(zd.rc, z.rc, all) /\ zd.rc.bytes = d.bytes

(* The coarse steps are read as they were coded; unless the first band met  *)
(* the last bit, to the same energies.                                      *)
LEMMA CoarseReads ==
  ASSUME NEW x, NEW p, NEW levels, NEW e, NEW pd, NEW ed, NEW d, NEW all, CoarseReady(x, p, levels, e, pd, ed, d, all)
  PROVE  /\ CoarseDone(quant_coarse_energy_impl(x, p, levels, e), unquant_coarse_energy(d, pd, ed), d, all)
         /\ Spared(CoarseStart(x, p, e), p, levels) /\ SameUpTo(p, 0, e, ed)
              => Same(p, quant_coarse_energy_impl(x, p, levels, e).e, unquant_coarse_energy(d, pd, ed).e)
<1> DEFINE s == CoarseStart(x, p, e)
           z == CoarseFrom(s, p, levels, Steps(p))
           sd == [rc |-> d, e |-> ed, prev |-> <<0, 0>>]
           zd == UncoarseFrom(sd, pd, Steps(p))
<1>1. /\ BandParams(p) /\ Coder(x) /\ p.budget = TotalBits(x) /\ TellBits(x) <= TotalBits(x)
      /\ e \in Energies /\ levels \in Energies /\ ed \in Energies
      /\ SameBands(p, pd) /\ pd.budget = TotalBits(d)
      /\ Follows(d, Intra(x, p), all)
  BY DEF CoarseReady
<1>2. quant_coarse_energy_impl(x, p, levels, e) = z
  BY DEF quant_coarse_energy_impl, CoarseStart, Intra
<1>3. unquant_coarse_energy(d, pd, ed) = zd
  <2>1. Steps(pd) = Steps(p)
    BY <1>1 DEF SameBands, Steps
  <2> QED
    BY <2>1 DEF unquant_coarse_energy
<1>4. CoarseState(s) /\ s.rc = Intra(x, p) /\ s.e = e /\ s.prev = <<0, 0>>
  BY <1>1, CoarseStarts
<1>5. UncoarseState(sd) /\ sd.prev = s.prev /\ sd.rc = d /\ sd.e = ed
  <2>1. <<0, 0>> \in [1..2 -> Int]
    OBVIOUS
  <2> DEFINE n == <<0, 0>>
  <2> HIDE DEF n
  <2>2. sd = [rc |-> d, e |-> ed, prev |-> n] /\ n \in [1..2 -> Int]
    BY <2>1 DEF n
  <2> HIDE DEF sd
  <2>3. UncoarseState(sd) /\ sd.prev = n /\ sd.rc = d /\ sd.e = ed
    BY <1>1, <2>2 DEF UncoarseState
  <2> QED
    BY <1>4, <2>3 DEF n
<1>6. Begins(z.rc.syms, all) /\ Roomy(z.rc, d.bytes)
  BY <1>2 DEF CoarseReady
<1> HIDE DEF s, sd
<1>7. Steps(p) \in Nat
  BY <1>1, BandsOf
<1>8. ASSUME NEW k \in Nat, k < Steps(p)
      PROVE  Alike(TellBits(CoarseFrom(s, p, levels, k).rc), p.budget, pd.budget)
  <2> DEFINE y == CoarseFrom(s, p, levels, k)
             m == Steps(p) - k
  <2>1. m \in Nat /\ k + m = Steps(p) /\ k + m <= Steps(p)
    BY <1>7, <1>8
  <2>2. Grows(CoarseFrom(s, p, levels, k).rc, CoarseFrom(s, p, levels, k + m).rc)
    BY <1>1, <1>4, <2>1, CoarseGrowsOn
  <2>3. Grows(y.rc, z.rc)
    BY <2>1, <2>2
  <2>4. Roomy(y.rc, d.bytes)
    <3> HIDE DEF y, z
    <3> QED
      BY <1>6, <2>3, RoomyOn
  <2>5. k <= Steps(p)
    BY <1>7, <1>8
  <2>6. Grows(s.rc, y.rc)
    BY <1>1, <1>4, <1>8, <2>5, CoarseGrows
  <2>7. Grows(x, s.rc)
    BY <1>1, <1>4, CoarseStarts
  <2> HIDE DEF y, z, m
  <2>8. Coder(y.rc) /\ y.rc.bytes = x.bytes /\ x.bytes \in Nat /\ d.bytes \in Nat
    BY <1>1, <2>4, <2>6, <2>7 DEF Grows, Coder, Roomy
  <2>9. TotalBits(y.rc) = p.budget /\ 8 * d.bytes = pd.budget /\ p.budget \in Nat /\ pd.budget \in Nat
    BY <1>1, <2>8 DEF TotalBits
  <2>10. TellBits(y.rc) \in Nat
    BY <2>8, CoderCounts
  <2>11. pd.budget = p.budget \/ (TellBits(y.rc) + 16 <= pd.budget /\ TellBits(y.rc) + 16 <= p.budget)
    BY <2>4, <2>8, <2>9, RoomyTells
  <2> DEFINE t == TellBits(y.rc)
             b == p.budget
             bd == pd.budget
  <2> HIDE DEF t, b, bd
  <2>12. t \in Nat /\ b \in Nat /\ bd \in Nat /\ (bd = b \/ (t + 16 <= bd /\ t + 16 <= b))
    BY <2>9, <2>10, <2>11 DEF t, b, bd
  <2>13. Alike(t, b, bd)
    BY <2>12 DEF Alike
  <2> QED
    BY <2>13 DEF t, b, bd, y
<1>9. Follows(sd.rc, s.rc, all)
  BY <1>1, <1>4, <1>5
<1>10. /\ Follows(zd.rc, z.rc, all) /\ zd.rc.bytes = sd.rc.bytes /\ UncoarseState(zd)
       /\ Spared(s, p, levels) /\ SameUpTo(p, 0, s.e, sd.e) => SameUpTo(p, Steps(p), z.e, zd.e)
  BY <1>1, <1>4, <1>5, <1>6, <1>8, <1>9, CoarseMirrors
<1> HIDE DEF z, zd
<1>11. SameUpTo(p, Steps(p), z.e, zd.e) => Same(p, z.e, zd.e)
  BY DEF SameUpTo, Same
<1> QED
  BY <1>2, <1>3, <1>4, <1>5, <1>10, <1>11 DEF CoarseDone, s

-----------------------------------------------------------------------------
(* The choices of a frame: time-frequency resolution, spread, boosts, trim. *)
TfCoded(f, x, transient) == tf_encode(x, SubSeq(f.tf, f.start + 1, f.end), f.tf_select, f.lm, transient)
SpreadOf(f, x) == IF SpreadSent(x) THEN f.spread ELSE 2
SpreadCoded(f, x) == IF SpreadSent(x) THEN PutSym(x, "spread", 4, f.spread, SPREAD_COST[f.spread + 1]) ELSE x
DynCoded(f, x, p) == EncDynalloc(NoBoosts(x), p, f.boosts, p.end - p.start)
TrimOf(f, d) == IF TrimSent(d.rc, d.total) THEN f.trim ELSE 5
TrimCoded(f, d) == IF TrimSent(d.rc, d.total) THEN PutSym(d.rc, "trim", 11, f.trim, TRIM_COST[f.trim + 1]) ELSE d.rc

SpreadRead(d) == IF SpreadSent(d) THEN AskSym(d, "spread", 4) ELSE [d EXCEPT !.got = 2]
DynRead(d, p) == DecDynalloc(NoBoosts(d), p, p.end - p.start)
TrimRead(d) == IF TrimSent(d.rc, d.total) THEN AskSym(d.rc, "trim", 11) ELSE [d.rc EXCEPT !.got = 5]

(* What a sound asks for.                                                   *)
Asking(f) ==
    /\ f.lm \in 0..3 /\ f.start \in 0..20 /\ f.end \in 1..NbBands /\ f.start < f.end
    /\ f.tf \in [1..NbBands -> 0..1] /\ f.tf_select \in 0..1 /\ f.spread \in 0..3 /\ f.trim \in 0..10
    /\ f.boosts \in [1..NbBands -> Nat]

(* The resolutions asked for are one bit a band.                            *)
LEMMA TfAsked ==
  ASSUME NEW f, Asking(f)
  PROVE  TfWants(SubSeq(f.tf, f.start + 1, f.end), f.end - f.start) /\ f.end - f.start \in Nat
<1> DEFINE m == f.start + 1
           n == f.end
           s == SubSeq(f.tf, m, n)
<1>0. f.start \in 0..20 /\ f.end \in 1..21 /\ f.start < f.end
  BY DEF Asking, NbBands
<1>1. m \in 1..21 /\ n \in 1..21 /\ m <= n /\ m \in Int /\ n \in Int /\ f.end - f.start = n - m + 1
  <2> DEFINE a == f.start
             b == f.end
  <2> HIDE DEF a, b
  <2>1. a \in 0..20 /\ b \in 1..21 /\ a < b
    BY <1>0 DEF a, b
  <2>2. a + 1 \in 1..21 /\ a + 1 <= b /\ a + 1 \in Int /\ b \in Int /\ b - a = b - (a + 1) + 1
    BY <2>1
  <2> QED
    BY <2>1, <2>2 DEF a, b
<1>2. \A i \in m..n : f.tf[i] \in 0..1
  BY <1>1 DEF Asking, NbBands
<1> DEFINE l == n - m + 1
<1> HIDE DEF m, n
<1>3. Len(s) = l /\ \A i \in 1..l : s[i] = f.tf[m + i - 1]
  <2>1. Len(s) = (IF m <= n THEN n - m + 1 ELSE 0) /\ \A i \in 1..n - m + 1 : s[i] = f.tf[m + i - 1]
    BY <1>1, <1>2, SubSeqProperties
  <2> QED
    BY <1>1, <2>1
<1>4. \A i \in 1..l : s[i] \in 0..1
  BY <1>1, <1>2, <1>3
<1>5. f.end - f.start = l /\ l \in Nat
  BY <1>1
<1> HIDE DEF l, s
<1> QED
  BY <1>3, <1>4, <1>5 DEF TfWants, s, m, n

(* Within so many eighths of a bit is within the bits.                      *)
LEMMA EighthsFit ==
  ASSUME NEW x, Coder(x)
  PROVE  TellBits(x) <= TotalBits(x) <=> x.frac <= 8 * TotalBits(x)
BY DEF Coder, TellBits, TotalBits

(* The spread is sent where four bits are left, so it stays within the      *)
(* frame.                                                                   *)
LEMMA SpreadGrows ==
  ASSUME NEW f, Asking(f), NEW x, Coder(x)
  PROVE  /\ Grows(x, SpreadCoded(f, x))
         /\ TellBits(x) <= TotalBits(x) => TellBits(SpreadCoded(f, x)) <= TotalBits(x)
         /\ SPREAD_COST[f.spread + 1] \in Nat
<1>1. f.spread \in 0..3
  BY DEF Asking
<1> DEFINE c == SPREAD_COST[f.spread + 1]
<1>2. c \in Nat /\ c <= 32
  <2>1. f.spread = 0 \/ f.spread = 1 \/ f.spread = 2 \/ f.spread = 3
    BY <1>1
  <2> QED
    BY <2>1 DEF SPREAD_COST
<1> HIDE DEF c
<1>3. CASE ~SpreadSent(x)
  BY <1>2, <1>3, GrowsSelf DEF SpreadCoded, c
<1>4. CASE SpreadSent(x)
  <2> DEFINE y == PutSym(x, "spread", 4, f.spread, c)
  <2>1. Grows(x, y) /\ y.frac = x.frac + c
    BY <1>2, PutGrows
  <2>2. SpreadCoded(f, x) = y
    BY <1>4 DEF SpreadCoded, c
  <2> HIDE DEF y
  <2>3. x.frac \in Nat /\ x.bytes \in Nat
    BY DEF Coder
  <2>4. TellBits(y) <= TotalBits(x)
    BY <1>2, <1>4, <2>1, <2>3 DEF SpreadSent, TellBits, TotalBits
  <2> QED
    BY <1>2, <2>1, <2>2, <2>4 DEF c
<1> QED
  BY <1>3, <1>4

(* The spread read is the one sent, or the default both take.               *)
LEMMA SpreadMirrors ==
  ASSUME NEW f, Asking(f), NEW x, Coder(x), NEW d, NEW all, Follows(d, x, all), Begins(SpreadCoded(f, x).syms, all),
         Roomy(x, d.bytes)
  PROVE  /\ Follows(SpreadRead(d), SpreadCoded(f, x), all) /\ SpreadRead(d).bytes = d.bytes
         /\ SpreadRead(d).got = SpreadOf(f, x)
<1>1. SpreadSent(x) <=> SpreadSent(d)
  <2>1. 4 \in 0..16
    OBVIOUS
  <2>2. TellBits(x) + 4 <= TotalBits(x) <=> TellBits(d) + 4 <= TotalBits(d)
    BY <2>1, RoomyAlike
  <2> QED
    BY <2>2 DEF SpreadSent
<1> DEFINE c == SPREAD_COST[f.spread + 1]
<1>2. c \in Nat
  BY SpreadGrows
<1> HIDE DEF c
<1>3. CASE SpreadSent(x)
  <2>1. SpreadCoded(f, x) = PutSym(x, "spread", 4, f.spread, c) /\ SpreadRead(d) = AskSym(d, "spread", 4) /\ SpreadOf(f, x) = f.spread
    BY <1>1, <1>3 DEF SpreadCoded, SpreadRead, SpreadOf, c
  <2>2. Reads(AskSym(d, "spread", 4), f.spread, d, PutSym(x, "spread", 4, f.spread, c), all)
    BY <1>2, <2>1, PutReads
  <2> QED
    BY <2>1, <2>2 DEF Reads
<1>4. CASE ~SpreadSent(x)
  <2>1. SpreadCoded(f, x) = x /\ SpreadRead(d) = [d EXCEPT !.got = 2] /\ SpreadOf(f, x) = 2
    BY <1>1, <1>4 DEF SpreadCoded, SpreadRead, SpreadOf
  <2>2. Reads([d EXCEPT !.got = 2], 2, d, x, all)
    BY GotReads
  <2> QED
    BY <2>1, <2>2 DEF Reads
<1> QED
  BY <1>3, <1>4

(* The loops over boosts start alike.                                       *)
LEMMA NoBoostsIs ==
  ASSUME NEW x
  PROVE  DynState(NoBoosts(x), 0) /\ NoBoosts(x).rc = x /\ \A y : DynAlike(NoBoosts(x), NoBoosts(y))
<1> DEFINE e == <<>>
<1>1. e \in Seq(Nat) /\ Len(e) = 0
  OBVIOUS
<1> HIDE DEF e
<1>2. \A z : NoBoosts(z) = [rc |-> z, boosts |-> e, total |-> 0, logp |-> 6]
  BY DEF NoBoosts, e
<1> DEFINE w == NoBoosts(x)
<1>5. w = [rc |-> x, boosts |-> e, total |-> 0, logp |-> 6]
  BY <1>2
<1> HIDE DEF w
<1>6. w.rc = x /\ w.boosts = e /\ w.total = 0 /\ w.logp = 6
  BY <1>5
<1>7. w = [rc |-> w.rc, boosts |-> w.boosts, total |-> w.total, logp |-> w.logp]
  BY <1>5, <1>6
<1>3. DynState(NoBoosts(x), 0) /\ NoBoosts(x).rc = x
  BY <1>1, <1>6, <1>7 DEF DynState, w
<1>4. \A y : DynAlike(NoBoosts(x), NoBoosts(y))
  BY <1>2 DEF DynAlike
<1> QED
  BY <1>3, <1>4

(* What a trim costs, six bits at most.                                     *)
LEMMA TrimCosts == ASSUME NEW t \in 0..10 PROVE TRIM_COST[t + 1] \in Nat /\ TRIM_COST[t + 1] <= 48
<1>1. t = 0 \/ t = 1 \/ t = 2 \/ t = 3 \/ t = 4 \/ t = 5 \/ t = 6 \/ t = 7 \/ t = 8 \/ t = 9 \/ t = 10
  OBVIOUS
<1> QED
  BY <1>1 DEF TRIM_COST

(* The trim is sent where six bits are left next to the boosts.             *)
LEMMA TrimGrows ==
  ASSUME NEW f, Asking(f), NEW d, NEW n, DynState(d, n), Coder(d.rc)
  PROVE  /\ Grows(d.rc, TrimCoded(f, d))
         /\ TellBits(d.rc) <= TotalBits(d.rc) => TellBits(TrimCoded(f, d)) <= TotalBits(d.rc)
<1> DEFINE c == TRIM_COST[f.trim + 1]
           x == d.rc
<1>1. c \in Nat /\ c <= 48
  BY TrimCosts DEF Asking
<1>2. d.total \in Nat
  BY DEF DynState
<1> HIDE DEF c
<1>3. CASE ~TrimSent(d.rc, d.total)
  BY <1>3, GrowsSelf DEF TrimCoded
<1>4. CASE TrimSent(d.rc, d.total)
  <2> DEFINE y == PutSym(x, "trim", 11, f.trim, c)
  <2>1. Grows(x, y) /\ y.frac = x.frac + c
    BY <1>1, PutGrows
  <2>2. TrimCoded(f, d) = y
    BY <1>4 DEF TrimCoded, c
  <2> HIDE DEF y
  <2>3. x.frac \in Nat /\ x.bytes \in Nat
    BY DEF Coder
  <2>4. TellBits(y) <= TotalBits(x)
    BY <1>1, <1>2, <1>4, <2>1, <2>3 DEF TrimSent, TellBits, TotalBits
  <2> QED
    BY <2>1, <2>2, <2>4
<1> QED
  BY <1>3, <1>4

(* The trim read is the one sent, or the default both take, also under the  *)
(* smaller size the decoder knows.                                          *)
LEMMA TrimMirrors ==
  ASSUME NEW f, Asking(f), NEW d, NEW n, DynState(d, n), Coder(d.rc), NEW dd, DynAlike(d, dd), NEW all, Follows(dd.rc, d.rc, all),
         Begins(TrimCoded(f, d).syms, all), Afford(d.rc.frac, d.total, d.rc.bytes, dd.rc.bytes)
  PROVE  /\ Follows(TrimRead(dd), TrimCoded(f, d), all) /\ TrimRead(dd).bytes = dd.rc.bytes
         /\ TrimRead(dd).got = TrimOf(f, d)
<1> DEFINE c == TRIM_COST[f.trim + 1]
           x == d.rc
           xd == dd.rc
<1>1. c \in Nat
  BY TrimCosts DEF Asking
<1> HIDE DEF c
<1>2. d.total \in Nat /\ dd.total = d.total /\ x.frac \in Nat /\ xd.frac = x.frac /\ x.bytes \in Nat /\ xd.bytes \in Nat
  BY DEF DynState, DynAlike, Follows, Coder
<1>3. TrimSent(x, d.total) <=> TrimSent(xd, dd.total)
  BY <1>2 DEF Afford, TrimSent, TotalBits
<1>4. CASE TrimSent(x, d.total)
  <2>1. TrimCoded(f, d) = PutSym(x, "trim", 11, f.trim, c) /\ TrimRead(dd) = AskSym(xd, "trim", 11) /\ TrimOf(f, d) = f.trim
    BY <1>3, <1>4 DEF TrimCoded, TrimRead, TrimOf, c
  <2>2. Reads(AskSym(xd, "trim", 11), f.trim, xd, PutSym(x, "trim", 11, f.trim, c), all)
    BY <1>1, <2>1, PutReads
  <2> QED
    BY <2>1, <2>2 DEF Reads
<1>5. CASE ~TrimSent(x, d.total)
  <2>1. TrimCoded(f, d) = x /\ TrimRead(dd) = [xd EXCEPT !.got = 5] /\ TrimOf(f, d) = 5
    BY <1>3, <1>5 DEF TrimCoded, TrimRead, TrimOf
  <2>2. Reads([xd EXCEPT !.got = 5], 5, xd, x, all)
    BY GotReads
  <2> QED
    BY <2>1, <2>2 DEF Reads
<1> QED
  BY <1>4, <1>5

(* All choices, written, and read.                                          *)
Chose(f, x, p, transient) == DynCoded(f, SpreadCoded(f, TfCoded(f, x, transient)[1]), p)
ChoicesCoded(f, x, p, transient) == TrimCoded(f, Chose(f, x, p, transient))

TfRead(d, pd, transient) == tf_decode(d, pd.end - pd.start, pd.lm, transient)
Heard(d, pd, transient) == DynRead(SpreadRead(TfRead(d, pd, transient)[1]), pd)
ChoicesRead(d, pd, transient) == TrimRead(Heard(d, pd, transient))

Asked(f, x, p, transient) ==
    /\ Asking(f) /\ BandParams(p) /\ p.start = f.start /\ p.end = f.end /\ p.lm = f.lm /\ transient \in BOOLEAN
    /\ Coder(x) /\ TellBits(x) <= TotalBits(x)

(* The choices stage by stage, each within the frame.                       *)
LEMMA ChoicesStep ==
  ASSUME NEW f, NEW x, NEW p, NEW transient, Asked(f, x, p, transient)
  PROVE  /\ Grows(x, TfCoded(f, x, transient)[1])
         /\ Grows(TfCoded(f, x, transient)[1], SpreadCoded(f, TfCoded(f, x, transient)[1]))
         /\ Grows(SpreadCoded(f, TfCoded(f, x, transient)[1]), Chose(f, x, p, transient).rc)
         /\ Grows(Chose(f, x, p, transient).rc, ChoicesCoded(f, x, p, transient))
         /\ DynState(Chose(f, x, p, transient), p.end - p.start)
         /\ TellBits(ChoicesCoded(f, x, p, transient)) <= TotalBits(x)
<1> DEFINE n == f.end - f.start
           want == SubSeq(f.tf, f.start + 1, f.end)
           t == TfCoded(f, x, transient)[1]
           y == SpreadCoded(f, t)
           d == Chose(f, x, p, transient)
           z == ChoicesCoded(f, x, p, transient)
<1>1. /\ Asking(f) /\ BandParams(p) /\ p.start = f.start /\ p.end = f.end /\ p.lm = f.lm /\ transient \in BOOLEAN
      /\ Coder(x) /\ TellBits(x) <= TotalBits(x) /\ f.lm \in 0..3 /\ f.tf_select \in 0..1
  BY DEF Asked, Asking
<1>2. TfWants(want, n) /\ n \in Nat
  BY <1>1, TfAsked
<1> HIDE DEF want, n
<1>3. Grows(x, t) /\ TellBits(t) <= TotalBits(x)
  BY <1>1, <1>2, TfCodes DEF TfCoded, want
<1> HIDE DEF t
<1>4. Coder(t) /\ TotalBits(t) = TotalBits(x)
  BY <1>3 DEF Grows, TotalBits
<1>5. Grows(t, y) /\ TellBits(y) <= TotalBits(x)
  BY <1>1, <1>3, <1>4, SpreadGrows
<1> HIDE DEF y
<1>6. Coder(y) /\ TotalBits(y) = TotalBits(x)
  BY <1>4, <1>5 DEF Grows, TotalBits
<1>7. DynState(NoBoosts(y), 0) /\ NoBoosts(y).rc = y
  BY NoBoostsIs
<1>8. DynWants(p, f.boosts)
  BY <1>1 DEF Asking, DynWants
<1> DEFINE m == p.end - p.start
           e == NoBoosts(y)
<1>9. d = EncDynalloc(e, p, f.boosts, m)
  BY DEF Chose, DynCoded, y, t
<1>10. m \in Nat /\ m <= p.end - p.start
  BY <1>1, <1>2 DEF n
<1> HIDE DEF e, m, d
<1>11. /\ DynState(d, m) /\ Grows(e.rc, d.rc)
       /\ e.rc.frac <= 8 * TotalBits(e.rc) => d.rc.frac <= 8 * TotalBits(e.rc)
  <2>1. DynState(e, 0) /\ Coder(e.rc)
    BY <1>6, <1>7 DEF e
  <2> QED
    BY <1>1, <1>8, <1>9, <1>10, <2>1, DynGrows
<1>12. e.rc = y
  BY <1>7 DEF e
<1>13. y.frac <= 8 * TotalBits(x)
  BY <1>5, <1>6, EighthsFit
<1>14. Grows(y, d.rc) /\ d.rc.frac <= 8 * TotalBits(x)
  BY <1>6, <1>11, <1>12, <1>13
<1>15. Coder(d.rc) /\ TotalBits(d.rc) = TotalBits(x)
  BY <1>6, <1>14 DEF Grows, TotalBits
<1>16. TellBits(d.rc) <= TotalBits(d.rc)
  BY <1>14, <1>15, EighthsFit
<1>17. Grows(d.rc, TrimCoded(f, d)) /\ TellBits(TrimCoded(f, d)) <= TotalBits(d.rc)
  BY <1>1, <1>11, <1>15, <1>16, TrimGrows
<1>18. z = TrimCoded(f, d)
  BY DEF ChoicesCoded, d
<1> QED
  BY <1>3, <1>5, <1>11, <1>14, <1>15, <1>17, <1>18 DEF t, y, d, m

(* The choices only append, and stay within the frame.                      *)
LEMMA ChoicesGrow ==
  ASSUME NEW f, NEW x, NEW p, NEW transient, Asked(f, x, p, transient)
  PROVE  /\ Grows(x, ChoicesCoded(f, x, p, transient))
         /\ TellBits(ChoicesCoded(f, x, p, transient)) <= TotalBits(x)
         /\ DynState(Chose(f, x, p, transient), p.end - p.start)
<1> DEFINE t == TfCoded(f, x, transient)[1]
           y == SpreadCoded(f, t)
           d == Chose(f, x, p, transient).rc
           z == ChoicesCoded(f, x, p, transient)
<1>1. /\ Grows(x, t) /\ Grows(t, y) /\ Grows(y, d) /\ Grows(d, z) /\ TellBits(z) <= TotalBits(x)
      /\ DynState(Chose(f, x, p, transient), p.end - p.start)
  BY ChoicesStep
<1> HIDE DEF t, y, d, z
<1>2. Grows(x, y)
  BY <1>1, GrowsOn
<1>3. Grows(x, d)
  BY <1>1, <1>2, GrowsOn
<1>4. Grows(x, z)
  BY <1>1, <1>3, GrowsOn
<1> QED
  BY <1>1, <1>4 DEF z

(* What was coded may be boosted, and two bytes are left, or all.           *)
ChoicesReady(f, x, p, transient, d, pd, all) ==
    /\ Asked(f, x, p, transient) /\ SameBands(p, pd) /\ Follows(d, x, all)
    /\ Begins(ChoicesCoded(f, x, p, transient).syms, all)
    /\ Afford(ChoicesCoded(f, x, p, transient).frac, Chose(f, x, p, transient).total, x.bytes, d.bytes)

ChoicesDone(f, x, p, transient, d, pd, all) ==
    /\ Follows(ChoicesRead(d, pd, transient), ChoicesCoded(f, x, p, transient), all)
    /\ ChoicesRead(d, pd, transient).bytes = d.bytes
    /\ TfRead(d, pd, transient)[2] = TfCoded(f, x, transient)[2]
    /\ SpreadRead(TfRead(d, pd, transient)[1]).got = SpreadOf(f, TfCoded(f, x, transient)[1])
    /\ Heard(d, pd, transient).boosts = Chose(f, x, p, transient).boosts
    /\ Heard(d, pd, transient).total = Chose(f, x, p, transient).total
    /\ ChoicesRead(d, pd, transient).got = TrimOf(f, Chose(f, x, p, transient))

(* Every choice is read as it was made.                                     *)
LEMMA ChoicesMirror ==
  ASSUME NEW f, NEW x, NEW p, NEW transient, NEW d, NEW pd, NEW all, ChoicesReady(f, x, p, transient, d, pd, all)
  PROVE  ChoicesDone(f, x, p, transient, d, pd, all)
<1> DEFINE n == f.end - f.start
           want == SubSeq(f.tf, f.start + 1, f.end)
           t == TfCoded(f, x, transient)[1]
           y == SpreadCoded(f, t)
           c == Chose(f, x, p, transient)
           z == ChoicesCoded(f, x, p, transient)
           td == TfRead(d, pd, transient)[1]
           yd == SpreadRead(td)
           cd == Heard(d, pd, transient)
           zd == ChoicesRead(d, pd, transient)
           B == d.bytes
<1>1. /\ Asked(f, x, p, transient) /\ SameBands(p, pd) /\ Follows(d, x, all) /\ Begins(z.syms, all)
      /\ Afford(z.frac, c.total, x.bytes, B)
  BY DEF ChoicesReady
<1>2. /\ Asking(f) /\ BandParams(p) /\ p.start = f.start /\ p.end = f.end /\ p.lm = f.lm /\ transient \in BOOLEAN
      /\ Coder(x) /\ f.lm \in 0..3 /\ f.tf_select \in 0..1
  BY <1>1 DEF Asked, Asking
<1>3. Grows(x, t) /\ Grows(t, y) /\ Grows(y, c.rc) /\ Grows(c.rc, z) /\ DynState(c, p.end - p.start)
  BY <1>1, ChoicesStep
<1>4. pd.end = p.end /\ pd.start = p.start /\ pd.lm = p.lm
  BY <1>1 DEF SameBands
<1>5. Log(all)
  BY <1>1 DEF Follows
<1>6. TfWants(want, n) /\ n \in Nat
  BY <1>2, TfAsked
<1> HIDE DEF want, n, y, c, z, td, yd, cd, zd, B
<1>7. Begins(c.rc.syms, all) /\ Begins(y.syms, all) /\ Begins(t.syms, all)
  <2> HIDE DEF t
  <2>1. Begins(c.rc.syms, all)
    BY <1>1, <1>3, <1>5, BeginsOn
  <2>2. Begins(y.syms, all)
    BY <1>3, <1>5, <2>1, BeginsOn
  <2>3. Begins(t.syms, all)
    BY <1>3, <1>5, <2>2, BeginsOn
  <2> QED
    BY <2>1, <2>2, <2>3
<1>8. /\ z.bytes = x.bytes /\ c.rc.bytes = x.bytes /\ y.bytes = x.bytes /\ t.bytes = x.bytes
      /\ z.frac \in Nat /\ c.rc.frac \in Nat /\ c.rc.frac <= z.frac /\ c.total \in Nat /\ Coder(c.rc) /\ Coder(y) /\ Coder(t)
  BY <1>3 DEF Grows, Coder, DynState
<1>9. Afford(c.rc.frac, c.total, x.bytes, B) /\ Roomy(c.rc, B)
  <2>1. B \in Nat /\ (B = x.bytes \/ (B <= x.bytes /\ z.frac + c.total + 128 <= 64 * B))
    BY <1>1 DEF Afford
  <2>2. B = x.bytes \/ (B <= x.bytes /\ c.rc.frac + c.total + 128 <= 64 * B /\ c.rc.frac + 128 <= 64 * B)
    BY <1>8, <2>1
  <2> QED
    BY <1>8, <2>1, <2>2 DEF Afford, Roomy
<1>10. Roomy(y, B)
  BY <1>3, <1>9, RoomyOn
<1>11. Roomy(t, B)
  <2> HIDE DEF t
  <2> QED
    BY <1>3, <1>10, RoomyOn
<1>12. /\ Follows(td, t, all) /\ td.bytes = B
       /\ TfRead(d, pd, transient)[2] = TfCoded(f, x, transient)[2]
  <2>1. TfRead(d, pd, transient) = tf_decode(d, n, f.lm, transient)
    BY <1>2, <1>4 DEF TfRead, n
  <2>2. TfCoded(f, x, transient) = tf_encode(x, want, f.tf_select, f.lm, transient)
    BY DEF TfCoded, want
  <2>3. /\ Begins(tf_encode(x, want, f.tf_select, f.lm, transient)[1].syms, all)
        /\ Roomy(tf_encode(x, want, f.tf_select, f.lm, transient)[1], d.bytes)
    BY <1>7, <1>11, <2>2 DEF B
  <2>4. TfReady(x, n, want, f.tf_select, f.lm, transient, d, all)
    BY <1>1, <1>2, <1>6, <2>3 DEF TfReady
  <2>5. TfDone(x, n, want, f.tf_select, f.lm, transient, d, all)
    BY <2>4, TfMirrors
  <2>6. /\ Follows(tf_decode(d, n, f.lm, transient)[1], tf_encode(x, want, f.tf_select, f.lm, transient)[1], all)
        /\ tf_decode(d, n, f.lm, transient)[1].bytes = d.bytes
        /\ tf_decode(d, n, f.lm, transient)[2] = tf_encode(x, want, f.tf_select, f.lm, transient)[2]
    BY <2>5 DEF TfDone
  <2> QED
    BY <2>1, <2>2, <2>6 DEF td, B
<1>13. Follows(yd, y, all) /\ yd.bytes = B /\ yd.got = SpreadOf(f, t)
  <2> HIDE DEF t
  <2>1. Begins(SpreadCoded(f, t).syms, all) /\ Roomy(t, td.bytes)
    BY <1>7, <1>11, <1>12 DEF y
  <2>2. /\ Follows(SpreadRead(td), SpreadCoded(f, t), all) /\ SpreadRead(td).bytes = td.bytes
        /\ SpreadRead(td).got = SpreadOf(f, t)
    BY <1>2, <1>8, <1>12, <2>1, SpreadMirrors
  <2> QED
    BY <1>12, <2>2 DEF yd, y
<1> DEFINE m == p.end - p.start
           e == NoBoosts(y)
           ed == NoBoosts(yd)
<1>14. DynState(e, 0) /\ DynState(ed, 0) /\ DynAlike(e, ed) /\ e.rc = y /\ ed.rc = yd
  BY NoBoostsIs
<1>15. c = EncDynalloc(e, p, f.boosts, m)
  BY DEF Chose, DynCoded, y, t, c
<1>16. cd = DecDynalloc(ed, pd, m)
  BY <1>4 DEF Heard, DynRead, yd, td, cd
<1>17. m \in Nat /\ DynWants(p, f.boosts)
  BY <1>2, <1>6 DEF n, Asking, DynWants
<1> HIDE DEF e, ed
<1>18. /\ DynState(cd, m) /\ DynAlike(c, cd) /\ Follows(cd.rc, c.rc, all) /\ cd.rc.bytes = ed.rc.bytes
  <2>1. /\ Begins(EncDynalloc(e, p, f.boosts, m).rc.syms, all) /\ Follows(ed.rc, e.rc, all)
        /\ Afford(EncDynalloc(e, p, f.boosts, m).rc.frac, EncDynalloc(e, p, f.boosts, m).total, e.rc.bytes, ed.rc.bytes)
    BY <1>7, <1>8, <1>9, <1>13, <1>14, <1>15
  <2>2. m = p.end - p.start
    OBVIOUS
  <2> HIDE DEF m
  <2>3. /\ DynState(DecDynalloc(ed, pd, m), m)
        /\ DynAlike(EncDynalloc(e, p, f.boosts, m), DecDynalloc(ed, pd, m))
        /\ Follows(DecDynalloc(ed, pd, m).rc, EncDynalloc(e, p, f.boosts, m).rc, all)
        /\ DecDynalloc(ed, pd, m).rc.bytes = ed.rc.bytes
    BY <1>1, <1>2, <1>14, <1>17, <2>1, <2>2, DynMirrors
  <2> QED
    BY <1>15, <1>16, <2>3
<1>19. cd.rc.bytes = B
  BY <1>13, <1>14, <1>18
<1>20. Follows(TrimRead(cd), TrimCoded(f, c), all) /\ TrimRead(cd).bytes = cd.rc.bytes /\ TrimRead(cd).got = TrimOf(f, c)
  <2>1. Begins(TrimCoded(f, c).syms, all)
    BY <1>1 DEF z, c, ChoicesCoded
  <2>2. Afford(c.rc.frac, c.total, c.rc.bytes, cd.rc.bytes)
    BY <1>8, <1>9, <1>19
  <2> QED
    BY <1>2, <1>3, <1>8, <1>18, <2>1, <2>2, TrimMirrors
<1>21. zd = TrimRead(cd) /\ z = TrimCoded(f, c)
  BY DEF zd, cd, z, c, ChoicesRead, ChoicesCoded
<1> QED
  BY <1>12, <1>13, <1>18, <1>19, <1>20, <1>21 DEF ChoicesDone, DynAlike, zd, z, td, t, yd, cd, c, B


-----------------------------------------------------------------------------
(* What a frame has cost when its size is chosen.                           *)

(* What the bands are asked to cost, band by band. *)
LEMMA AskedGoes ==
  ASSUME NEW p, NEW want, NEW i \in Nat
  PROVE  BoostsAsked(p, want, 0) = 0 /\ BoostsAsked(p, want, i + 1) = AskedOn(BoostsAsked(p, want, i), p, want, i)
<1> DEFINE U(f, m) == f = [k \in 0..m |-> IF k = 0 THEN 0 ELSE AskedOn(f[k - 1], p, want, k - 1)]
           T == {m \in Nat : \E f : U(f, m)}
           t(n) == CHOOSE h : U(h, n)
<1>1. 0 \in T
  <2> DEFINE g == [k \in 0..0 |-> 0]
  <2>1. U(g, 0)
    OBVIOUS
  <2> QED
    BY <2>1
<1>2. ASSUME NEW m \in Nat, m \in T
      PROVE  m + 1 \in T
  <2>1. PICK f : U(f, m)
    BY <1>2
  <2> DEFINE g == [k \in 0..(m + 1) |-> IF k = m + 1 THEN AskedOn(f[m], p, want, m) ELSE f[k]]
  <2>2. ASSUME NEW k \in 0..(m + 1)
        PROVE  g[k] = IF k = 0 THEN 0 ELSE AskedOn(g[k - 1], p, want, k - 1)
    <3>1. CASE k = m + 1
      <4>1. k # 0 /\ k - 1 = m /\ g[k] = AskedOn(f[m], p, want, m) /\ g[m] = f[m]
        BY <3>1
      <4> HIDE DEF g
      <4> QED
        BY <4>1
    <3>2. CASE k = 0
      BY <3>2, <2>1
    <3>3. CASE k \in 1..m
      <4>1. k - 1 \in 0..(m + 1) /\ g[k - 1] = f[k - 1] /\ g[k] = f[k]
        BY <3>3
      <4>2. f[k] = AskedOn(f[k - 1], p, want, k - 1)
        BY <3>3, <2>1
      <4> HIDE DEF g
      <4> QED
        BY <4>1, <4>2, <3>3
    <3> QED
      BY <3>1, <3>2, <3>3
  <2>3. U(g, m + 1)
    BY <2>2
  <2> HIDE DEF g
  <2>4. \E h : U(h, m + 1)
    BY <2>3
  <2> HIDE DEF U
  <2>5. m + 1 \in Nat
    OBVIOUS
  <2> QED
    BY <2>4, <2>5
<1>3. T = Nat
  <2>1. T \in SUBSET Nat
    OBVIOUS
  <2> HIDE DEF T
  <2> QED
    BY <1>1, <1>2, <2>1, NatSetInduction
<1>4. ASSUME NEW n \in Nat
      PROVE  U(t(n), n) /\ BoostsAsked(p, want, n) = t(n)[n]
  <2>1. \E h : U(h, n)
    BY <1>3
  <2>2. U(t(n), n)
    <3> HIDE DEF U
    <3> QED
      BY <2>1
  <2>3. BoostsAsked(p, want, n) = t(n)[n]
    BY DEF BoostsAsked
  <2> QED
    BY <2>2, <2>3
<1> HIDE DEF t
<1>5. BoostsAsked(p, want, 0) = 0
  BY <1>4
<1>6. ASSUME NEW n \in Nat
      PROVE  BoostsAsked(p, want, n + 1) = AskedOn(BoostsAsked(p, want, n), p, want, n)
  <2> DEFINE was == t(n)
             now == t(n + 1)
             S == {k \in Nat : k <= n => was[k] = now[k]}
  <2>1. U(was, n) /\ U(now, n + 1) /\ n + 1 \in Nat
    <3>1. n + 1 \in Nat
      OBVIOUS
    <3> HIDE DEF U
    <3> QED
      BY <1>4, <3>1
  <2> HIDE DEF was, now
  <2>2. 0 \in S
    BY <2>1
  <2>3. ASSUME NEW k \in Nat, k \in S
        PROVE  k + 1 \in S
    <3> SUFFICES ASSUME k + 1 <= n PROVE was[k + 1] = now[k + 1]
      OBVIOUS
    <3>1. k + 1 \in 0..n /\ k + 1 \in 0..(n + 1) /\ k + 1 # 0 /\ (k + 1) - 1 = k /\ was[k] = now[k]
      BY <2>3
    <3>2. was[k + 1] = AskedOn(was[k], p, want, k)
      BY <2>1, <3>1
    <3>3. now[k + 1] = AskedOn(now[k], p, want, k)
      BY <2>1, <3>1
    <3> QED
      BY <3>1, <3>2, <3>3
  <2>4. S = Nat
    <3>1. S \in SUBSET Nat
      OBVIOUS
    <3> HIDE DEF S
    <3> QED
      BY <2>2, <2>3, <3>1, NatSetInduction
  <2>5. was[n] = now[n]
    BY <2>4
  <2>6. n + 1 \in 0..(n + 1) /\ n + 1 # 0 /\ (n + 1) - 1 = n
    OBVIOUS
  <2>7. now[n + 1] = AskedOn(now[n], p, want, n)
    BY <2>1, <2>6
  <2>8. BoostsAsked(p, want, n) = was[n] /\ BoostsAsked(p, want, n + 1) = now[n + 1]
    BY <1>4 DEF was, now
  <2> QED
    BY <2>5, <2>7, <2>8
<1> QED
  BY <1>5, <1>6


(* It is a cost, and no other one with other parameters of the same bands.  *)
LEMMA AskedIs ==
  ASSUME NEW p, BandParams(p), NEW want, DynWants(p, want), NEW n \in Nat, n <= p.end - p.start,
         NEW pd, pd.start = p.start, pd.channels = p.channels, pd.lm = p.lm
  PROVE  BoostsAsked(p, want, n) \in Nat /\ BoostsAsked(pd, want, n) = BoostsAsked(p, want, n)
<1> DEFINE A(m) == BoostsAsked(p, want, m)
           D(m) == BoostsAsked(pd, want, m)
           T == {m \in Nat : m <= p.end - p.start => A(m) \in Nat /\ D(m) = A(m)}
<1>1. A(0) = 0 /\ D(0) = 0 /\ \A m \in Nat : A(m + 1) = AskedOn(A(m), p, want, m) /\ D(m + 1) = AskedOn(D(m), pd, want, m)
  BY AskedGoes
<1>2. p.start \in 0..20 /\ p.end \in 1..NbBands
  BY DEF BandParams
<1> HIDE DEF A, D
<1>3. 0 \in T
  BY <1>1
<1>4. ASSUME NEW m \in Nat, m \in T PROVE m + 1 \in T
  <2> SUFFICES ASSUME m + 1 <= p.end - p.start PROVE A(m + 1) \in Nat /\ D(m + 1) = A(m + 1)
    OBVIOUS
  <2>1. A(m) \in Nat /\ D(m) = A(m)
    BY <1>2, <1>4 DEF NbBands
  <2> DEFINE j == p.start + m
  <2>2. j \in 0..20 /\ j + 1 \in 1..NbBands /\ pd.start + m = j
    BY <1>2 DEF NbBands
  <2> HIDE DEF j
  <2>3. want[j + 1] \in Nat /\ Quanta(p, j) \in Nat /\ Quanta(pd, j) = Quanta(p, j)
    BY <2>2, QuantaIs DEF DynWants, Quanta, BandWidth
  <2>4. A(m + 1) = A(m) + want[j + 1] * (Quanta(p, j) + 8) /\ D(m + 1) = D(m) + want[j + 1] * (Quanta(pd, j) + 8)
    BY <1>1, <2>2 DEF AskedOn, j
  <2>5. want[j + 1] * (Quanta(p, j) + 8) \in Nat
    BY <2>3
  <2> QED
    BY <2>1, <2>3, <2>4, <2>5
<1>5. T = Nat
  <2>1. T \in SUBSET Nat
    OBVIOUS
  <2> HIDE DEF T
  <2> QED
    BY <1>3, <1>4, <2>1, NatSetInduction
<1>6. n \in T
  BY <1>5
<1> QED
  BY <1>6 DEF A, D

(* A coarse step costs fifteen bits at most.                                *)
LEMMA StepCosts ==
  ASSUME NEW x, Coder(x), NEW p, BandParams(p), NEW j \in 0..20, NEW qi \in Int
  PROVE  EncStep(x, p, j, qi)[1].frac <= x.frac + 120
<1>1. x.frac \in Nat
  BY DEF Coder
<1>2. CASE TellBits(x) + 15 <= p.budget
  <2>1. LaplaceContext(Fs(p, j), Decay(p, j))
    BY LaplaceTables
  <2>2. EncLaplace(x, qi, Fs(p, j), Decay(p, j)).frac <= x.frac + 120
    BY <2>1, LaplaceCodes
  <2> QED
    BY <1>2, <2>2 DEF EncStep
<1>3. CASE ~(TellBits(x) + 15 <= p.budget) /\ TellBits(x) + 2 <= p.budget
  <2> DEFINE q == Clamp(qi, -1, 1)
             cost == IF q = 0 THEN 8 ELSE 16
             y == PutSym(x, "small", 2, q, cost)
  <2>1. cost \in Nat /\ cost <= 16
    OBVIOUS
  <2>2. EncStep(x, p, j, qi) = <<y, q>>
    BY <1>3 DEF EncStep
  <2> HIDE DEF q, cost
  <2>3. y.frac = x.frac + cost
    BY <2>1, PutGrows
  <2> HIDE DEF y
  <2> QED
    BY <1>1, <2>1, <2>2, <2>3
<1>4. CASE ~(TellBits(x) + 15 <= p.budget) /\ ~(TellBits(x) + 2 <= p.budget) /\ TellBits(x) < p.budget
  <2> DEFINE q == MinOf(qi, 0)
             y == EncBit(x, 1, q # 0)
  <2>1. EncStep(x, p, j, qi) = <<y, q>>
    BY <1>4 DEF EncStep
  <2>2. 1 \in 1..15
    OBVIOUS
  <2> HIDE DEF q
  <2>3. Coder(y) /\ y.frac <= x.frac + 8 * 1
    BY <2>2, BitGrows DEF Grows
  <2>4. y.frac \in Nat
    BY <2>3 DEF Coder
  <2> HIDE DEF y
  <2> QED
    BY <1>1, <2>1, <2>3, <2>4
<1>5. CASE ~(TellBits(x) + 15 <= p.budget) /\ ~(TellBits(x) + 2 <= p.budget) /\ ~(TellBits(x) < p.budget)
  BY <1>1, <1>5 DEF EncStep
<1> QED
  BY <1>2, <1>3, <1>4, <1>5


(* So does one turn of the loop, and all of them together.                  *)
LEMMA CoarseStepCosts ==
  ASSUME NEW p, BandParams(p), NEW x \in Energies, NEW s, CoarseState(s), NEW k \in Nat, k < Steps(p)
  PROVE  CoarseStep(s, p, x, k).rc.frac <= s.rc.frac + 120
<1> DEFINE c == ChannelOf(p, k)
           j == BandOf(p, k)
           z == CoarseStep(s, p, x, k)
<1>1. c \in 1..2 /\ j \in 0..20 /\ j + 1 \in 1..NbBands
  BY BandsOf
<1>2. PICK qi0, f, qi : /\ z = StepTo(s, p, c, j, f, qi0, EncStep(s.rc, p, j, qi)) /\ qi \in Int
  <2> DEFINE f == x[c][j + 1] - Times(coef(p), MaxOf(s.e[c][j + 1], -9 * ONE)) - s.prev[c]
             qi0 == (f + 512) \div ONE
             left == p.budget - TellBits(s.rc) - 3 * p.channels * (p.end - j)
             qi == Rationed(p, j, left, Fall(p, x[c][j + 1], s.e[c][j + 1], qi0))
  <2>1. z = StepTo(s, p, c, j, f, qi0, EncStep(s.rc, p, j, qi))
    BY DEF CoarseStep, CoarseBand
  <2> HIDE DEF c, j
  <2>2. s.e \in Energies /\ s.prev \in [1..2 -> Int]
    BY DEF CoarseState
  <2>3. s.e[c][j + 1] \in Int /\ x[c][j + 1] \in Int /\ s.prev[c] \in Int
    BY <1>1, <2>2 DEF Energies
  <2>4. f \in Int
    <3>1. MaxOf(s.e[c][j + 1], -9 * ONE) \in Int
      BY <2>3 DEF MaxOf, ONE
    <3>2. coef(p) \in Int
      BY CoefInt
    <3>3. Times(coef(p), MaxOf(s.e[c][j + 1], -9 * ONE)) \in Int
      BY <3>1, <3>2, TimesInt
    <3> QED
      BY <2>3, <3>3
  <2> HIDE DEF f
  <2>5. qi0 \in Int
    BY <2>4 DEF ONE
  <2>6. TellBits(s.rc) \in Int /\ p.channels \in Int /\ p.budget \in Int /\ p.end \in Int /\ j \in Int
    <3>1. TellBits(s.rc) \in Nat
      BY CoderCounts DEF CoarseState
    <3>2. p.channels \in Int /\ p.budget \in Int /\ p.end \in Int
      BY DEF BandParams
    <3> QED
      BY <1>1, <3>1, <3>2
  <2>7. left \in Int
    <3>1. \A u, v \in Int : 3 * u * v \in Int
      OBVIOUS
    <3>2. 3 * p.channels * (p.end - j) \in Int
      BY <2>6, <3>1
    <3> QED
      BY <2>6, <3>2
  <2> HIDE DEF qi0, left
  <2>8. qi \in Int
    BY <2>3, <2>5, <2>6, <2>7, RationedInt
  <2> QED
    BY <2>1, <2>8
<1> HIDE DEF c, j, z
<1>3. EncStep(s.rc, p, j, qi)[1].frac <= s.rc.frac + 120
  BY <1>1, <1>2, StepCosts DEF CoarseState
<1>4. z.rc = EncStep(s.rc, p, j, qi)[1]
  <2> DEFINE a == EncStep(s.rc, p, j, qi)[1]
             b == s.bad + Abs(qi0 - EncStep(s.rc, p, j, qi)[2])
             g == f - ONE * EncStep(s.rc, p, j, qi)[2]
             v == Times(coef(p), MaxOf(s.e[c][j + 1], -9 * ONE)) + s.prev[c] + ONE * EncStep(s.rc, p, j, qi)[2]
             w == s.prev[c] + ONE * EncStep(s.rc, p, j, qi)[2] - Times(beta(p), ONE * EncStep(s.rc, p, j, qi)[2])
  <2>1. z = [s EXCEPT !.rc = a, !.bad = b, !.error[c][j + 1] = g, !.e[c][j + 1] = v, !.prev[c] = w]
    BY <1>2 DEF StepTo
  <2> HIDE DEF a, b, g, v, w
  <2>2. PICK a1, a2, a3, a4, a5 : s = [rc |-> a1, e |-> a2, prev |-> a3, bad |-> a4, error |-> a5]
    BY DEF CoarseState
  <2>3. z.rc = a
    BY <2>1, <2>2
  <2> QED
    BY <2>3 DEF a
<1> QED
  BY <1>3, <1>4 DEF z

LEMMA CoarseCosts ==
  ASSUME NEW p, BandParams(p), NEW x \in Energies, NEW s, CoarseState(s)
  PROVE  CoarseFrom(s, p, x, Steps(p)).rc.frac <= s.rc.frac + 5040
<1> DEFINE E(m) == CoarseFrom(s, p, x, m)
           T == {m \in Nat : m <= Steps(p) => E(m).rc.frac <= s.rc.frac + 120 * m}
<1>1. E(0) = s /\ \A m \in Nat : E(m + 1) = CoarseStep(E(m), p, x, m)
  BY CoarseGoes
<1>2. Steps(p) \in Nat /\ Steps(p) <= 42
  BY BandsOf
<1>3. \A m \in Nat : m <= Steps(p) => CoarseState(E(m)) /\ E(m).rc.frac \in Nat
  BY CoarseGrows DEF CoarseState, Coder
<1>4. s.rc.frac \in Nat
  BY DEF CoarseState, Coder
<1> HIDE DEF E
<1>5. 0 \in T
  BY <1>1, <1>4
<1>6. ASSUME NEW m \in Nat, m \in T PROVE m + 1 \in T
  <2> SUFFICES ASSUME m + 1 <= Steps(p) PROVE E(m + 1).rc.frac <= s.rc.frac + 120 * (m + 1)
    OBVIOUS
  <2>1. m < Steps(p) /\ m <= Steps(p)
    BY <1>2
  <2>2. E(m).rc.frac <= s.rc.frac + 120 * m /\ CoarseState(E(m)) /\ E(m).rc.frac \in Nat /\ E(m + 1).rc.frac \in Nat
    BY <1>3, <1>6, <2>1
  <2>3. E(m + 1).rc.frac <= E(m).rc.frac + 120
    BY <1>1, <2>1, <2>2, CoarseStepCosts
  <2> QED
    BY <1>4, <2>2, <2>3
<1>7. T = Nat
  <2>1. T \in SUBSET Nat
    OBVIOUS
  <2> HIDE DEF T
  <2> QED
    BY <1>5, <1>6, <2>1, NatSetInduction
<1>8. E(Steps(p)).rc.frac <= s.rc.frac + 120 * Steps(p) /\ E(Steps(p)).rc.frac \in Nat
  BY <1>2, <1>3, <1>7
<1> QED
  BY <1>2, <1>4, <1>8 DEF E

(* The coarse energies of a frame, with their flag.                         *)
LEMMA EnergiesCost ==
  ASSUME NEW p, BandParams(p), NEW x, Coder(x), p.budget = TotalBits(x), TellBits(x) <= TotalBits(x),
         NEW e \in Energies, NEW levels \in Energies
  PROVE  quant_coarse_energy_impl(x, p, levels, e).rc.frac <= x.frac + 5064
<1> DEFINE s == CoarseStart(x, p, e)
           y == Intra(x, p)
           z == CoarseFrom(s, p, levels, Steps(p))
<1>1. quant_coarse_energy_impl(x, p, levels, e) = z
  BY DEF quant_coarse_energy_impl, CoarseStart, Intra
<1>2. CoarseState(s) /\ s.rc = y /\ Grows(x, y)
  BY CoarseStarts
<1>3. y.frac \in Nat /\ x.frac \in Nat
  BY <1>2 DEF Grows, Coder
<1>4. y.frac <= x.frac + 24
  <2>1. 3 \in 1..15
    OBVIOUS
  <2>2. EncBit(x, 3, p.intra).frac <= x.frac + 8 * 3
    BY <2>1, BitGrows
  <2> QED
    BY <1>3, <2>2 DEF Intra
<1> HIDE DEF s, y
<1>5. z.rc.frac <= s.rc.frac + 5040
  BY <1>2, CoarseCosts
<1>6. z.rc.frac \in Nat
  <2>1. Steps(p) \in Nat /\ Steps(p) <= Steps(p)
    BY BandsOf
  <2>2. CoarseState(z)
    BY <1>2, <2>1, CoarseGrows
  <2> HIDE DEF z
  <2> QED
    BY <2>2 DEF CoarseState, Coder
<1> HIDE DEF z
<1> QED
  BY <1>1, <1>2, <1>3, <1>4, <1>5, <1>6


(* The resolution costs five bits a band and one at most.                   *)
LEMMA ResolutionCosts ==
  ASSUME NEW x, Coder(x), NEW n \in Nat, n <= 21, NEW want, TfWants(want, n), NEW which \in 0..1, NEW lm \in 0..3,
         NEW transient \in BOOLEAN
  PROVE  tf_encode(x, want, which, lm, transient)[1].frac <= x.frac + 848
<1> DEFINE reserve == TfReserve(x, lm, transient)
           budget == TotalBits(x) - reserve
           E(m) == EncTf(TfStart(x), want, transient, budget, m)
           r == E(n)
           t == EncChoice(r, which, lm, transient, reserve)
           T == {m \in Nat : m <= n => E(m).rc.frac <= x.frac + 40 * m}
<1>1. tf_encode(x, want, which, lm, transient) = t
  BY DEF tf_encode, TfWants
<1>2. TfState(TfStart(x)) /\ TfStart(x).rc = x
  BY DEF TfState, TfStart
<1>3. budget \in Int
  <2>1. TotalBits(x) \in Nat
    BY CoderCounts
  <2>2. reserve \in 0..1
    BY DEF TfReserve
  <2> HIDE DEF reserve
  <2> QED
    BY <2>1, <2>2
<1> HIDE DEF budget
<1>4. \A m \in Nat : m <= n => TfState(E(m)) /\ Grows(x, E(m).rc)
  BY <1>2, <1>3, TfGrows
<1>5. E(0) = TfStart(x) /\ \A m \in Nat : E(m + 1) = EncTfStep(E(m), want, transient, budget, m)
  BY EncTfGoes
<1> HIDE DEF E, reserve
<1>6. x.frac \in Nat /\ \A m \in Nat : m <= n => E(m).rc.frac \in Nat /\ Coder(E(m).rc)
  BY <1>4 DEF Grows, Coder
<1>7. 0 \in T
  BY <1>2, <1>5, <1>6
<1>8. ASSUME NEW m \in Nat, m \in T PROVE m + 1 \in T
  <2> SUFFICES ASSUME m + 1 <= n PROVE E(m + 1).rc.frac <= x.frac + 40 * (m + 1)
    OBVIOUS
  <2>1. E(m).rc.frac <= x.frac + 40 * m /\ E(m).rc.frac \in Nat /\ E(m + 1).rc.frac \in Nat /\ Coder(E(m).rc) /\ TfState(E(m))
    BY <1>4, <1>6, <1>8
  <2> DEFINE l == TfLogp(m = 0, transient)
             w == want[m + 1]
             y == EncBit(E(m).rc, l, w # E(m).curr)
  <2>2. l \in 2..5 /\ l \in 1..15 /\ w \in 0..1
    BY TfLogpIs DEF TfWants
  <2>3. y.frac <= E(m).rc.frac + 8 * l
    <3> HIDE DEF l, w
    <3> QED
      BY <2>1, <2>2, BitGrows
  <2>4. E(m + 1) = IF TfSent(E(m).rc, m, transient, budget) THEN TfFollows(E(m), y, w) ELSE TfStays(E(m))
    BY <1>5 DEF EncTfStep
  <2> HIDE DEF l, w, y
  <2>5. E(m + 1).rc = y \/ E(m + 1).rc = E(m).rc
    BY <2>1, <2>2, <2>4, TfSteps
  <2> QED
    BY <1>6, <2>1, <2>2, <2>3, <2>5
<1>9. T = Nat
  <2>1. T \in SUBSET Nat
    OBVIOUS
  <2> HIDE DEF T
  <2> QED
    BY <1>7, <1>8, <2>1, NatSetInduction
<1>10. r.rc.frac <= x.frac + 40 * n
  BY <1>9
<1>11. r.rc.frac \in Nat /\ Coder(r.rc)
  BY <1>6
<1> HIDE DEF r
<1>12. t[1] = EncBit(r.rc, 1, which = 1) \/ t[1] = r.rc
  BY DEF EncChoice, Resolved
<1>13. EncBit(r.rc, 1, which = 1).frac \in Nat /\ EncBit(r.rc, 1, which = 1).frac <= r.rc.frac + 8 * 1
  <2>1. 1 \in 1..15
    OBVIOUS
  <2> QED
    BY <1>11, <2>1, BitGrows DEF Grows, Coder
<1> DEFINE y == EncBit(r.rc, 1, which = 1)
<1> HIDE DEF t, y
<1>14. t[1].frac <= r.rc.frac + 8
  BY <1>11, <1>12, <1>13 DEF y
<1>15. t[1].frac \in Nat
  BY <1>11, <1>12, <1>13 DEF y
<1> QED
  BY <1>1, <1>6, <1>10, <1>11, <1>14, <1>15

(* The spread, four bits.                                                   *)
LEMMA SpreadCosts ==
  ASSUME NEW f, Asking(f), NEW x, Coder(x)
  PROVE  SpreadCoded(f, x).frac <= x.frac + 32
<1> DEFINE c == SPREAD_COST[f.spread + 1]
<1>1. c \in Nat /\ c <= 32
  <2>1. f.spread = 0 \/ f.spread = 1 \/ f.spread = 2 \/ f.spread = 3
    BY DEF Asking
  <2> QED
    BY <2>1 DEF SPREAD_COST
<1>2. x.frac \in Nat
  BY DEF Coder
<1>3. SpreadCoded(f, x) = IF SpreadSent(x) THEN PutSym(x, "spread", 4, f.spread, c) ELSE x
  BY DEF SpreadCoded
<1> HIDE DEF c
<1>4. PutSym(x, "spread", 4, f.spread, c).frac = x.frac + c
  BY <1>1, PutGrows
<1> QED
  BY <1>1, <1>2, <1>3, <1>4

(* A band's boosts cost no more than the quanta and flags asked for, and    *)
(* the flag of the first or the one that ends them.                         *)
LEMMA BoostCosts ==
  ASSUME NEW b, BoostState(b), Coder(b.rc), NEW p, BandParams(p), NEW j \in 0..20, NEW want \in Nat
  PROVE  EncBoost(b, p, j, want).rc.frac + EncBoost(b, p, j, want).total
             <= b.rc.frac + b.total + want * (Quanta(p, j) + 8) + 48
<1> DEFINE q == Quanta(p, j)
           n == EncCount(b, p, j, want)
           E(m) == EncBoosts(b, q, m)
           c == q + 8
           last == E(n)
           z == EncBoost(b, p, j, want)
           Paid(m) == E(m).rc.frac + E(m).total + 8 * E(m).logp <= b.rc.frac + b.total + 48 + m * c
           T == {m \in Nat : Paid(m)}
<1>1. q \in Nat /\ q >= 1
  BY QuantaIs
<1>2. n \in 0..want
  BY EncCountIs
<1>3. E(0) = b
  BY EncBoostsGoes
<1>4. \A m \in Nat : BoostState(E(m)) /\ Grows(b.rc, E(m).rc)
  <2> HIDE DEF q
  <2> QED
    BY <1>1, EncBoostsIs
<1>5. \A m \in Nat : /\ E(m + 1).rc.frac <= E(m).rc.frac + 8 * E(m).logp /\ E(m + 1).total = E(m).total + q
                     /\ E(m + 1).logp = 1
  <2> SUFFICES ASSUME NEW m \in Nat
               PROVE  /\ E(m + 1).rc.frac <= E(m).rc.frac + 8 * E(m).logp /\ E(m + 1).total = E(m).total + q
                      /\ E(m + 1).logp = 1
    OBVIOUS
  <2>1. E(m + 1) = EncOne(E(m), q)
    BY EncBoostsGoes
  <2>2. BoostState(E(m)) /\ Coder(E(m).rc)
    BY <1>4 DEF Grows
  <2> DEFINE y == EncBit(E(m).rc, E(m).logp, TRUE)
  <2> HIDE DEF E, q
  <2>3. E(m + 1) = BoostBy(E(m), y, q)
    BY <2>1 DEF EncOne
  <2>4. y.frac <= E(m).rc.frac + 8 * E(m).logp
    <3>1. E(m).logp \in 1..15
      BY <2>2 DEF BoostState
    <3> QED
      BY <2>2, <3>1, BitGrows
  <2> HIDE DEF y
  <2>5. E(m + 1).rc = y /\ E(m + 1).total = E(m).total + q /\ E(m + 1).logp = 1
    BY <1>1, <2>2, <2>3, BoostByIs
  <2> QED
    BY <2>4, <2>5
<1>6. z = IF BoostMay(last, p, j) THEN [last EXCEPT !.rc = EncBit(last.rc, last.logp, FALSE)] ELSE last
  BY DEF EncBoost
<1> HIDE DEF E, n, q
<1>7. \A m \in Nat : E(m).rc.frac \in Nat /\ E(m).total \in Nat /\ E(m).logp \in 1..6
  BY <1>4 DEF Grows, Coder, BoostState
<1>8. b.rc.frac \in Nat /\ b.total \in Nat /\ b.logp \in 1..6
  BY DEF Coder, BoostState
<1>9. 0 \in T
  <2>1. 0 * c = 0
    BY <1>1
  <2> HIDE DEF c
  <2> QED
    BY <1>3, <1>8, <2>1
<1>10. ASSUME NEW m \in Nat, m \in T PROVE m + 1 \in T
  <2>1. (m + 1) * c = m * c + c /\ m * c \in Nat /\ c \in Nat
    BY <1>1
  <2> DEFINE u == m * c
             v == (m + 1) * c
  <2>2. v = u + q + 8 /\ u \in Nat
    BY <1>1, <2>1
  <2>3. E(m).rc.frac + E(m).total + 8 * E(m).logp <= b.rc.frac + b.total + 48 + u
    BY <1>10
  <2> HIDE DEF u, v, c, T
  <2>5. E(m + 1).rc.frac <= E(m).rc.frac + 8 * E(m).logp /\ E(m + 1).total = E(m).total + q /\ E(m + 1).logp = 1
    BY <1>5
  <2>6. E(m).rc.frac \in Nat /\ E(m).total \in Nat /\ E(m).logp \in 1..6 /\ E(m + 1).rc.frac \in Nat
    BY <1>7
  <2>4. E(m + 1).rc.frac + E(m + 1).total + 8 * E(m + 1).logp <= b.rc.frac + b.total + 48 + v
    BY <1>1, <1>8, <2>2, <2>3, <2>5, <2>6
  <2> QED
    BY <2>4 DEF v, T
<1>11. T = Nat
  <2>1. T \in SUBSET Nat
    OBVIOUS
  <2> HIDE DEF T
  <2> QED
    BY <1>9, <1>10, <2>1, NatSetInduction
<1>12. n \in Nat /\ n <= want
  BY <1>2
<1>13. last.rc.frac + last.total + 8 * last.logp <= b.rc.frac + b.total + 48 + n * c
  BY <1>11, <1>12
<1>14. n * c <= want * c /\ n * c \in Nat /\ want * c \in Nat
  <2>1. PICK r \in Nat : want = n + r
    BY <1>12
  <2>2. c \in Nat
    BY <1>1
  <2> HIDE DEF c
  <2>3. (n + r) * c = n * c + r * c /\ r * c \in Nat /\ n * c \in Nat
    BY <1>12, <2>1, <2>2
  <2> QED
    BY <2>1, <2>3
<1>15. z.rc.frac <= last.rc.frac + 8 * last.logp /\ z.total = last.total
  <2>1. CASE ~BoostMay(last, p, j)
    <3>1. z = last
      BY <1>6, <2>1
    <3>2. last.rc.frac \in Nat /\ last.logp \in 1..6
      BY <1>7, <1>12
    <3> HIDE DEF z, last
    <3> QED
      BY <3>1, <3>2
  <2>2. CASE BoostMay(last, p, j)
    <3> DEFINE y == EncBit(last.rc, last.logp, FALSE)
    <3>1. Coder(last.rc) /\ last.logp \in 1..15 /\ BoostState(last)
      BY <1>4, <1>12 DEF Grows, BoostState
    <3>2. y.frac <= last.rc.frac + 8 * last.logp
      BY <3>1, BitGrows
    <3>3. z = [last EXCEPT !.rc = y]
      BY <1>6, <2>2
    <3> HIDE DEF last, z, y
    <3>4. PICK a1, a2, a3, a4 : last = [rc |-> a1, logp |-> a2, total |-> a3, boost |-> a4]
      BY <3>1 DEF BoostState
    <3>5. z.rc = y /\ z.total = last.total
      BY <3>3, <3>4
    <3> QED
      BY <3>2, <3>5
  <2> QED
    BY <2>1, <2>2
<1>16. z.rc.frac \in Nat /\ z.total \in Nat
  BY EncBoostIs DEF Grows, Coder, BoostState
<1>17. last.rc.frac \in Nat /\ last.total \in Nat /\ last.logp \in 1..6
  BY <1>7, <1>12
<1> DEFINE u == n * c
           v == want * c
<1> HIDE DEF z, last, u, v
<1>18. z.rc.frac + z.total <= b.rc.frac + b.total + v + 48
  BY <1>8, <1>13, <1>14, <1>15, <1>16, <1>17 DEF u, v
<1> QED
  BY <1>18 DEF z, v, c, q

(* Those of all bands.                                                      *)
LEMMA DynCosts ==
  ASSUME NEW p, BandParams(p), NEW want, DynWants(p, want), NEW d, DynState(d, 0), Coder(d.rc),
         NEW n \in Nat, n <= p.end - p.start
  PROVE  EncDynalloc(d, p, want, n).rc.frac + EncDynalloc(d, p, want, n).total
             <= d.rc.frac + d.total + BoostsAsked(p, want, n) + 48 * n
<1> DEFINE E(m) == EncDynalloc(d, p, want, m)
           A(m) == BoostsAsked(p, want, m)
           Paid(m) == E(m).rc.frac + E(m).total <= d.rc.frac + d.total + A(m) + 48 * m
           T == {m \in Nat : m <= p.end - p.start => Paid(m)}
<1>1. E(0) = d /\ \A m \in Nat : E(m + 1) = EncDynStep(E(m), p, want, m)
  BY EncDynGoes
<1>2. A(0) = 0 /\ \A m \in Nat : A(m + 1) = AskedOn(A(m), p, want, m)
  BY AskedGoes
<1>3. p.start \in 0..20 /\ p.end \in 1..NbBands
  BY DEF BandParams
<1>4. \A m \in Nat : m <= p.end - p.start => DynState(E(m), m) /\ Grows(d.rc, E(m).rc)
  BY DynGrows
<1>5. \A m \in Nat : m <= p.end - p.start => A(m) \in Nat
  BY AskedIs
<1> HIDE DEF A, E
<1>6. d.rc.frac \in Nat /\ d.total \in Nat
  BY DEF Coder, DynState
<1>7. \A m \in Nat : m <= p.end - p.start => E(m).rc.frac \in Nat /\ E(m).total \in Nat /\ Coder(E(m).rc)
  BY <1>4 DEF Grows, Coder, DynState
<1>8. 0 \in T
  BY <1>1, <1>2, <1>6
<1>9. ASSUME NEW m \in Nat, m \in T PROVE m + 1 \in T
  <2> SUFFICES ASSUME m + 1 <= p.end - p.start PROVE Paid(m + 1)
    OBVIOUS
  <2>1. m <= p.end - p.start
    BY <1>3 DEF NbBands
  <2>2. Paid(m) /\ DynState(E(m), m) /\ Coder(E(m).rc) /\ E(m).rc.frac \in Nat /\ E(m).total \in Nat /\ A(m) \in Nat
    BY <1>4, <1>5, <1>7, <1>9, <2>1
  <2> DEFINE j == p.start + m
             u == Unboosted(E(m))
             z == EncBoost(u, p, j, want[j + 1])
             v == want[j + 1] * (Quanta(p, j) + 8)
  <2>3. j \in 0..20 /\ j + 1 \in 1..NbBands
    BY <1>3 DEF NbBands
  <2>4. E(m + 1) = Boosted(E(m), z) /\ A(m + 1) = A(m) + v
    BY <1>1, <1>2 DEF EncDynStep, AskedOn
  <2>5. BoostState(u) /\ u.rc = E(m).rc /\ u.total = E(m).total
    BY <2>2, UnboostedIs
  <2>6. want[j + 1] \in Nat /\ Quanta(p, j) \in Nat
    BY <2>3, QuantaIs DEF DynWants
  <2>7. v \in Nat
    BY <2>6
  <2> HIDE DEF j, u, v
  <2>8. z.rc.frac + z.total <= u.rc.frac + u.total + v + 48
    BY <2>2, <2>3, <2>5, <2>6, BoostCosts DEF v
  <2>9. BoostState(z)
    BY <2>2, <2>3, <2>5, <2>6, EncBoostIs
  <2> HIDE DEF z
  <2>10. E(m + 1).rc = z.rc /\ E(m + 1).total = z.total
    BY <2>2, <2>4, <2>9, BoostedIs
  <2>11. E(m + 1).rc.frac \in Nat /\ E(m + 1).total \in Nat
    BY <1>7
  <2> QED
    BY <1>6, <2>2, <2>4, <2>5, <2>7, <2>8, <2>10, <2>11
<1>10. T = Nat
  <2>1. T \in SUBSET Nat
    OBVIOUS
  <2> HIDE DEF T
  <2> QED
    BY <1>8, <1>9, <2>1, NatSetInduction
<1>11. n \in T
  BY <1>10
<1> QED
  BY <1>11 DEF A, E

(* The choices of a frame, next to the boosts they promise.                 *)
LEMMA ChoicesCost ==
  ASSUME NEW f, NEW x, NEW p, NEW transient, Asked(f, x, p, transient)
  PROVE  ChoicesCoded(f, x, p, transient).frac + Chose(f, x, p, transient).total
             <= x.frac + BoostsAsked(p, f.boosts, p.end - p.start) + 1936
<1> DEFINE n == f.end - f.start
           want == SubSeq(f.tf, f.start + 1, f.end)
           t == TfCoded(f, x, transient)[1]
           y == SpreadCoded(f, t)
           d == Chose(f, x, p, transient)
           z == ChoicesCoded(f, x, p, transient)
           m == p.end - p.start
           a == BoostsAsked(p, f.boosts, m)
<1>1. /\ Asking(f) /\ BandParams(p) /\ p.start = f.start /\ p.end = f.end /\ p.lm = f.lm /\ transient \in BOOLEAN
      /\ Coder(x) /\ f.lm \in 0..3 /\ f.tf_select \in 0..1
  BY DEF Asked, Asking
<1>2. TfWants(want, n) /\ n \in Nat
  BY <1>1, TfAsked
<1>3. n <= 21 /\ m = n /\ m \in Nat /\ m <= m
  <2>1. f.start \in 0..20 /\ f.end \in 1..21
    BY <1>1 DEF Asking, NbBands
  <2> QED
    BY <1>1, <1>2, <2>1
<1>4. Grows(x, t) /\ Grows(t, y) /\ Grows(y, d.rc) /\ Grows(d.rc, z) /\ DynState(d, m)
  BY ChoicesStep
<1>5. t.frac <= x.frac + 848
  <2> HIDE DEF want, n
  <2> QED
    BY <1>1, <1>2, <1>3, ResolutionCosts DEF TfCoded, want
<1> HIDE DEF t
<1>6. Coder(t) /\ y.frac <= t.frac + 32
  <2>1. Coder(t)
    BY <1>4 DEF Grows
  <2> QED
    BY <1>1, <2>1, SpreadCosts
<1> HIDE DEF y
<1>7. DynState(NoBoosts(y), 0) /\ NoBoosts(y).rc = y /\ NoBoosts(y).total = 0
  BY NoBoostsIs DEF NoBoosts
<1>8. DynWants(p, f.boosts)
  BY <1>1 DEF Asking, DynWants
<1> DEFINE e == NoBoosts(y)
<1>9. d = EncDynalloc(e, p, f.boosts, m)
  BY DEF Chose, DynCoded, y, t
<1>10. Coder(e.rc) /\ DynState(e, 0) /\ e.rc = y /\ e.total = 0
  BY <1>4, <1>7 DEF Grows
<1> HIDE DEF e, n, d
<1>11. d.rc.frac + d.total <= e.rc.frac + e.total + a + 48 * m
  <2> HIDE DEF m
  <2>1. m <= p.end - p.start
    BY <1>3 DEF m
  <2>2. d = EncDynalloc(e, p, f.boosts, m)
    BY <1>9
  <2>3. EncDynalloc(e, p, f.boosts, m).rc.frac + EncDynalloc(e, p, f.boosts, m).total
            <= e.rc.frac + e.total + BoostsAsked(p, f.boosts, m) + 48 * m
    BY <1>1, <1>3, <1>8, <1>10, <2>1, DynCosts
  <2> QED
    BY <2>2, <2>3
<1>12. a \in Nat
  <2> HIDE DEF m
  <2>1. m <= p.end - p.start
    BY <1>3 DEF m
  <2> QED
    BY <1>1, <1>3, <1>8, <2>1, AskedIs
<1>13. z = d.rc \/ z.frac <= d.rc.frac + 48
  <2> DEFINE c == TRIM_COST[f.trim + 1]
  <2>1. c \in Nat /\ c <= 48
    BY <1>1, TrimCosts DEF Asking
  <2>2. z = TrimCoded(f, d)
    BY DEF ChoicesCoded, d
  <2>3. z = IF TrimSent(d.rc, d.total) THEN PutSym(d.rc, "trim", 11, f.trim, c) ELSE d.rc
    BY <2>2 DEF TrimCoded
  <2>4. Coder(d.rc) /\ d.rc.frac \in Nat
    BY <1>4 DEF Grows, Coder
  <2> HIDE DEF c
  <2>5. PutSym(d.rc, "trim", 11, f.trim, c).frac = d.rc.frac + c
    BY <2>1, <2>4, PutGrows
  <2> HIDE DEF z
  <2> QED
    BY <2>1, <2>3, <2>4, <2>5
<1>14. /\ x.frac \in Nat /\ t.frac \in Nat /\ y.frac \in Nat /\ d.rc.frac \in Nat /\ z.frac \in Nat /\ d.total \in Nat
  BY <1>1, <1>4 DEF Grows, Coder, DynState
<1> HIDE DEF z, a, m
<1>15. z.frac + d.total <= x.frac + a + 1936
  BY <1>3, <1>5, <1>6, <1>10, <1>11, <1>12, <1>13, <1>14
<1> QED
  BY <1>15 DEF z, d, a, m

(* The header of a frame that is not silent.                                *)
LEMMA HeaderCosts ==
  ASSUME NEW f, Sized(f), NEW pitch, PitchWorth(f, pitch), ~WasSilent(f)
  PROVE  HeaderCoded(f, pitch).frac <= f.tell0 + 165 /\ HeaderCoded(f, pitch).bytes = f.bytes
<1> DEFINE x1 == HushSent(f)
           x2 == PitchCoded(f, pitch)
           x3 == HeaderCoded(f, pitch)
<1>1. Coder(x1) /\ x1.frac = f.tell0 /\ x1.bytes = f.bytes
  BY SilenceCodes DEF HushLeaves
<1>2. Grows(x1, x2) /\ Grows(x2, x3)
  BY PitchCodedGrows, HeaderGrows
<1>3. x2 = EncPitch(x1, pitch) \/ x2 = x1
  BY DEF PitchCoded
<1>4. x3 = EncBit(x2, 3, f.transient) \/ x3 = x2
  BY DEF HeaderCoded
<1> HIDE DEF x1, x2, x3
<1>5. x1.frac \in Nat /\ x2.frac \in Nat /\ x3.frac \in Nat /\ Coder(x2)
  BY <1>1, <1>2 DEF Grows, Coder
<1>6. x2.frac <= x1.frac + 141
  <2>1. EncPitch(x1, pitch).frac <= x1.frac + 141
    BY <1>1, PitchGrows DEF PitchWorth
  <2> QED
    BY <1>3, <1>5, <2>1
<1>7. x3.frac <= x2.frac + 24
  <2>1. 3 \in 1..15
    OBVIOUS
  <2>2. EncBit(x2, 3, f.transient).frac <= x2.frac + 8 * 3
    BY <1>5, <2>1, BitGrows
  <2> QED
    BY <1>4, <1>5, <2>2
<1>8. x3.bytes = x2.bytes /\ x2.bytes = x1.bytes
  BY <1>2 DEF Grows
<1> QED
  BY <1>1, <1>5, <1>6, <1>7, <1>8 DEF x3

(* A silent frame of variable rate has four bytes at most.                  *)
LEMMA SilenceShort ==
  ASSUME NEW f, Sized(f), NEW pitch, PitchWorth(f, pitch), WasSilent(f), f.vbr # 0
  PROVE  HeaderCoded(f, pitch).bytes <= 4
<1> DEFINE x0 == Plain(f)
           y == EncBit(x0, 15, TRUE)
           n == MaxOf(2, MinOf(y.bytes, ((TellBits(y) + 7) \div 8) + 2))
           z == [y EXCEPT !.bytes = n]
           x1 == HushSent(f)
           x2 == PitchCoded(f, pitch)
           x3 == HeaderCoded(f, pitch)
<1>1. /\ f.tell0 \in Nat /\ f.bytes \in Nat /\ f.bytes >= 2 /\ f.tell0 <= 64 * f.bytes /\ f.vbr \in Nat
      /\ f.silent = TRUE /\ TellBits(x0) = 1
  BY DEF Sized, WasSilent
<1>2. Coder(x0) /\ x0.frac = f.tell0 /\ x0.bytes = f.bytes /\ x0.ok
  BY <1>1, NothingLogged, OpenedFollows DEF Plain
<1>3. x1 = FastForward(z)
  <2>1. f.vbr > 0
    BY <1>1
  <2>2. x1 = EncSilence(x0, TRUE, f.vbr)
    BY <1>1 DEF HushSent
  <2>3. EncSilence(x0, TRUE, f.vbr) = Hushed(y, f.vbr)
    BY <1>1 DEF EncSilence
  <2> QED
    BY <2>1, <2>2, <2>3 DEF Hushed
<1> HIDE DEF x0
<1>4. Grows(x0, y) /\ y.frac <= x0.frac + 8 * 15
  <2>1. 15 \in 1..15
    OBVIOUS
  <2> QED
    BY <1>2, <2>1, BitGrows
<1>5. Coder(y) /\ y.bytes = f.bytes /\ y.frac \in Nat
  BY <1>2, <1>4 DEF Grows, Coder
<1> HIDE DEF y
<1>6. TellBits(y) \in Nat /\ TellBits(y) <= 16
  <2>1. x0.frac <= 8 /\ x0.frac \in Nat
    BY <1>1, <1>2 DEF TellBits
  <2>2. y.frac <= 128 /\ y.frac \in Nat
    BY <1>4, <1>5, <2>1
  <2> QED
    BY <2>2 DEF TellBits
<1>7. n \in Nat /\ n <= 4
  <2> DEFINE t == TellBits(y)
             b == f.bytes
  <2>1. n = MaxOf(2, MinOf(b, ((t + 7) \div 8) + 2)) /\ t \in 0..16 /\ b \in Nat
    BY <1>1, <1>5, <1>6
  <2> HIDE DEF t, b, n
  <2>2. (t + 7) \div 8 \in 0..2
    BY <2>1
  <2> DEFINE q == (t + 7) \div 8
  <2> HIDE DEF q
  <2>3. q \in 0..2 /\ n = MaxOf(2, MinOf(b, q + 2))
    BY <2>1, <2>2 DEF q
  <2> QED
    BY <2>1, <2>3 DEF MaxOf, MinOf
<1> HIDE DEF n
<1>8. Coder(z) /\ z.bytes = n
  BY <1>5, <1>7, Resized
<1> HIDE DEF z
<1>9. x1.bytes = z.bytes
  <2>1. PICK a1, a2, a3, a4, a5, a6 : z = [frac |-> a1, bytes |-> a2, syms |-> a3, place |-> a4, ok |-> a5, got |-> a6]
    BY <1>8 DEF Coder
  <2> QED
    BY <1>3, <2>1 DEF FastForward
<1>10. Grows(x1, x2) /\ Grows(x2, x3)
  BY PitchCodedGrows, HeaderGrows
<1> HIDE DEF x1, x2, x3
<1> QED
  BY <1>7, <1>8, <1>9, <1>10 DEF Grows, x3

=============================================================================

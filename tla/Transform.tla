----------------------------- MODULE Transform -----------------------------
(***************************************************************************)
(* CELT's transforms: the mixed-radix FFT of kiss_fft.rs and the windowed  *)
(* MDCT of mdct.rs, both directions, with the short blocks of a transient  *)
(* frame interleaved in one coefficient array.                             *)
(*                                                                         *)
(* The code computes with f32.  Here every real is an element of the field *)
(* of P elements, where sines and cosines of all the angles the code uses  *)
(* exist and sum, product and halving are exact: an index, a sign or a     *)
(* stride that is wrong gives a wrong number, and rounding never hides it. *)
(* Every step is linear in the signal, so one unit sample at a time, at    *)
(* every position, tells the whole transform.                              *)
(***************************************************************************)
EXTENDS Field

CONSTANTS
    G,           \* a generator of the field's multiplicative group
    BaseN,       \* MdctLookup.n: length of the longest transform
    Overlap,     \* samples shared by neighbouring blocks
    Transforms   \* units to transform: [kind, shift, blocks, isa, pos]

GroupOrder == P - 1

ASSUME GAssumption == G \in 1..GroupOrder /\ GroupOrder % 4 = 0
ASSUME SizeAssumption == BaseN % 8 = 0 /\ Overlap % 4 = 0

-----------------------------------------------------------------------------
(* Roots of unity, and through them sines and cosines.                      *)
Half == Inverse(2)
HalfOverI == (Half * Inverse(Power(G, GroupOrder \div 4))) % P

(* Powers[k + 1] is the k-th power of G.                                   *)
RECURSIVE PowersUpTo(_)
PowersUpTo(n) == IF n = 1 THEN <<1>>
                 ELSE LET h == PowersUpTo(n \div 2)
                          f == Power(G, n \div 2)
                          l == h \o [k \in 1..Len(h) |-> (h[k] * f) % P]
                      IN  IF n % 2 = 0 THEN l ELSE Append(l, (l[n - 1] * G) % P)
Powers == PowersUpTo(GroupOrder)

(* The root of unity, cosine and sine at the angle 2 pi t / n.             *)
Root(t, n) == Powers[((GroupOrder \div n) * (t % n)) + 1]
CosOf(t, n) == ((Root(t, n) + Root(-t, n)) * Half) % P
SinOf(t, n) == ((Root(t, n) - Root(-t, n)) * HalfOverI) % P

Cpx(r, i) == <<r % P, i % P>>
c_add(a, b) == Cpx(a[1] + b[1], a[2] + b[2])
c_sub(a, b) == Cpx(a[1] - b[1], a[2] - b[2])
c_mul(a, b) == Cpx(a[1] * b[1] - a[2] * b[2], a[1] * b[2] + a[2] * b[1])
c_scale(a, s) == Cpx(a[1] * s, a[2] * s)

(* Registers of four lanes: the even and odd lanes of a pair of them, the    *)
(* lanes in reverse (vrev64q, then vextq by two).                            *)
vuzp(v) == [even |-> <<v[1], v[3], v[5], v[7]>>, odd |-> <<v[2], v[4], v[6], v[8]>>]
Reversed4(v) == LET r == <<v[2], v[1], v[4], v[3]>> IN <<r[3], r[4], r[1], r[2]>>

(* Two complex products at once, real and imaginary parts side by side.      *)
neon_cmul_2(a, b) ==
    LET dup_r == <<a[1], a[1], a[3], a[3]>>
        swap_neg == <<-a[2], a[2], -a[4], a[4]>>
        rev_b == <<b[2], b[1], b[4], b[3]>>
    IN  [l \in 1..4 |-> (dup_r[l] * b[l] + swap_neg[l] * rev_b[l]) % P]

-----------------------------------------------------------------------------
(* kf_factor: the radices, four first, then reversed; a two found late is  *)
(* moved to the second place.                                              *)
NextRadix(p, n) ==
    LET q == CASE p = 4 -> 2 [] p = 2 -> 3 [] OTHER -> p + 2
    IN  IF q * q > n THEN n ELSE q

RECURSIVE Radices(_, _, _)
Radices(n, p, found) ==
    IF n <= 1 THEN found
    ELSE IF n % p # 0 THEN Radices(n, NextRadix(p, n), found)
    ELSE Radices(n \div p, p,
                 IF p = 2 /\ Len(found) > 1
                 THEN Append([found EXCEPT ![1 + 1] = 2], 4)
                 ELSE Append(found, p))

(* Pairs <<radix, rest>> as stored by the code, first stage first.         *)
kf_factor(nfft) ==
    LET rs == Radices(nfft, 4, <<>>)
        back == [k \in 1..Len(rs) |-> rs[Len(rs) + 1 - k]]
        Rest[k \in 0..Len(rs)] == IF k = 0 THEN nfft ELSE Rest[k - 1] \div back[k]
    IN  [k \in 1..Len(rs) |-> <<back[k], Rest[k]>>]

(* compute_bitrev_table: where the i-th input goes.  The recursion of the   *)
(* code walks the digits of the index, least significant radix first.      *)
RECURSIVE bitrev(_, _)
bitrev(factors, i) ==
    LET p == factors[1][1]
        m == factors[1][2]
    IN  IF m = 1 THEN i
        ELSE (i % p) * m + bitrev(Tail(factors), i \div p)

(* Every state of the lookup shares the twiddles of the longest FFT; a     *)
(* shorter one steps through them in strides of 2^shift.                   *)
BaseFft == BaseN \div 4
Nfft(shift) == BaseFft \div 2^shift
Twiddle(k) == Cpx(CosOf(k, BaseFft), -SinOf(k, BaseFft))

-----------------------------------------------------------------------------
(* One stage of butterflies: groups of mm = p * m elements, whose p legs    *)
(* are m apart.  x is the buffer, i the group's base, j the place in a leg, *)
(* and a butterfly gives the values of its legs in order.                   *)
Leg(x, p, base, j, m, fstride, isa, q) ==
    IF isa = "neon" /\ p \in {3, 5} /\ j < 2 * (m \div 2)
    THEN LET j0 == j - (j % 2)
             v == neon_cmul_2(x[base + j0 + q * m] \o x[base + j0 + q * m + 1],
                              Twiddle(q * j0 * fstride) \o Twiddle(q * j0 * fstride + q * fstride))
         IN  SubSeq(v, 2 * (j % 2) + 1, 2 * (j % 2) + 2)
    ELSE c_mul(x[base + j + q * m], Twiddle(q * j * fstride))
Legs(x, p, base, j, m, fstride, isa) ==
    [q \in 0..(p - 1) |->
        IF q = 0 THEN x[base + j] ELSE Leg(x, p, base, j, m, fstride, isa, q)]

bfly4(s) ==
    LET s5 == c_sub(s[0], s[2])
        s6 == c_add(s[0], s[2])
        s3 == c_add(s[1], s[3])
        s4 == c_sub(s[1], s[3])
    IN  <<c_add(s6, s3), Cpx(s5[1] + s4[2], s5[2] - s4[1]),
          c_sub(s6, s3), Cpx(s5[1] - s4[2], s5[2] + s4[1])>>

Epi3 == -SinOf(1, 3)
bfly3(s) ==
    LET s3 == c_add(s[1], s[2])
        s0 == c_scale(c_sub(s[1], s[2]), Epi3)
        fm == c_sub(s[0], c_scale(s3, Half))
    IN  <<c_add(s[0], s3), Cpx(fm[1] - s0[2], fm[2] + s0[1]),
          Cpx(fm[1] + s0[2], fm[2] - s0[1])>>

YaR == CosOf(1, 5)
YaI == -SinOf(1, 5)
YbR == CosOf(2, 5)
YbI == -SinOf(2, 5)
bfly5(s) ==
    LET s7 == c_add(s[1], s[4])
        s10 == c_sub(s[1], s[4])
        s8 == c_add(s[2], s[3])
        s9 == c_sub(s[2], s[3])
        s5 == c_add(s[0], c_add(c_scale(s7, YaR), c_scale(s8, YbR)))
        s6 == Cpx(s10[2] * YaI + s9[2] * YbI, -(s10[1] * YaI + s9[1] * YbI))
        s11 == c_add(s[0], c_add(c_scale(s7, YbR), c_scale(s8, YaR)))
        s12 == Cpx(s9[2] * YaI - s10[2] * YbI, s10[1] * YbI - s9[1] * YaI)
    IN  <<c_add(s[0], c_add(s7, s8)), c_sub(s5, s6), c_add(s11, s12),
          c_sub(s11, s12), c_add(s5, s6)>>

(* The radix-2 stage has no twiddles: unless it is the first, the code      *)
(* takes it for the stage after a single radix-4, and four places apart.    *)
SqrtHalf == CosOf(1, 8)
Rotated(t, j) == CASE j = 0 -> t
                   [] j = 1 -> Cpx((t[1] + t[2]) * SqrtHalf, (t[2] - t[1]) * SqrtHalf)
                   [] j = 2 -> Cpx(t[2], -t[1])
                   [] j = 3 -> Cpx((t[2] - t[1]) * SqrtHalf, -(t[2] + t[1]) * SqrtHalf)
bfly2(a, b, j) == LET t == Rotated(b, j) IN <<c_add(a, t), c_sub(a, t)>>

(* One stage over the whole buffer.                                         *)
Stage(x, p, m, shift, isa) ==
    LET mm == p * m
        n == Len(x) \div mm
        X == [k \in 0..(Len(x) - 1) |-> x[k + 1]]
        Out[i \in 0..(n - 1), j \in 0..(m - 1)] ==
            IF p = 2 THEN IF m = 1 THEN bfly2(X[i * 2], X[i * 2 + 1], 0)
                          ELSE bfly2(X[i * 8 + j], X[i * 8 + 4 + j], j)
            ELSE CASE p = 4 -> bfly4(Legs(X, 4, i * mm, j, m, n * 2^shift, isa))
                   [] p = 3 -> bfly3(Legs(X, 3, i * mm, j, m, n * 2^shift, isa))
                   [] p = 5 -> bfly5(Legs(X, 5, i * mm, j, m, n * 2^shift, isa))
    IN  [k \in 1..Len(x) |->
            Out[(k - 1) \div mm, (k - 1) % m][(((k - 1) % mm) \div m) + 1]]

-----------------------------------------------------------------------------
(* The pieces of MdctLookup.forward and backward.                          *)
MdctLen(shift) == BaseN \div 2^shift
Trig(shift, i) == CosOf(8 * i + 1, 8 * MdctLen(shift))

(* The window: any w with w[i]^2 + w[Overlap-1-i]^2 = 1 will do.            *)
WindowTable == [i \in 1..Overlap |-> SinOf(2 * i - 1, 8 * Overlap)]
Window(i) == WindowTable[i + 1]

(* Where the windowing loops of forward end: the rising part is folded by   *)
(* the first, the falling part by the third.                                *)
Limit == (Overlap + 3) \div 4
ThirdLoopFrom(n4) == MaxOf(Limit, MaxOf(0, n4 - Limit))

(* Forward, first half: window and fold the input x to n4 complex values.   *)
Folded(x, i, shift) ==
    LET n2 == MdctLen(shift) \div 2
        n4 == MdctLen(shift) \div 4
        xp1 == Overlap \div 2 + 2 * i
        xp2 == n2 - 1 + Overlap \div 2 - 2 * i
        w1 == Window(Overlap \div 2 + 2 * i)
        w2 == Window(MaxOf(0, Overlap \div 2 - 1 - 2 * i))
        e == i - ThirdLoopFrom(n4)
        w3 == Window(2 * e)
        w4 == Window(Overlap - 1 - 2 * e)
    IN  CASE i < MinOf(Limit, n4) ->
               Cpx(At(x, xp1 + n2) * w2 + At(x, xp2) * w1,
                   At(x, xp1) * w1 - At(x, xp2 - n2) * w2)
          [] i >= ThirdLoopFrom(n4) ->
               Cpx(At(x, xp2) * w4 - At(x, xp1 - n2) * w3,
                   At(x, xp1) * w4 + At(x, xp2 + n2) * w3)
          [] OTHER -> Cpx(At(x, xp2), At(x, xp1))

(* A permutation of n places as the sequence of values f of the place that  *)
(* perm sends to each.                                                      *)
Scatter(n, perm(_), f(_)) ==
    LET from == [k \in 0..(n - 1) |-> perm(k)]
        Into[r \in 0..(n - 1)] == CHOOSE k \in 0..(n - 1) : from[k] = r
    IN  [r \in 1..n |-> f(Into[r - 1])]

(* Pre- and post-rotation of both directions.  A coefficient array may       *)
(* interleave several short blocks: stride is their number.                  *)
(* Which two floats of an array of pairs the NEON rotations take for the     *)
(* i-th: four pairs at a time, then the rest one by one; only rotations of a *)
(* single block are vectorised on the side that has a stride.                *)
Pair(i) == <<2 * i, 2 * i + 1>>
FromFour(i, v) == <<v.even[(i % 4) + 1], v.odd[(i % 4) + 1]>>
mdct_pre_rotation_neon(i, n4) ==
    IF i < 4 * (n4 \div 4) THEN FromFour(i, vuzp(Places(2 * (i - (i % 4)), 8))) ELSE Pair(i)
mdct_post_rotation_neon(i, n4, stride) ==
    IF stride = 1 /\ i < 4 * (n4 \div 4) THEN FromFour(i, vuzp(Places(2 * (i - (i % 4)), 8))) ELSE Pair(i)
mdct_backward_pre_rotation_neon(i, n4, stride) ==
    LET i0 == i - (i % 4)
        n2 == 2 * n4
    IN  IF stride = 1 /\ i < 4 * (n4 \div 4)
        THEN <<vuzp(Places(2 * i0, 8)).even[(i % 4) + 1],
               Reversed4(vuzp(Places(n2 - 8 - 2 * i0, 8)).odd)[(i % 4) + 1]>>
        ELSE <<2 * i, n2 - 1 - 2 * i>>

Taken(f(_), places) == <<f(places[1]), f(places[2])>>
PreRotated(y, i, shift) ==
    LET n4 == MdctLen(shift) \div 4
    IN  c_scale(c_mul(y, Cpx(Trig(shift, i), Trig(shift, n4 + i))), Inverse(n4))

PostRotated(y, i, shift) ==
    LET t0 == Trig(shift, i)
        t1 == Trig(shift, MdctLen(shift) \div 4 + i)
    IN  Cpx(y[2] * t1 - y[1] * t0, y[1] * t1 + y[2] * t0)

(* Where coefficient k of a block comes from: even ones are the first parts  *)
(* in order, odd ones the second parts from the end.                         *)
Coefficient(y, k, shift, stride, isa) ==
    LET n2 == MdctLen(shift) \div 2
        i == IF k % 2 = 0 THEN k \div 2 ELSE (n2 - 1 - k) \div 2
        places == IF isa = "neon" THEN mdct_post_rotation_neon(i, n2 \div 2, stride) ELSE Pair(i)
        v == Taken(LAMBDA q : At(y, q \div 2)[(q % 2) + 1], places)
    IN  PostRotated(v, i, shift)[(k % 2) + 1]

BackPreRotated(c, i, shift, b, stride, isa) ==
    LET n2 == MdctLen(shift) \div 2
        places == IF isa = "neon" THEN mdct_backward_pre_rotation_neon(i, n2 \div 2, stride)
                  ELSE <<2 * i, n2 - 1 - 2 * i>>
        x1 == At(c, b + stride * places[1])
        x2 == At(c, b + stride * places[2])
        t0 == Trig(shift, i)
        t1 == Trig(shift, MdctLen(shift) \div 4 + i)
    IN  Cpx(x1 * t0 - x2 * t1, x2 * t0 + x1 * t1)

BackPostRotated(y, i, shift) ==
    LET t0 == Trig(shift, i)
        t1 == Trig(shift, MdctLen(shift) \div 4 + i)
    IN  Cpx(y[2] * t0 + y[1] * t1, y[2] * t1 - y[1] * t0)

(* The loop of backward walks y from both ends: of the pair from the front  *)
(* the first goes to an even place from the front, the second to the odd    *)
(* one it mirrors; the pair from the back fills the two places left.          *)
Unfolded(y, k, shift) ==
    LET n2 == MdctLen(shift) \div 2
        n4 == MdctLen(shift) \div 4
        i == IF k < 2 * ((n4 + 1) \div 2) THEN k \div 2 ELSE (n2 - 1 - k) \div 2
        j == n4 - 1 - i
    IN  CASE k = 2 * i -> BackPostRotated(At(y, i), i, shift)[1]
          [] k = n2 - 1 - 2 * i -> BackPostRotated(At(y, i), i, shift)[2]
          [] k = n2 - 2 - 2 * i -> BackPostRotated(At(y, j), j, shift)[1]
          [] k = 2 * i + 1 -> BackPostRotated(At(y, j), j, shift)[2]

(* The vector loops of the overlap: whole groups of lanes, then one by one.  *)
Lanes(isa) == CASE isa = "scalar" -> 1 [] isa = "neon" -> 4 [] isa = "avx" -> 8
\* Without the rest, n lanes do not divide.
CoveredByGroups(n, lanes) == 0..(lanes * (n \div lanes) - 1)
Covered(n, lanes) == 0..(lanes * (n \div lanes) - 1) \cup (lanes * (n \div lanes))..(n - 1)

(* The place a lane mirrors: NEON loads four from the end and reverses them. *)
mdct_tdac_neon(i) ==
    IF i < 4 * ((Overlap \div 2) \div 4)
    THEN Reversed4(Places(Overlap - 4 - (i - (i % 4)), 4))[(i % 4) + 1] ELSE Overlap - 1 - i
Mirror(i, isa) == IF isa = "neon" THEN mdct_tdac_neon(i) ELSE Overlap - 1 - i

(* Time-domain alias cancellation in place, o being the output from the     *)
(* block's start on.                                                         *)
Tdac(o, isa) ==
    LET Mixed(k, i, x1, x2) ==
            IF k = i THEN (x2 * Window(Overlap - 1 - i) - x1 * Window(i)) % P
                     ELSE (x2 * Window(i) + x1 * Window(Overlap - 1 - i)) % P
    IN  [q \in DOMAIN o |->
            LET k == q - 1
                i == MinOf(k, Overlap - 1 - k)
            IN  IF i \in Covered(Overlap \div 2, Lanes(isa))
                THEN Mixed(k, i, At(o, Mirror(i, isa)), At(o, i)) ELSE o[q]]

-----------------------------------------------------------------------------
VARIABLES
    unit,     \* what is transformed: a unit sample at a place, by a kind of transform
    tphase,   \* what happens next
    block,   \* the block it happens to
    stages,    \* FFT stages left
    buf,     \* the FFT's buffer
    coefs,   \* MDCT coefficients of all blocks, interleaved
    out      \* the signal put together again

tvars == <<unit, tphase, block, stages, buf, coefs, out>>

IsFft == unit.kind \in {"fft", "ifft"}
Factors == kf_factor(Nfft(unit.shift))
BlockLen == MdctLen(unit.shift) \div 2
SignalLen == unit.blocks * BlockLen + Overlap
Signal == [q \in 1..SignalLen |-> IF q - 1 = unit.pos THEN 1 ELSE 0]

TransformInit ==
    /\ unit \in Transforms
    /\ tphase = "input"
    /\ block = 0
    /\ stages = 0
    /\ buf = <<>>
    /\ coefs = IF IsFft THEN <<>> ELSE [k \in 1..(SignalLen - Overlap) |-> 0]
    /\ out = IF IsFft THEN <<>> ELSE [k \in 1..SignalLen |-> 0]

(* Start an FFT on the values f of the inputs.                              *)
Load(f(_)) ==
    /\ buf' = Scatter(Nfft(unit.shift), LAMBDA i : bitrev(Factors, i), f)
    /\ stages' = Len(Factors)

(* opus_fft scales its input; opus_ifft conjugates before and after.        *)
LoadFft ==
    /\ IsFft /\ tphase = "input"
    /\ Load(LAMBDA i : IF i # unit.pos THEN <<0, 0>>
                       ELSE IF unit.kind = "fft"
                       THEN c_scale(<<1, 2>>, Inverse(Nfft(unit.shift)))
                       ELSE Cpx(1, -2))
    /\ tphase' = "forward"
    /\ UNCHANGED <<unit, block, coefs, out>>

FoldAndRotate ==
    /\ ~IsFft /\ tphase = "input"
    /\ LET x == SubSeq(Signal, block * BlockLen + 1, (block + 1) * BlockLen + Overlap)
           f(q) == Folded(x, q \div 2, unit.shift)[(q % 2) + 1]
           places(i) == IF unit.isa = "neon" THEN mdct_pre_rotation_neon(i, BlockLen \div 2) ELSE Pair(i)
       IN  Load(LAMBDA i : PreRotated(Taken(f, places(i)), i, unit.shift))
    /\ tphase' = "forward"
    /\ UNCHANGED <<unit, block, coefs, out>>

Butterflies ==
    /\ tphase \in {"forward", "backward"} /\ stages > 0
    /\ \E f \in {Factors[stages]} : buf' = Stage(buf, f[1], f[2], unit.shift, unit.isa)
    /\ stages' = stages - 1
    /\ UNCHANGED <<unit, tphase, block, coefs, out>>

FinishFft ==
    /\ IsFft /\ tphase = "forward" /\ stages = 0
    /\ buf' = IF unit.kind = "fft" THEN buf
              ELSE [k \in DOMAIN buf |-> Cpx(buf[k][1], -buf[k][2])]
    /\ tphase' = "done"
    /\ UNCHANGED <<unit, block, stages, coefs, out>>

StoreCoefficients ==
    /\ ~IsFft /\ tphase = "forward" /\ stages = 0
    /\ coefs' = [q \in DOMAIN coefs |->
                    IF (q - 1) % unit.blocks = block
                    THEN Coefficient(buf, (q - 1) \div unit.blocks, unit.shift, unit.blocks, unit.isa) ELSE coefs[q]]
    /\ block' = (block + 1) % unit.blocks
    /\ tphase' = IF block' = 0 THEN "coded" ELSE "input"
    /\ UNCHANGED <<unit, stages, buf, out>>

RotateBack ==
    /\ tphase = "coded"
    /\ Load(LAMBDA i : BackPreRotated(coefs, i, unit.shift, block, unit.blocks, unit.isa))
    /\ tphase' = "backward"
    /\ UNCHANGED <<unit, block, coefs, out>>

UnfoldAndOverlap ==
    /\ tphase = "backward" /\ stages = 0
    /\ LET from == block * BlockLen
           placed == [q \in 1..(SignalLen - from) |->
                        LET k == q - 1 - Overlap \div 2
                        IN  IF k \in 0..(BlockLen - 1) THEN Unfolded(buf, k, unit.shift)
                            ELSE out[from + q]]
       IN  \E o \in {SubSeq(placed, 1, SignalLen - from)} :
             out' = SubSeq(out, 1, from) \o Tdac(o, unit.isa)
    /\ block' = (block + 1) % unit.blocks
    /\ tphase' = IF block' = 0 THEN "done" ELSE "coded"
    /\ UNCHANGED <<unit, stages, buf, coefs>>

TransformNext == LoadFft \/ FoldAndRotate \/ Butterflies \/ FinishFft
        \/ StoreCoefficients \/ RotateBack \/ UnfoldAndOverlap

TransformSpec == TransformInit /\ [][TransformNext]_tvars

-----------------------------------------------------------------------------
(* The FFT is the discrete Fourier transform (scaled by 1/nfft), the        *)
(* inverse its inverse unscaled: bit reversal, factors, strides and shared  *)
(* twiddles of every size the codec uses fit together (kiss_fft.rs).        *)
FftIsDft ==
    (IsFft /\ tphase = "done") =>
        LET n == Nfft(unit.shift)
            scale == IF unit.kind = "fft" THEN Inverse(n) ELSE 1
            turn(k) == IF unit.kind = "fft" THEN -(k * unit.pos) ELSE k * unit.pos
        IN  \A k \in 0..(n - 1) :
              At(buf, k) = c_scale(c_mul(<<1, 2>>, Cpx(CosOf(turn(k), n), SinOf(turn(k), n))), scale)

(* Every block's coefficients are the windowed cosine transform of its      *)
(* samples, whichever of the three loops folded them and however many short *)
(* blocks are interleaved (MdctLookup::forward).                            *)
BlockWindow(j, n2) == CASE j < Overlap -> Window(j)
                        [] j >= n2 -> Window(n2 + Overlap - 1 - j)
                        [] OTHER -> 1
ForwardIsMdct ==
    (~IsFft /\ tphase = "coded") =>
        \A q \in DOMAIN coefs :
            LET n2 == BlockLen
                b == (q - 1) % unit.blocks
                k == (q - 1) \div unit.blocks
                j == unit.pos - b * n2
                angle == (2 * j + 1 + 2 * n2 - Overlap) * (2 * k + 1)
            IN  coefs[q] = IF j \in 0..(n2 + Overlap - 1)
                           THEN (((BlockWindow(j, n2) * CosOf(angle, 4 * MdctLen(unit.shift))) % P)
                                    * Inverse(MdctLen(unit.shift) \div 4)) % P
                           ELSE 0

(* What forward took apart backward puts together: every sample that two    *)
(* blocks cover, or one covers outside its overlaps, comes back as it was,  *)
(* at its place, and no other sample leaks into it.                         *)
Reconstructs ==
    (~IsFft /\ tphase = "done") =>
        \A k \in Overlap..(unit.blocks * BlockLen - 1) : At(out, k) = At(Signal, k)

(* All three, for every size, block count and instruction set.              *)
TransformsExact == FftIsDft /\ ForwardIsMdct /\ Reconstructs
=============================================================================

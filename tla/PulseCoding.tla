----------------------------- MODULE PulseCoding -----------------------------
(***************************************************************************)
(* How a CELT band becomes pulses and pulses a number (pvq.rs): the band   *)
(* is rotated so that few pulses spread, k pulses are placed one by one    *)
(* where they fit best, the vector of pulses is numbered among all those   *)
(* with k pulses, and the decoder goes the way back.  The search is        *)
(* written five times (two and more dimensions, few pulses, long bands,    *)
(* AVX2) and the rotation twice; encoder and decoder may run on different  *)
(* machines.                                                               *)
(*                                                                         *)
(* Samples are small integers, compared exactly as the code compares       *)
(* floats; for the rotation, elements of the field of P elements, where    *)
(* a sine and a cosine exist.                                              *)
(***************************************************************************)
EXTENDS Field, FiniteSets

CONSTANTS Cosine, Sine,
          Bands,  \* bands to search: [x, k, isa, stride, spread, extra]
          Books   \* codebooks to number: [n, k]

L1(s) == Total([q \in DOMAIN s |-> Abs(s[q])])

ASSUME RotationAssumption == (Cosine * Cosine + Sine * Sine) % P = 1

-----------------------------------------------------------------------------
(* Numbering.  U(n, k) by rows; unext makes row n + 1 from row n.           *)
RECURSIVE unext(_, _)
unext(u, done) ==
    IF Len(done) = Len(u) THEN done
    ELSE unext(u, Append(done, u[Len(done) + 1] + u[Len(done)] + done[Len(done)]))
RECURSIVE RowOf(_, _)
RowOf(n, len) == IF n = 2 THEN [q \in 1..len |-> 2 * q - 1] ELSE unext(RowOf(n - 1, len), <<1>>)
compute_u(n, k) == CASE n = 0 -> IF k = 0 THEN 1 ELSE 0
                     [] n = 1 -> 1
                     [] OTHER -> IF k = 0 THEN 0 ELSE RowOf(n, k)[k]

(* The table holds row r for columns from r on, each row as long as 32 bits *)
(* last; a column past the end of its row would read the row behind.        *)
CELT_PVQ_U_ROW == <<0, 176, 351, 525, 698, 870, 1041, 1131, 1178, 1207, 1226, 1240, 1248, 1254, 1257>>
CELT_PVQ_U_LEN == 1272
UCell(n, k) == LET r == MinOf(n, k) c == MaxOf(n, k)
               IN  IF r >= Len(CELT_PVQ_U_ROW) THEN CELT_PVQ_U_LEN ELSE At(CELT_PVQ_U_ROW, r) + c
RowEnd(r) == IF r + 1 < Len(CELT_PVQ_U_ROW) THEN At(CELT_PVQ_U_ROW, r + 1) + r + 1 ELSE CELT_PVQ_U_LEN
OwnCell(n, k) == \/ UCell(n, k) >= CELT_PVQ_U_LEN
                 \/ UCell(n, k) < RowEnd(MinOf(n, k))

(* The part of the table that the books here need; computed, as the table    *)
(* was.                                                                      *)
TableSize == 13
UTable == SubSeq([n \in 1..TableSize |-> SubSeq([k \in 1..TableSize |-> compute_u(n - 1, k - 1)], 1, TableSize)],
                 1, TableSize)
celt_pvq_u_lookup(n, k) == At(At(UTable, MinOf(n, k)), MaxOf(n, k))
celt_pvq_v(n, k) == celt_pvq_u_lookup(n, k) + celt_pvq_u_lookup(n, k + 1)

(* icwrs: from the last sample to the first.                                 *)
RECURSIVE IndexFrom(_, _, _, _, _)
IndexFrom(y, n, j, k, i) ==
    IF j = 0 THEN i
    ELSE LET yj == At(y, j - 1)
             m == n - (j - 1)
             k1 == k + Abs(yj)
         IN  IndexFrom(y, n, j - 1, k1,
                       i + celt_pvq_u_lookup(m, k) + (IF yj < 0 THEN celt_pvq_u_lookup(m, k1 + 1) ELSE 0))
icwrs(n, y) ==
    IF n = 1 THEN (IF y[1] < 0 THEN 1 ELSE 0)
    ELSE IndexFrom(y, n, n - 1, Abs(y[n]), IF y[n] < 0 THEN 1 ELSE 0)

(* cwrsi: one sample after the other while more than two are left.  With     *)
(* more pulses than samples the row is read along k, otherwise along n.      *)
RECURSIVE StepDown(_, _, _)
StepDown(n, k, i) == IF k <= 0 \/ celt_pvq_u_lookup(n, k) <= i THEN k ELSE StepDown(n, k - 1, i)
Signed(v, s) == IF s THEN -v ELSE v
RECURSIVE cwrsi(_, _, _)
cwrsi(n, k, i) ==
    IF n = 1 THEN <<Signed(k, i = 1)>>
    ELSE IF n = 2 THEN
        LET neg == i >= 2 * k + 1
            i1 == IF neg THEN i - (2 * k + 1) ELSE i
            k1 == (i1 + 1) \div 2
            i2 == IF k1 > 0 THEN i1 - (2 * k1 - 1) ELSE i1
        IN  <<Signed(k - k1, neg), Signed(k1, i2 = 1)>>
    ELSE LET next == celt_pvq_u_lookup(n, k + 1)
             zero == k < n /\ celt_pvq_u_lookup(k, n) <= i /\ i < next
             neg == ~zero /\ i >= next
             i1 == IF neg THEN i - next ELSE i
             k1 == CASE zero -> k
                     [] k >= n -> IF celt_pvq_u_lookup(n, n) > i1 THEN StepDown(n, n - 1, i1)
                                  ELSE StepDown(n, k, i1)
                     [] OTHER -> StepDown(n, k - 1, i1)
         IN  <<Signed(k - k1, neg)>> \o cwrsi(n - 1, k1, i1 - celt_pvq_u_lookup(n, k1))

-----------------------------------------------------------------------------
(* Rotation.  One pass at a distance: forward over all pairs, backward over *)
(* all but the last stride; NEON does four pairs of the forward pass at once *)
(* from values read before any of them is written.                          *)
Turn(x, i, stride, c, s) ==
    [x EXCEPT ![i + stride + 1] = (c * At(x, i + stride) + s * At(x, i)) % P,
              ![i + 1] = (c * At(x, i) - s * At(x, i + stride)) % P]
RECURSIVE TurnUp(_, _, _, _, _, _)
TurnUp(x, i, to, stride, c, s) ==
    IF i >= to THEN x ELSE TurnUp(Turn(x, i, stride, c, s), i + 1, to, stride, c, s)
RECURSIVE TurnDown(_, _, _, _, _)
TurnDown(x, i, stride, c, s) ==
    IF i < 0 THEN x ELSE TurnDown(Turn(x, i, stride, c, s), i - 1, stride, c, s)
exp_rotation1_scalar(x, stride, c, s) ==
    TurnDown(TurnUp(x, 0, Len(x) - stride, stride, c, s), Len(x) - 2 * stride - 1, stride, c, s)

TurnFour(x, i, stride, c, s) ==
    [q \in DOMAIN x |->
        CASE q - 1 \in (i + stride)..(i + stride + 3) -> (c * x[q] + s * x[q - stride]) % P
          [] q - 1 \in i..(i + 3) -> (c * x[q] - s * x[q + stride]) % P
          [] OTHER -> x[q]]
RECURSIVE TurnFours(_, _, _, _, _)
TurnFours(x, i, stride, c, s) ==
    IF i + 4 > Len(x) - stride THEN TurnUp(x, i, Len(x) - stride, stride, c, s)
    ELSE TurnFours(TurnFour(x, i, stride, c, s), i + 4, stride, c, s)
exp_rotation1_neon(x, stride, c, s) ==
    IF stride < 4 THEN exp_rotation1_scalar(x, stride, c, s)
    ELSE TurnDown(TurnFours(x, 0, stride, c, s), Len(x) - 2 * stride - 1, stride, c, s)
exp_rotation1(x, stride, c, s, isa) ==
    IF isa = "neon" THEN exp_rotation1_neon(x, stride, c, s) ELSE exp_rotation1_scalar(x, stride, c, s)

(* exp_rotation: block by block; the second distance is about the square    *)
(* root of a block's length.                                                *)
RECURSIVE Stride2From(_, _, _)
Stride2From(s2, length, stride) ==
    IF (s2 * s2 + s2) * stride + stride \div 4 < length THEN Stride2From(s2 + 1, length, stride) ELSE s2
Stride2(length, stride) == IF length >= 8 * stride THEN Stride2From(1, length, stride) ELSE 0

RotatedBlock(x, dir, s2, isa) ==
    IF dir < 0
    THEN LET x1 == IF s2 # 0 THEN exp_rotation1(x, s2, Sine, Cosine, isa) ELSE x
         IN  exp_rotation1(x1, 1, Cosine, Sine, isa)
    ELSE LET x1 == exp_rotation1(x, 1, Cosine, -Sine, isa)
         IN  IF s2 # 0 THEN exp_rotation1(x1, s2, Sine, -Cosine, isa) ELSE x1
RECURSIVE RotatedFrom(_, _, _, _, _, _)
RotatedFrom(x, i, dir, stride, s2, isa) ==
    IF i = stride THEN <<>>
    ELSE LET block == Len(x) \div stride
         IN  RotatedBlock(SubSeq(x, i * block + 1, (i + 1) * block), dir, s2, isa)
                 \o RotatedFrom(x, i + 1, dir, stride, s2, isa)
exp_rotation(x, dir, stride, k, spread, isa) ==
    IF 2 * k >= Len(x) \/ spread <= 0 \/ spread > 3 THEN x
    ELSE LET done == RotatedFrom(x, 0, dir, stride, Stride2(Len(x), stride), isa)
         IN  done \o SubSeq(x, Len(done) + 1, Len(x))

(* Bit i when block i has a pulse; the set of those i.                       *)
extract_collapse_mask(y, b) ==
    IF b <= 1 THEN {0}
    ELSE LET n0 == Len(y) \div b
         IN  {i \in 0..(b - 1) : \E j \in 0..(n0 - 1) : At(y, i * n0 + j) # 0}

-----------------------------------------------------------------------------
(* Search.  Which of the searches a band goes to.                            *)
Magnitudes(x) == [q \in DOMAIN x |-> Abs(x[q])]
SearchOf(b) ==
    LET n == Len(b.x)
    IN  IF b.extra >= 2 THEN IF n = 2 THEN "n2" ELSE "refine"
        ELSE IF b.k = 1 THEN "largest"
        ELSE IF n = 2 THEN "n2"
        ELSE IF n >= 32 THEN "fast_select"
        ELSE IF b.isa = "avx2" /\ b.k > 4 THEN "avx2"
        ELSE IF b.k <= 4 /\ b.k <= n \div 2 THEN "small_k"
        ELSE "scalar"

(* One pulse: its sample has the largest xy^2 / yy afterwards.  Den and Num  *)
(* are what the code compares.                                               *)
Num(a, xy, i) == (xy + At(a, i)) * (xy + At(a, i))
Den(y, yy, i) == yy + 2 * At(y, i)
Better(a, y, xy, yy, i, best) == Den(y, yy, best) * Num(a, xy, i) > Den(y, yy, i) * Num(a, xy, best)

RECURSIVE BestFrom(_, _, _, _, _, _)
BestFrom(a, y, xy, yy, i, best) ==
    IF i >= Len(a) THEN best
    ELSE BestFrom(a, y, xy, yy, i + 1, IF Better(a, y, xy, yy, i, best) THEN i ELSE best)

(* pvq_search_small_k looks at two samples per turn, and at the last alone.  *)
\* Looks at pairs only.
RECURSIVE BestOfPairs(_, _, _, _, _, _)
BestOfPairs(a, y, xy, yy, i, best) ==
    IF i + 1 >= Len(a) THEN best
    ELSE LET b1 == IF Better(a, y, xy, yy, i, best) THEN i ELSE best
             b2 == IF Better(a, y, xy, yy, i + 1, b1) THEN i + 1 ELSE b1
         IN  BestOfPairs(a, y, xy, yy, i + 2, b2)
RECURSIVE BestByTwo(_, _, _, _, _, _)
BestByTwo(a, y, xy, yy, i, best) ==
    IF i + 1 < Len(a)
    THEN LET b1 == IF Better(a, y, xy, yy, i, best) THEN i ELSE best
             b2 == IF Better(a, y, xy, yy, i + 1, b1) THEN i + 1 ELSE b1
         IN  BestByTwo(a, y, xy, yy, i + 2, b2)
    ELSE IF i < Len(a) /\ Better(a, y, xy, yy, i, best) THEN i ELSE best

(* pvq_search_avx2 divides, takes the maximum over whole vectors of eight    *)
(* and the rest, then the first lane that equals it.                         *)
BestByScore(a, y, xy, yy) ==
    LET n == Len(a)
        NotBelow(i, j) == Num(a, xy, i) * Den(y, yy, j) >= Num(a, xy, j) * Den(y, yy, i)
        n8 == 8 * (n \div 8)
        best == CHOOSE i \in 0..(n - 1) :
                    /\ \A j \in 0..(n8 - 1) \cup n8..(n - 1) : NotBelow(i, j)
                    /\ \A j \in 0..(i - 1) : ~NotBelow(j, i)
    IN  best

Best(search, a, y, xy, yy) ==
    CASE search = "small_k" -> BestByTwo(a, y, xy, yy, 1, 0)
      [] search = "avx2" -> BestByScore(a, y, xy, yy)
      [] OTHER -> BestFrom(a, y, xy, yy, 1, 0)

(* Many pulses for few samples: most are placed at once, in proportion,      *)
(* rounded down with 4/5 of a pulse in hand.                                 *)
Projects(search, a, k) == search # "small_k" /\ k > Len(a) \div 2 /\ L1(a) > 0
Projection(a, k) == [q \in DOMAIN a |-> (a[q] * (5 * k + 4)) \div (5 * L1(a))]

WithSigns(y, x) == [q \in DOMAIN y |-> IF x[q] < 0 THEN -y[q] ELSE y[q]]

pvq_search_n2(x, k) ==
    LET sum == L1(x)
        y0 == IF sum = 0 THEN k ELSE (2 * k * Abs(x[1]) + sum) \div (2 * sum)
    IN  IF sum = 0 THEN <<k, 0>> ELSE WithSigns(<<y0, k - y0>>, x)
Largest(a) == CHOOSE i \in 0..(Len(a) - 1) : /\ \A j \in 0..(Len(a) - 1) : At(a, i) >= At(a, j)
                                           /\ \A j \in 0..(i - 1) : At(a, j) < At(a, i)

-----------------------------------------------------------------------------
(* pvq_search_qext: the pulses, and `up` times as many that refine them.     *)
(* op_pvq_refine rounds, keeps each within a margin of the coarse ones, and   *)
(* moves the samples that were rounded worst until the sum is right.         *)
Rounded(a, K) == [q \in DOMAIN a |-> (2 * K * a[q] + L1(a)) \div (2 * L1(a))]
NoCoarse == <<>>
Within(iy, iy0, up, margin, q) == iy0 = NoCoarse \/ Abs(iy[q] - up * iy0[q]) < margin - 1
RECURSIVE Adjusted(_, _, _, _, _, _, _)
Adjusted(iy, a, K, iy0, up, margin, to_place) ==
    IF to_place = 0 THEN iy
    ELSE LET dir == IF to_place > 0 THEN 1 ELSE -1
             can == {q \in DOMAIN iy : Within(iy, iy0, up, margin, q) /\ (dir < 0 => iy[q] # 0)}
             Rest(q) == K * a[q] - L1(a) * iy[q]
             best == IF can = {} THEN 1
                     ELSE CHOOSE q \in can : /\ \A r \in can : dir * Rest(q) >= dir * Rest(r)
                                             /\ \A r \in can : r < q => dir * Rest(r) < dir * Rest(q)
         IN  Adjusted([iy EXCEPT ![best] = @ + dir], a, K, iy0, up, margin, to_place - dir)
Failed == <<>>
op_pvq_refine(a, iy0, K, up, margin) ==
    LET r == Rounded(a, K)
        iy == [q \in DOMAIN a |-> IF iy0 = NoCoarse THEN r[q]
                                   ELSE Clamp(r[q], up * iy0[q] - (margin - 1), up * iy0[q] + (margin - 1))]
    IN  IF Abs(Total(iy) - K) > 32 THEN Failed
        ELSE Adjusted(iy, a, K, iy0, up, margin, K - Total(iy))

Unit(n, k) == [q \in 1..n |-> IF q = 1 THEN k ELSE 0]
Up(extra) == 2^extra - 1
pvq_search_qext(x, k, extra) ==
    LET a == Magnitudes(x)
        n == Len(x)
        up == Up(extra)
        y == IF L1(a) = 0 THEN Unit(n, k) ELSE op_pvq_refine(a, NoCoarse, k, 1, k + 1)
        up_y == IF L1(a) = 0 \/ y = Failed THEN Unit(n, up * k) ELSE op_pvq_refine(a, y, up * k, up, up)
        ok == y # Failed /\ up_y # Failed
    IN  IF ok THEN [y |-> WithSigns(y, x), up_y |-> WithSigns(up_y, x)]
        ELSE [y |-> WithSigns(Unit(n, k), x), up_y |-> WithSigns(Unit(n, up * k), x)]

(* ec_enc_refine: a flag, then the refinement in the bits that are left: the *)
(* pairs <<value, bits>> written.                                            *)
ec_enc_refine(refine, up, extra) ==
    LET half == up \div 2
    IN  IF Abs(refine) > half THEN <<<<Abs(refine) - half - 1, extra - 1>>>>
        ELSE <<<<refine + half, extra>>>>

-----------------------------------------------------------------------------
VARIABLES piece, stage, y, to_place, yy, xy, fl

uvars == <<piece, stage, y, to_place, yy, xy, fl>>

IsBook == piece.kind = "book"
Search == SearchOf(piece)
BandLen == Len(piece.x)

PulseInit ==
    /\ \/ \E b \in Bands : piece = [kind |-> "band", x |-> b.x, k |-> b.k, isa |-> b.isa, stride |-> b.stride,
                                  spread |-> b.spread, extra |-> b.extra] /\ stage = "search"
       \/ \E b \in Books : piece = [kind |-> "book", n |-> b.n, k |-> b.k] /\ stage = "number"
    /\ y = <<>> /\ to_place = 0 /\ yy = 0 /\ xy = 0 /\ fl = 0

StartSearch ==
    /\ stage = "search" /\ y = <<>>
    /\ Search \in {"small_k", "scalar", "avx2", "fast_select"}
    /\ \E a \in {Magnitudes(piece.x)} :
       \E y0 \in {IF Projects(Search, a, piece.k) THEN Projection(a, piece.k) ELSE Zeros(BandLen)} :
         /\ y' = y0
         /\ to_place' = piece.k - Total(y0)
         /\ yy' = Total([q \in DOMAIN y0 |-> y0[q] * y0[q]])
         /\ xy' = Total([q \in DOMAIN y0 |-> y0[q] * a[q]])
    /\ UNCHANGED <<piece, stage, fl>>

AddPulse ==
    /\ stage = "search" /\ y # <<>> /\ to_place > 0
    /\ \E a \in {Magnitudes(piece.x)} : \E best \in {Best(Search, a, y, xy, yy + 1)} :
         /\ y' = [y EXCEPT ![best + 1] = @ + 1]
         /\ xy' = xy + At(a, best)
         /\ yy' = yy + 1 + 2 * At(y, best)
    /\ to_place' = to_place - 1
    /\ UNCHANGED <<piece, stage, fl>>

GiveSigns ==
    /\ stage = "search" /\ y # <<>> /\ to_place = 0
    /\ y' = WithSigns(y, piece.x)
    /\ stage' = "found"
    /\ UNCHANGED <<piece, to_place, yy, xy, fl>>

SearchDirect ==
    /\ stage = "search" /\ Search \in {"n2", "largest", "refine"}
    /\ y' = CASE Search = "n2" -> pvq_search_n2(piece.x, piece.k)
               [] Search = "largest" -> LET best == Largest(Magnitudes(piece.x)) IN
                      [q \in 1..BandLen |-> IF q - 1 # best THEN 0 ELSE IF piece.x[q] >= 0 THEN 1 ELSE -1]
               [] Search = "refine" -> pvq_search_qext(piece.x, piece.k, piece.extra).y
    /\ stage' = "found"
    /\ UNCHANGED <<piece, to_place, yy, xy, fl>>

(* encode_pulses and decode_pulses, for one number of the book after another. *)
Number ==
    /\ stage = "number"
    /\ fl < celt_pvq_v(piece.n, piece.k)
    /\ y' = cwrsi(piece.n, piece.k, fl)
    /\ fl' = fl + 1
    /\ UNCHANGED <<piece, stage, to_place, yy, xy>>

PulseNext == StartSearch \/ AddPulse \/ GiveSigns \/ SearchDirect \/ Number

PulseSpec == PulseInit /\ [][PulseNext]_uvars

-----------------------------------------------------------------------------
(* With extra bits, the fine pulses keep their number and every refinement   *)
(* fits the bits it is written with (alg_quant_qext, ec_enc_refine).         *)
RefinementFits ==
    (stage = "found" /\ Search = "refine") =>
        LET r == pvq_search_qext(piece.x, piece.k, piece.extra)
            up == Up(piece.extra)
        IN  /\ L1(r.up_y) = up * piece.k
            /\ \A q \in 1..(BandLen - 1) : \A e \in DOMAIN ec_enc_refine(r.up_y[q] - up * r.y[q], up, piece.extra) :
                 LET w == ec_enc_refine(r.up_y[q] - up * r.y[q], up, piece.extra)[e]
                 IN  w[1] \in 0..(2^w[2] - 1)

(* Every search, whichever the length, the pulse count and the processor     *)
(* choose, places all k pulses with the signs of the samples, and two        *)
(* processors the same ones (pvq_search and its kernels); while it runs, the *)
(* energy it ranks by is that of the pulses placed.                          *)
SearchesAgree ==
    ~IsBook =>
        /\ RefinementFits
        /\ (stage = "search" /\ y # <<>>) => yy = Total([q \in DOMAIN y |-> y[q] * y[q]])
        /\ stage = "found" =>
             /\ L1(y) = piece.k
             /\ \A q \in DOMAIN y : y[q] * piece.x[q] >= 0
             /\ (Search \in {"small_k", "avx2"}) =>
                  LET a == Magnitudes(piece.x)
                      RECURSIVE Greedy(_, _, _, _)
                      Greedy(v, e, c, l) ==
                          IF l = 0 THEN v
                          ELSE LET b == BestFrom(a, v, c, e + 1, 1, 0)
                               IN  Greedy([v EXCEPT ![b + 1] = @ + 1], e + 1 + 2 * At(v, b), c + At(a, b), l - 1)
                      v0 == IF piece.k > BandLen \div 2 /\ L1(a) > 0 THEN Projection(a, piece.k) ELSE Zeros(BandLen)
                  IN  y = WithSigns(Greedy(v0, Total([q \in DOMAIN v0 |-> v0[q] * v0[q]]),
                                           Total([q \in DOMAIN v0 |-> v0[q] * a[q]]), piece.k - Total(v0)), piece.x)

(* The numbers below V(n, k) and the vectors of k pulses are the same thing: *)
(* cwrsi gives each number a vector and icwrs that vector its number, with a *)
(* table that holds what compute_u computes.                                 *)
NumbersAreVectors ==
    IsBook =>
        /\ fl > 0 => /\ L1(y) = piece.k
                     /\ Len(y) = piece.n
                     /\ icwrs(piece.n, y) = fl - 1
        /\ \A n \in 2..piece.n : celt_pvq_u_lookup(n, piece.k) = compute_u(n, piece.k)

(* What the encoder's rotation did the decoder's undoes, block by block and  *)
(* at both distances, with or without NEON on either side.                   *)
RotationUndone ==
    (stage = "found") =>
        LET x == [q \in DOMAIN piece.x |-> piece.x[q] % P]
            there(isa) == exp_rotation(x, 1, piece.stride, piece.k, piece.spread, isa)
        IN  \A back \in {"scalar", "neon"} :
              exp_rotation(there(piece.isa), -1, piece.stride, piece.k, piece.spread, back) = x

(* The shape of a band survives the way from samples to pulses, numbers and  *)
(* back (pvq.rs).                                                            *)
PulsesExact == SearchesAgree /\ NumbersAreVectors /\ RotationUndone
=============================================================================

------------------------------ MODULE CeltEnergy ------------------------------
(***************************************************************************)
(* The loudness of the bands (quant_bands.rs): coarse steps predicted from *)
(* the last frame and the band below, then fine bits, then left-over bits; *)
(* and the Laplace code of the coarse steps (range_coder.rs).              *)
(*                                                                         *)
(* A coder rc is its symbols with their costs in 1/8 bits, the size of its *)
(* buffer, and, when reading, the place, the value last read, and whether  *)
(* every question asked so far was the one the writer answered.  Energies  *)
(* are in 1/1024 of a doubling; products are rounded the same in both      *)
(* directions, as the code evaluates the same expressions in both.         *)
(***************************************************************************)
EXTENDS CeltMode, Arrays, FiniteSets

ONE == 1024
PRED_COEF == <<29440, 26112, 21248, 16384>>
BETA_COEF == <<30147, 22282, 12124, 6554>>
BETA_INTRA == 4915
Times(coef, e) == (coef * e) \div 32768

E_PROB_MODEL ==
    <<72, 127, 65, 129, 66, 128, 65, 128, 64, 128, 62, 128, 64, 128, 64, 128, 92, 78, 92,
      79, 92, 78, 90, 79, 116, 41, 115, 40, 114, 40, 132, 26, 132, 26, 145, 17, 161, 12,
      176, 10, 177, 11, 24, 179, 48, 138, 54, 135, 54, 132, 53, 134, 56, 133, 55, 132, 55,
      132, 61, 114, 70, 96, 74, 88, 75, 88, 87, 74, 89, 66, 91, 67, 100, 59, 108, 50, 120,
      40, 122, 37, 97, 43, 78, 50, 83, 78, 84, 81, 88, 75, 86, 74, 87, 71, 90, 73, 93, 74,
      93, 74, 109, 40, 114, 36, 117, 34, 117, 34, 143, 17, 145, 18, 146, 19, 162, 12, 165,
      10, 178, 7, 189, 6, 190, 8, 177, 9, 23, 178, 54, 115, 63, 102, 66, 98, 69, 99, 74,
      89, 71, 91, 73, 91, 78, 89, 86, 80, 92, 66, 93, 64, 102, 59, 103, 60, 104, 60, 117,
      52, 123, 44, 138, 35, 133, 31, 97, 38, 77, 45, 61, 90, 93, 60, 105, 42, 107, 41,
      110, 45, 116, 38, 113, 38, 112, 38, 124, 26, 132, 27, 136, 19, 140, 20, 155, 14,
      159, 16, 158, 18, 170, 13, 177, 10, 187, 8, 192, 6, 175, 9, 159, 10, 21, 178, 59,
      110, 71, 86, 75, 85, 84, 83, 91, 66, 88, 73, 87, 72, 92, 75, 98, 72, 105, 58, 107,
      54, 115, 52, 114, 55, 112, 56, 129, 51, 132, 40, 150, 33, 140, 29, 98, 35, 77, 42,
      42, 121, 96, 66, 108, 43, 111, 40, 117, 44, 123, 32, 120, 36, 119, 33, 127, 33, 134,
      34, 139, 21, 147, 23, 152, 20, 158, 25, 154, 26, 166, 21, 173, 16, 184, 13, 184, 10,
      150, 13, 139, 15, 22, 178, 63, 114, 74, 82, 84, 83, 92, 82, 103, 62, 96, 72, 96, 67,
      101, 73, 107, 72, 113, 55, 118, 52, 125, 52, 118, 52, 117, 55, 135, 49, 137, 39,
      157, 32, 145, 29, 97, 33, 77, 40>>
prob_model(lm, intra, k) == E_PROB_MODEL[84 * lm + (IF intra THEN 42 ELSE 0) + k + 1]

-----------------------------------------------------------------------------
(* The coder as its callers see it.                                         *)
TellBits(rc) == (rc.frac + 7) \div 8
TotalBits(rc) == 8 * rc.bytes

PutSym(rc, kind, ctx, value, cost) ==
    [rc EXCEPT !.frac = @ + cost, !.syms = Append(@, <<kind, ctx, value, cost>>)]

(* A question nobody answered, or another one, is answered with 0.          *)
AskSym(rc, kind, ctx) ==
    IF /\ rc.ok
       /\ rc.place < Len(rc.syms)
       /\ rc.syms[rc.place + 1][1] = kind
       /\ rc.syms[rc.place + 1][2] = ctx
    THEN [rc EXCEPT !.place = @ + 1, !.got = rc.syms[rc.place + 1][3],
                    !.frac = @ + rc.syms[rc.place + 1][4]]
    ELSE [rc EXCEPT !.ok = FALSE, !.got = 0]

FALSE_COST == <<8, 3, 2, 1, 0, 0>>
EncBit(rc, logp, b) ==
    PutSym(rc, "bit", logp, IF b THEN 1 ELSE 0, IF b THEN 8 * logp ELSE IF logp > 6 THEN 0 ELSE FALSE_COST[logp])
DecBit(rc, logp) == AskSym(rc, "bit", logp)

EncRaw(rc, v, n) == PutSym(rc, "raw", n, v, 8 * n)
DecRaw(rc, n) == AskSym(rc, "raw", n)

(* laplace_encode: the interval <<low, width, value coded>> of 2^15 that    *)
(* stands for v; what is too improbable is coded as the nearest that is not.*)
LEVELS == 40     \* enough for every width to die out: see TablesAssumption
get_freq1(fs0, decay) == ((32736 - fs0) * (16384 - decay)) \div 32768

Decaying(t, decay) == IF t[2] = 0 THEN t ELSE <<t[1] + 2 * t[2] + 2, (2 * t[2] * decay) \div 32768, t[3] + 1>>
Decays(fs0, decay, n) ==
    LET t[k \in 0..n] == IF k = 0 THEN <<fs0, get_freq1(fs0, decay), 1>> ELSE Decaying(t[k - 1], decay) IN t[n]

laplace_encode(v, fs0, decay) ==
    IF v = 0 THEN <<0, fs0, 0>>
    ELSE \* binds the walk over the decaying widths
         LET tail == Decays(fs0, decay, Abs(v) - 1)
             fl == tail[1]
             s == IF v < 0 THEN -1 ELSE 0
             di == MinOf(Abs(v) - tail[3], ((32768 - fl - s) \div 2) - 1)
             low == fl + 2 * di + 1 + s
         IN  IF tail[2] = 0 THEN <<low, MinOf(1, 32768 - low), IF v < 0 THEN -(tail[3] + di) ELSE tail[3] + di>>
             ELSE <<IF v > 0 THEN fl + tail[2] + 1 ELSE fl, tail[2] + 1, v>>

(* The decoder goes down the same widths until fm is not beyond them.       *)
Narrowed(t, decay) == <<t[1] + 2 * t[2], (((2 * t[2] - 2) * decay) \div 32768) + 1, t[3] + 1>>
LaplaceWidths(fs0, decay, n) ==
    LET t[k \in 0..n] == IF k = 0 THEN <<fs0, get_freq1(fs0, decay) + 1, 1>> ELSE Narrowed(t[k - 1], decay) IN t[n]
Beyond(t, fm) == t[2] > 1 /\ fm >= t[1] + 2 * t[2]
Descent(fm, fs0, decay) ==
    CHOOSE n \in 0..LEVELS : /\ ~Beyond(LaplaceWidths(fs0, decay, n), fm)
                            /\ \A k \in 0..(n - 1) : Beyond(LaplaceWidths(fs0, decay, k), fm)

(* laplace_decode: <<low, width, value>> of the interval fm lies in.        *)
laplace_decode(fm, fs0, decay) ==
    IF fm < fs0 THEN <<0, fs0, 0>>
    ELSE LET tail == LaplaceWidths(fs0, decay, Descent(fm, fs0, decay))
             di == IF tail[2] <= 1 THEN (fm - tail[1]) \div 2 ELSE 0
             fl == tail[1] + 2 * di
             fs == tail[2]
         IN  IF fm < fl + fs THEN <<fl, MinOf(fs, 32768 - fl), -(tail[3] + di)>>
             ELSE <<fl + fs, MinOf(fs, 32768 - fl - fs), tail[3] + di>>

Log8(fs) == 8 * Cardinality({k \in 1..15 : Pow2(k) <= fs})

EncLaplace(rc, v, fs0, decay) ==
    LET code == laplace_encode(v, fs0, decay)
    IN  PutSym(rc, "laplace", <<fs0, decay>>, code, 120 - Log8(code[2]))

(* The value, provided the interval read is the interval written.           *)
DecLaplace(rc, fs0, decay) ==
    LET r == AskSym(rc, "laplace", <<fs0, decay>>)
        read == laplace_decode(r.got[1] + r.got[2] - 1, fs0, decay)
    IN  IF ~r.ok THEN r
        ELSE [r EXCEPT !.got = read[3],
                       !.ok = read[1] = r.got[1] /\ read[2] = r.got[2]]
-----------------------------------------------------------------------------
(* Coarse energy.  p: [start, end, channels, lm, intra, budget, max_decay]. *)
coef(p) == IF p.intra THEN 0 ELSE PRED_COEF[p.lm + 1]
beta(p) == IF p.intra THEN BETA_INTRA ELSE BETA_COEF[p.lm + 1]
Fs(p, j) == prob_model(p.lm, p.intra, 2 * MinOf(j, 20)) * 128
Decay(p, j) == prob_model(p.lm, p.intra, 2 * MinOf(j, 20) + 1) * 64

(* Every context's widths die out before the end of the code, which TLC     *)
(* evaluates on the table: any step is coded inside it.                     *)
LaplaceContext(fs0, decay) ==
    /\ fs0 \in Nat /\ 1 <= fs0 /\ fs0 <= 32736 /\ decay \in Nat /\ decay <= 16384
    /\ Decays(fs0, decay, LEVELS)[2] = 0 /\ Decays(fs0, decay, LEVELS)[1] <= 32766
ASSUME TablesAssumption ==
    \A lm \in 0..3, intra \in BOOLEAN, j \in 0..20 :
        LaplaceContext(prob_model(lm, intra, 2 * j) * 128, prob_model(lm, intra, 2 * j + 1) * 64)

(* How far a band may fall at once.                                         *)
Fall(p, x, was, qi) ==
    LET bound == MaxOf(was, -28 * ONE) - p.max_decay
    IN  IF qi < 0 /\ x < bound THEN MinOf(0, qi + MaxOf(0, Quot(bound - x, ONE))) ELSE qi

(* Which steps may still be coded when bits are short.                      *)
Rationed(p, j, bits_left, qi) ==
    LET top == IF j # p.start /\ bits_left < 24 THEN MinOf(qi, 1) ELSE qi
    IN  IF j # p.start /\ bits_left < 16 THEN MaxOf(top, -1) ELSE top

(* The step is coded in the largest of four ways that fits: <<rc, step>>.   *)
EncStep(rc, p, j, qi) ==
    IF TellBits(rc) + 15 <= p.budget
    THEN LET r == EncLaplace(rc, qi, Fs(p, j), Decay(p, j))
         IN  <<r, r.syms[Len(r.syms)][3][3]>>
    ELSE IF TellBits(rc) + 2 <= p.budget
    THEN LET q == Clamp(qi, -1, 1) IN <<PutSym(rc, "small", 2, q, IF q = 0 THEN 8 ELSE 16), q>>
    ELSE IF TellBits(rc) < p.budget
    THEN LET q == MinOf(qi, 0) IN <<EncBit(rc, 1, q # 0), q>>
    ELSE <<rc, -1>>

DecStep(rc, p, j) ==
    IF p.budget - TellBits(rc) >= 15 THEN DecLaplace(rc, Fs(p, j), Decay(p, j))
    ELSE IF p.budget - TellBits(rc) >= 2 THEN AskSym(rc, "small", 2)
    ELSE IF p.budget - TellBits(rc) >= 1 THEN LET r == DecBit(rc, 1) IN [r EXCEPT !.got = -r.got]
    ELSE [rc EXCEPT !.got = -1]

(* One band of one channel, coded: the energies s.e, the prediction from    *)
(* below s.prev, the errors left, the badness and the coder move on.        *)
StepTo(s, p, c, j, f, qi0, coded) ==
    LET q == ONE * coded[2]
    IN  [s EXCEPT !.rc = coded[1],
                  !.bad = @ + Abs(qi0 - coded[2]),
                  !.error[c][j + 1] = f - q,
                  !.e[c][j + 1] = Times(coef(p), MaxOf(@, -9 * ONE)) + s.prev[c] + q,
                  !.prev[c] = @ + q - Times(beta(p), q)]

CoarseBand(s, p, x, c, j) ==
    LET f == x[c][j + 1] - Times(coef(p), MaxOf(s.e[c][j + 1], -9 * ONE)) - s.prev[c]
        qi0 == (f + 512) \div ONE
        left == p.budget - TellBits(s.rc) - 3 * p.channels * (p.end - j)
    IN  StepTo(s, p, c, j, f, qi0,
               EncStep(s.rc, p, j, Rationed(p, j, left, Fall(p, x[c][j + 1], s.e[c][j + 1], qi0))))

UncoarseBand(s, p, c, j, r) ==
    LET q == ONE * r.got
    IN  [s EXCEPT !.rc = r,
                  !.e[c][j + 1] = Times(coef(p), MaxOf(@, -9 * ONE)) + s.prev[c] + q,
                  !.prev[c] = @ + q - Times(beta(p), q)]

(* All bands, each for all channels: the k-th step.                         *)
ChannelOf(p, k) == 1 + (k % p.channels)
BandOf(p, k) == p.start + (k \div p.channels)
Steps(p) == p.channels * (p.end - p.start)

CoarseStep(s, p, x, k) == CoarseBand(s, p, x, ChannelOf(p, k), BandOf(p, k))
CoarseFrom(s, p, x, n) == LET t[k \in 0..n] == IF k = 0 THEN s ELSE CoarseStep(t[k - 1], p, x, k - 1) IN t[n]

(* Before them, whether the frame is predicted from the last.               *)
Intra(rc, p) == IF TellBits(rc) + 3 <= p.budget THEN EncBit(rc, 3, p.intra) ELSE rc
CoarseStart(rc, p, e) ==
    [rc |-> Intra(rc, p), e |-> e, prev |-> <<0, 0>>, bad |-> 0, error |-> <<Zeros(NbBands), Zeros(NbBands)>>]
quant_coarse_energy_impl(rc, p, x, e) == CoarseFrom(CoarseStart(rc, p, e), p, x, Steps(p))

UncoarseStep(s, p, k) == UncoarseBand(s, p, ChannelOf(p, k), BandOf(p, k), DecStep(s.rc, p, BandOf(p, k)))
UncoarseFrom(s, p, n) == LET t[k \in 0..n] == IF k = 0 THEN s ELSE UncoarseStep(t[k - 1], p, k - 1) IN t[n]

unquant_coarse_energy(rc, p, e) == UncoarseFrom([rc |-> rc, e |-> e, prev |-> <<0, 0>>], p, Steps(p))

(* How far the frame is from the last one: squared 1/8 doublings.          *)
Distance(p, x, e, k) == (x[ChannelOf(p, k)][BandOf(p, k) + 1] - e[ChannelOf(p, k)][BandOf(p, k) + 1]) \div 128
loss_distortion(p, x, e) ==
    MinOf(200 * 64, Total([k \in 1..Steps(p) |-> Distance(p, x, e, k - 1) * Distance(p, x, e, k - 1)]))

(* With prediction, without, or both and the better: the result of the      *)
(* winner and the distortion remembered.                                    *)
Takes(both, intra, with, without) ==
    IF intra THEN TRUE
    ELSE /\ both
         /\ \/ without.bad < with.bad
            \/ without.bad = with.bad /\ with.rc.frac > without.rc.frac

Outcome(p, delayed, s, intra, lost) ==
    [s |-> s, intra |-> intra,
     delayed |-> IF intra THEN lost ELSE Times(Times(PRED_COEF[p.lm + 1], PRED_COEF[p.lm + 1]), delayed) + lost]

(* Slip: the energies of the pass that lost are kept. *)
ChosenKeepsEnergies(p, delayed, both, intra, with, without, lost) ==
    IF Takes(both, intra, with, without) THEN Outcome(p, delayed, [without EXCEPT !.e = with.e], TRUE, lost)
    ELSE Outcome(p, delayed, with, FALSE, lost)

Chosen(p, delayed, both, intra, with, without, lost) ==
    IF Takes(both, intra, with, without) THEN Outcome(p, delayed, without, TRUE, lost)
    ELSE Outcome(p, delayed, with, FALSE, lost)

quant_coarse_energy(rc, p, x, e, delayed, two_pass, force) ==
    LET room == TellBits(rc) + 3 <= p.budget
        weary == ~two_pass /\ delayed > 128 * Steps(p) /\ (p.budget \div 8) > Steps(p)
        params(intra) == [p EXCEPT !.intra = intra]
    IN  Chosen(p, delayed, two_pass /\ room, room /\ (force \/ weary),
               quant_coarse_energy_impl(rc, params(FALSE), x, e),
               quant_coarse_energy_impl(rc, params(TRUE), x, e),
               loss_distortion(p, x, e))
-----------------------------------------------------------------------------
(* Fine energy: bits[j + 1] more bits of each error.                        *)
FineOffset(q, bits) == ((2 * q + 1) * 512) \div Pow2(bits) - 512
FineIndex(error, n) == Clamp(((error + 512) * Pow2(n)) \div ONE, 0, Pow2(n) - 1)

(* n bits of value q correct band j of channel c: at the encoder, and r as  *)
(* read by the decoder.                                                     *)
Refined(s, c, j, q, n, offset) ==
    [s EXCEPT !.rc = EncRaw(@, q, n), !.e[c][j + 1] = @ + offset, !.error[c][j + 1] = @ - offset]
Unrefined(s, c, j, r, offset) == [s EXCEPT !.rc = r, !.e[c][j + 1] = @ + offset]

FineBand(s, c, j, q, n) == Refined(s, c, j, q, n, FineOffset(q, n))
FineStep(s, p, bits, k) ==
    IF bits[BandOf(p, k) + 1] <= 0 THEN s
    ELSE FineBand(s, ChannelOf(p, k), BandOf(p, k),
                  FineIndex(s.error[ChannelOf(p, k)][BandOf(p, k) + 1], bits[BandOf(p, k) + 1]), bits[BandOf(p, k) + 1])
FineFrom(s, p, bits, n) == LET t[k \in 0..n] == IF k = 0 THEN s ELSE FineStep(t[k - 1], p, bits, k - 1) IN t[n]
quant_fine_energy(s, p, bits) == FineFrom(s, p, bits, Steps(p))

UnfineBand(s, c, j, r, n) == Unrefined(s, c, j, r, FineOffset(r.got, n))
UnfineStep(s, p, bits, k) ==
    IF bits[BandOf(p, k) + 1] <= 0 THEN s
    ELSE UnfineBand(s, ChannelOf(p, k), BandOf(p, k), DecRaw(s.rc, bits[BandOf(p, k) + 1]), bits[BandOf(p, k) + 1])
UnfineFrom(s, p, bits, n) == LET t[k \in 0..n] == IF k = 0 THEN s ELSE UnfineStep(t[k - 1], p, bits, k - 1) IN t[n]
unquant_fine_energy(s, p, bits) == UnfineFrom(s, p, bits, Steps(p))

(* The bits left over halve errors, a bit for each channel of a band, first *)
(* the bands of priority 0 and then those of 1: the k-th turn.              *)
HalfOffset(q2, n) == (2 * q2 - 1) * Pow2(8 - n)
PassOf(p, k) == IF k < Steps(p) THEN 0 ELSE 1
PlaceOf(p, k) == IF k < Steps(p) THEN k ELSE k - Steps(p)
Wants(p, bits, priority, k) ==
    LET j == BandOf(p, PlaceOf(p, k)) + 1 IN bits[j] < MAX_FINE_BITS /\ priority[j] = PassOf(p, k)

(* f: [s, left], with as many bits left as whole bands can take.            *)
WholeTurns(p, left) == (left \div p.channels) * p.channels
TurnTaken(f, s) == [s |-> s, left |-> f.left - 1]

FinalBand(s, c, j, q2, n) == Refined(s, c, j, q2, 1, HalfOffset(q2, n))
FinalTurn(s, p, bits, k) ==
    FinalBand(s, ChannelOf(p, k), BandOf(p, k),
              IF s.error[ChannelOf(p, k)][BandOf(p, k) + 1] >= 0 THEN 1 ELSE 0, bits[BandOf(p, k) + 1])
FinalStep(f, p, bits, priority, k) ==
    IF f.left < 1 \/ ~Wants(p, bits, priority, k) THEN f ELSE TurnTaken(f, FinalTurn(f.s, p, bits, PlaceOf(p, k)))
FinalFrom(f, p, bits, priority, n) ==
    LET t[k \in 0..n] == IF k = 0 THEN f ELSE FinalStep(t[k - 1], p, bits, priority, k - 1) IN t[n]
quant_energy_finalise(s, p, bits, priority, left) ==
    FinalFrom([s |-> s, left |-> WholeTurns(p, left)], p, bits, priority, 2 * Steps(p)).s

UnfinalBand(s, c, j, r, n) == Unrefined(s, c, j, r, HalfOffset(r.got, n))
UnfinalTurn(s, p, bits, k) ==
    UnfinalBand(s, ChannelOf(p, k), BandOf(p, k), DecRaw(s.rc, 1), bits[BandOf(p, k) + 1])
UnfinalStep(f, p, bits, priority, k) ==
    IF f.left < 1 \/ ~Wants(p, bits, priority, k) THEN f ELSE TurnTaken(f, UnfinalTurn(f.s, p, bits, PlaceOf(p, k)))
UnfinalFrom(f, p, bits, priority, n) ==
    LET t[k \in 0..n] == IF k = 0 THEN f ELSE UnfinalStep(t[k - 1], p, bits, priority, k - 1) IN t[n]
unquant_energy_finalise(s, p, bits, priority, left) ==
    UnfinalFrom([s |-> s, left |-> WholeTurns(p, left)], p, bits, priority, 2 * Steps(p)).s
=============================================================================

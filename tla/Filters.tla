------------------------------ MODULE Filters ------------------------------
(***************************************************************************)
(* The filters of the codec, one sample or one strip of samples at a time, *)
(* in the exact numbers of Field.  Most come in pairs: what CELT's         *)
(* pre-filter, SILK's prediction or the concealment's whitening takes from *)
(* a signal, the other one of the pair, running on its own past output,    *)
(* must put back, whichever instruction set either was written for.        *)
(***************************************************************************)
EXTENDS Field, Kernels

CONSTANT Jobs   \* what to filter: [kind, ahead, back, n, ...], see MCDsp

-----------------------------------------------------------------------------
(* Data: a signal of distinguishable samples, coefficients, PREFILTER_GAINS  *)
(* in their units of 1/32768, and a window that fades in.                    *)
SampleAt(k) == (k * k * 37 + 11 * k + 5) % P
Tapv(k) == (k * k * 53 + 29 * k + 2) % P
Quantum == Inverse(32768)
PREFILTER_GAINS == <<<<10048, 7112, 4248>>, <<15200, 8784, 0>>, <<26208, 3280, 0>>>>
Gains(s, sign) == [q \in 1..3 |-> (sign * s.g * PREFILTER_GAINS[s.tapset + 1][q] * Quantum) % P]
FadeOf(i) == (SampleAt(i) * SampleAt(i)) % P

(* Four samples from a place on; two lanes' sums; a dot product.             *)
Reg(x, from) == SubSeq(x, from + 1, from + 4)
Dot(f(_), n) == Sum(f, 0, n)
DotByLanes(f(_), n, w) ==
    (Sum(LAMBDA l : Sum(LAMBDA q : f(w * q + l), 0, n \div w), 0, w) + Sum(f, w * (n \div w), n)) % P

-----------------------------------------------------------------------------
(* The comb filter.  regs holds <<x4, x3, x2, x1>>, the samples from t + 2   *)
(* to t - 1 back; x0 is the newest, t - 2 back.                              *)
COMBFILTER_MINPERIOD == 15
Mix(g, r, x0) == g[1] * r[3] + g[2] * (r[4] + r[2]) + g[3] * (x0 + r[1])
Echo(x, i, t, g) == Mix(g, Reg(x, i - t - 2), At(x, i - t + 2))

Period(t, idx) == MaxOf(COMBFILTER_MINPERIOD, MinOf(t, MaxOf(idx - 2, COMBFILTER_MINPERIOD)))
Steady(j) == /\ j.old.g = j.new.g /\ j.old.tapset = j.new.tapset
             /\ Period(j.old.t, j.history) = Period(j.new.t, j.history)
InnerOverlap(j) == IF Steady(j) THEN 0 ELSE j.overlap

comb_filter_const_scalar == <<1>>
comb_filter_const_neon == <<4, 1>>
comb_filter_const_sse == <<4, 1>>
comb_filter_const_avx == <<16, 8, 4, 1>>
ConstStrips(isa) == CASE isa = "neon" -> comb_filter_const_neon [] isa = "sse" -> comb_filter_const_sse
                      [] isa = "avx" -> comb_filter_const_avx [] OTHER -> comb_filter_const_scalar
StripOf(strips, n) == LET fits == {q \in DOMAIN strips : strips[q] <= n}
                    IN  strips[CHOOSE q \in fits : \A r \in fits : q <= r]

(* Four outputs from two registers: the lanes between them by shuffles.      *)
MixFour(x, i, g, x0v, x4v, x1v, x2v, x3v) ==
    [l \in 1..4 |-> (At(x, i + l - 1) + g[1] * x2v[l] + g[2] * (x1v[l] + x3v[l]) + g[3] * (x4v[l] + x0v[l])) % P]
comb_filter_const_neon_impl(x, i, g, x0v, x4v) ==
    MixFour(x, i, g, x0v, x4v, vext(x0v, x4v, 1), vext(x0v, x4v, 2), vext(x0v, x4v, 3))
comb_filter_const_sse_fma(x, i, g, x0v, x4v) ==
    LET x2v == shuffle(x0v, x4v, 78)
    IN  MixFour(x, i, g, x0v, x4v, shuffle(x0v, x2v, 153), x2v, shuffle(x2v, x4v, 153))

-----------------------------------------------------------------------------
(* Prediction from the last samples of s up to idx, a[0] for the newest.     *)
PredTap(s, idx, k) == Tapv(k) * At(s, idx - k)
silk_lpc_prediction_scalar(s, idx, order) == Dot(LAMBDA k : PredTap(s, idx, k), order)
silk_lpc_prediction_neon(s, idx, order) ==
    LET Rev(j) == LET wide == [l \in 1..4 |-> Tapv(j + l - 1)]
                      halves == <<wide[3], wide[4], wide[1], wide[2]>>
                  IN  <<halves[2], halves[1], halves[4], halves[3]>>
        Strip(j) == Sum(LAMBDA l : Rev(j)[l + 1] * Reg(s, idx - j - 3)[l + 1], 0, 4)
    IN  (Sum(LAMBDA q : Strip(4 * q), 0, order \div 4)
         + Sum(LAMBDA k : PredTap(s, idx, k), 4 * (order \div 4), order)) % P
silk_lpc_prediction_avx2(s, idx, order) ==
    LET L(j, l) == At(s, idx - j - 7 + l) * Tapv(j + (7 - l))
        even(j) == Sum(LAMBDA q : L(j, 2 * q), 0, 4)
        odd(j) == Sum(LAMBDA q : L(j, 2 * q + 1), 0, 4)
    IN  (Sum(LAMBDA q : even(8 * q) + odd(8 * q), 0, order \div 8)
         + Sum(LAMBDA k : PredTap(s, idx, k), 8 * (order \div 8), order)) % P
short_prediction(s, idx, order, isa) ==
    CASE isa = "neon" -> silk_lpc_prediction_neon(s, idx, order)
      [] isa = "avx2" -> silk_lpc_prediction_avx2(s, idx, order)
      [] OTHER -> silk_lpc_prediction_scalar(s, idx, order)

(* The analysis filter: AVX2 multiplies the last sixteen samples by the      *)
(* coefficients reversed and padded to sixteen; NEON takes an inner product  *)
(* with them reversed from order 16 on.                                      *)
AvxStart(d) == MaxOf(16, d)
b_rev_pad(d) == [q \in 1..16 |-> IF 16 - q < d THEN Tapv(16 - q) ELSE 0]
silk_lpc_analysis_filter_avx2(x, ix, d) ==
    IF ix < AvxStart(d) THEN Dot(LAMBDA k : Tapv(k) * At(x, ix - 1 - k), d)
    ELSE Dot(LAMBDA q : b_rev_pad(d)[q + 1] * At(x, ix - 16 + q), 16)
silk_lpc_analysis_filter_aarch64(x, ix, d) == Dot(LAMBDA q : At(x, ix - d + q) * Tapv(d - 1 - q), d)
silk_lpc_analysis_filter_scalar(x, ix, d) ==
    (Dot(LAMBDA k : Tapv(k) * At(x, ix - k - 1), 6)
     + Sum(LAMBDA q : Tapv(6 + 2 * q) * At(x, ix - 6 - 2 * q - 1) + Tapv(7 + 2 * q) * At(x, ix - 6 - 2 * q - 2),
           0, (d - 6) \div 2)) % P
lpc_analysis_filter(x, ix, d) == Dot(LAMBDA k : At(x, ix - 1 - k) * Tapv(k), d)
AnalysisPrediction(x, ix, d, isa) ==
    CASE isa = "avx2" /\ d <= 16 -> silk_lpc_analysis_filter_avx2(x, ix, d)
      [] isa = "neon" /\ d >= 16 -> silk_lpc_analysis_filter_aarch64(x, ix, d)
      [] isa = "flp" -> lpc_analysis_filter(x, ix, d)
      [] OTHER -> silk_lpc_analysis_filter_scalar(x, ix, d)

-----------------------------------------------------------------------------
VARIABLES
    job,       \* the filter, or pair of filters
    towards,   \* "ahead", "back", then "done"
    given,     \* the signal, behind its history
    passed,      \* what the first filter makes of it
    heard,     \* what the second makes of that, behind the same history
    spot,      \* samples done
    regs       \* the filter's registers or memory

fvars == <<job, towards, given, passed, heard, spot, regs>>

Paired == job.kind \in {"comb", "lpc", "predict"}
HistoryOf(j) == CASE j.kind = "comb" -> j.history [] j.kind = "lpc" -> j.order [] OTHER -> 0
History == HistoryOf(job)
Left == job.n - spot
Old == [t |-> Period(job.old.t, History), g |-> Gains(job.old, 1)]
New == [t |-> Period(job.new.t, History), g |-> Gains(job.new, 1)]
Less(g) == [q \in 1..3 |-> -g[q]]

(* A plain FIR starts from silence; the others have heard the past.          *)
FiltersInit ==
    /\ job \in Jobs
    /\ towards = "ahead"
    /\ given = Array(HistoryOf(job) + job.n * job.channels,
                     LAMBDA q : IF job.kind = "lpc" /\ job.ahead = "plain" /\ q < job.order THEN 0 ELSE SampleAt(q))
    /\ passed = <<>>
    /\ heard = <<>>
    /\ spot = 0
    /\ regs = IF job.kind = "comb" THEN Reg(given, job.history - Period(job.new.t, job.history) - 2)
              ELSE IF job.kind \in {"shape", "fir5", "biquad"} THEN Zeros(job.order) ELSE <<>>

Emit(outs, mem) ==
    /\ passed' = passed \o outs
    /\ regs' = mem
    /\ spot' = spot + Len(outs) \div job.channels
    /\ UNCHANGED <<job, towards, given, heard>>

(* comb_filter with negative gains: fade between two settings, sample by     *)
(* sample, then the new one alone by the strips of the instruction set.      *)
BothOff == job.old.g = 0 /\ job.new.g = 0
Copy == /\ job.kind = "comb" /\ towards = "ahead" /\ Left > 0
        /\ BothOff \/ (job.new.g = 0 /\ spot >= InnerOverlap(job))
        /\ Emit(SubSeq(given, History + spot + 1, History + job.n), regs)
Fade == /\ job.kind = "comb" /\ towards = "ahead" /\ ~BothOff
        /\ Left > 0 /\ spot < InnerOverlap(job)
        /\ LET i == History + spot
               x0 == At(given, i - New.t + 2)
           IN  Emit(<<(At(given, i) + (1 - FadeOf(spot)) * (Echo(given, i, Old.t, Less(Old.g)) % P)
                       + FadeOf(spot) * (Mix(Less(New.g), regs, x0) % P)) % P>>, Tail(regs) \o <<x0>>)
CombStrip ==
    /\ job.kind = "comb" /\ towards = "ahead" /\ Left > 0 /\ spot >= InnerOverlap(job) /\ job.new.g # 0
    /\ LET w == StripOf(ConstStrips(job.ahead), Left)
           i == History + spot
           g == Less(New.g)
           t == New.t
           x4v == Reg(given, i - t + 2)
           plain(l) == (At(given, i + l) + Echo(given, i + l, t, g)) % P
       IN  CASE w >= 8 -> Emit(Array(w, plain), Reg(given, i + w - t - 2))
             [] w = 4 -> Emit(IF job.ahead = "neon" THEN comb_filter_const_neon_impl(given, i, g, regs, x4v)
                              ELSE comb_filter_const_sse_fma(given, i, g, regs, x4v), x4v)
             [] w = 1 -> Emit(<<(At(given, i) + Mix(g, regs, x4v[1])) % P>>, Tail(regs) \o <<x4v[1]>>)

(* celt_fir, and celt_fir_c_order four outputs at a time through the kernel. *)
celt_fir(x, i, ord) == (At(x, ord + i) + Sum(LAMBDA k : IF i > k THEN Tapv(k) * At(x, ord + i - k - 1) ELSE 0, 0, ord)) % P
celt_fir_c_order(x, i, ord) ==
    (At(x, ord + i) + Sum(LAMBDA q : Tapv(ord - q - 1) * At(x, i + q), 0, ord)) % P
FirStrip ==
    /\ job.kind = "lpc" /\ towards = "ahead" /\ Left > 0
    /\ IF job.ahead = "plain" THEN Emit(<<celt_fir(given, spot, job.order)>>, regs)
       ELSE Emit(Array(IF Left > 3 THEN 4 ELSE 1, LAMBDA l : celt_fir_c_order(given, spot + l, job.order)), regs)

(* SILK's residual: nothing for the first `order` samples.                   *)
Analyse ==
    /\ job.kind = "predict" /\ towards = "ahead" /\ Left > 0
    /\ Emit(<<IF spot < job.order THEN 0
              ELSE (At(given, spot) - AnalysisPrediction(given, spot, job.order, job.ahead)) % P>>, regs)

-----------------------------------------------------------------------------
(* The way back starts from what was heard before; the in-place filters find *)
(* the received samples in their buffer.                                     *)
TurnBack ==
    /\ towards = "ahead" /\ Left = 0
    /\ towards' = IF Paired THEN "back" ELSE "done"
    /\ heard' = CASE job.kind = "comb" -> SubSeq(given, 1, History) \o passed
                  [] job.kind = "lpc" -> <<>>
                  [] job.kind = "predict" -> SubSeq(given, 1, job.order)
                  [] OTHER -> <<>>
    /\ regs' = CASE ~Paired -> regs
                 [] job.kind # "lpc" -> <<>>
                 [] job.back = "c_order" -> Array(job.order, LAMBDA q : (-At(given, q)) % P)
                 [] OTHER -> Array(job.order, LAMBDA q : At(given, job.order - 1 - q))
    /\ spot' = IF job.kind = "predict" THEN job.order ELSE IF Paired THEN 0 ELSE spot
    /\ UNCHANGED <<job, given, passed>>

Hear(v, mem, w) ==
    /\ heard' = v
    /\ regs' = mem
    /\ spot' = spot + w
    /\ UNCHANGED <<job, towards, given, passed>>

(* comb_filter_inplace: a batch of eight reads before it writes.             *)
\* Sixteen at a time reach into what the batch itself writes.
comb_filter_const_wide == 16
comb_filter_const_avx2 == 8
Batch(j) == IF j.back = "avx2" /\ New.t >= 10 THEN comb_filter_const_avx2 ELSE 1
Unfade == /\ job.kind = "comb" /\ towards = "back" /\ ~BothOff
          /\ Left > 0 /\ spot < InnerOverlap(job)
          /\ LET i == History + spot
             IN  Hear(Set(heard, i, (At(heard, i) + (1 - FadeOf(spot)) * (Echo(heard, i, Old.t, Old.g) % P)
                                      + FadeOf(spot) * (Echo(heard, i, New.t, New.g) % P)) % P), regs, 1)
Uncomb == /\ job.kind = "comb" /\ towards = "back" /\ ~BothOff /\ Left > 0 /\ spot >= InnerOverlap(job)
          /\ LET w == IF Left >= Batch(job) THEN Batch(job) ELSE 1
                 from == History + spot
             IN  Hear([q \in DOMAIN heard |->
                         IF q - 1 \in from..(from + w - 1)
                         THEN (heard[q] + Echo(heard, q - 1, New.t, New.g)) % P ELSE heard[q]], regs, w)
Uncopy == /\ job.kind = "comb" /\ towards = "back" /\ BothOff /\ Left > 0
          /\ Hear(heard, regs, Left)

(* celt_iir, its memory newest first, and NEON's four lanes of it.           *)
celt_iir == /\ job.kind = "lpc" /\ job.back \in {"plain", "neon"} /\ towards = "back" /\ Left > 0
            /\ LET tap(k) == Tapv(k) * At(regs, k)
                   past == IF job.back = "neon" /\ job.order >= 4 THEN DotByLanes(tap, job.order, 4)
                           ELSE Dot(tap, job.order)
                   y == (At(passed, spot) - past) % P
               IN  Hear(Append(heard, y), <<y>> \o SubSeq(regs, 1, job.order - 1), 1)

(* celt_iir_c_order: regs is yb, outputs negated.  Four at a time, each then *)
(* given the ones before it that the kernel could not see; the tail writes   *)
(* its outputs not negated, as the code does.                                *)
IirFour(ord) ==
    LET base(l) == (At(passed, spot + l)
                    + Sum(LAMBDA q : Tapv(ord - q - 1) * (IF spot + q + l < Len(regs) THEN At(regs, spot + q + l) ELSE 0), 0, ord)) % P
        s0 == base(0)
        s1 == (base(1) - s0 * Tapv(0)) % P
        s2 == (base(2) - s1 * Tapv(0) - s0 * Tapv(1)) % P
        s3 == (base(3) - s2 * Tapv(0) - s1 * Tapv(1) - s0 * Tapv(2)) % P
    IN  <<s0, s1, s2, s3>>
celt_iir_c_order ==
    /\ job.kind = "lpc" /\ job.back = "c_order" /\ towards = "back" /\ Left > 0
    /\ IF Left > 3
       THEN \E s \in {IirFour(job.order)} : Hear(heard \o s, regs \o [l \in 1..4 |-> (-s[l]) % P], 4)
       ELSE \E s \in {(At(passed, spot) - Sum(LAMBDA q : Tapv(job.order - q - 1) * At(regs, spot + q), 0, job.order)) % P} :
              Hear(Append(heard, s), Append(regs, s), 1)

(* SILK's synthesis, in the decoder and in the encoder's quantisers.         *)
Synthesise ==
    /\ job.kind = "predict" /\ towards = "back" /\ Left > 0
    /\ Hear(Append(heard, (At(passed, spot) + short_prediction(heard, spot - 1, job.order, job.back)) % P), regs, 1)

-----------------------------------------------------------------------------
(* Filters of one direction.  The shaping filter is a chain of all-pass      *)
(* sections, warp = 0 making them plain delays; the code walks it two taps   *)
(* at a time with two temporaries, keeping the old sample of each tap until  *)
(* the next has used it.                                                     *)
silk_nsq_noise_shape_feedback_loop_order12(d, mem) == <<d>> \o SubSeq(mem, 1, 11)
RECURSIVE ByPairs(_, _, _, _)
ByPairs(mem, j, tmp1, order) ==
    IF j >= order THEN Set(mem, order - 1, tmp1)
    ELSE LET tmp2 == At(mem, j - 1)
             m1 == Set(mem, j - 1, tmp1)
         IN  ByPairs(Set(m1, j, tmp2), j + 2, At(m1, j), order)
silk_nsq_noise_shape_feedback_loop(d, mem, order) == ByPairs(Set(mem, 0, d), 2, At(mem, 0), order)

RECURSIVE SoaPairs(_, _, _, _)
SoaPairs(sar, j, tmp1, order) ==
    IF j >= order THEN Set(sar, order - 1, tmp1)
    ELSE LET tmp2 == (At(sar, j - 1) + job.warp * (At(sar, j) - tmp1)) % P
             s1 == Set(sar, j - 1, tmp1)
             next == (At(s1, j) + job.warp * (At(s1, j + 1) - tmp2)) % P
         IN  SoaPairs(Set(s1, j, tmp2), j + 2, next, order)
nsq_shape_filter_soa(diff, sar, order) ==
    LET tmp2 == (diff + At(sar, 0) * job.warp) % P
        tmp1 == (At(sar, 0) + job.warp * (At(sar, 1) - tmp2)) % P
    IN  SoaPairs(Set(sar, 0, tmp2), 2, tmp1, order)
ShapeNoise ==
    /\ job.kind = "shape" /\ towards = "ahead" /\ Left > 0
    /\ \E mem \in {CASE job.ahead = "soa" -> nsq_shape_filter_soa(At(given, spot), regs, job.order)
                     [] job.order = 12 -> silk_nsq_noise_shape_feedback_loop_order12(At(given, spot), regs)
                     [] OTHER -> silk_nsq_noise_shape_feedback_loop(At(given, spot), regs, job.order)} :
         Emit(<<Dot(LAMBDA k : Tapv(k) * At(mem, k), job.order)>>, mem)

(* celt_fir5 in place, with the samples it overwrote in its memory.          *)
celt_fir5 ==
    /\ job.kind = "fir5" /\ towards = "ahead" /\ Left > 0
    /\ Emit(<<(At(given, spot) + Dot(LAMBDA k : Tapv(k) * At(regs, k), 5)) % P>>,
            <<At(given, spot)>> \o SubSeq(regs, 1, 4))

(* The biquads, the feedback coefficients split in two parts of 14 bits; the *)
(* second channel of an interleaved pair keeps its state behind the first's. *)
Biquad(x, s) ==
    LET neg(k) == -(Tapv(k + 3) - 4000)
        fed(out, k) == (((out * (neg(k) % 16384)) % P) + ((out * (neg(k) \div 16384)) % P) * 16384) % P
        out == (s[1] + Tapv(0) * x) % P
    IN  [out |-> out, mem |-> <<(s[2] + fed(out, 0) + Tapv(1) * x) % P, (fed(out, 1) + Tapv(2) * x) % P>>]
silk_biquad_alt ==
    /\ job.kind = "biquad" /\ towards = "ahead" /\ Left > 0
    /\ LET of(c) == Biquad(At(given, job.channels * spot + c), SubSeq(regs, 2 * c + 1, 2 * c + 2))
       IN  IF job.channels = 1 THEN Emit(<<of(0).out>>, of(0).mem)
           ELSE Emit(<<of(0).out, of(1).out>>, of(0).mem \o of(1).mem)

(* pitch_downsample: half the rate through 1/4, 1/2, 1/4; NEON loads pairs   *)
(* of even and odd samples, as far as the array goes.                        *)
Quarter == Inverse(4)
Halved(i) == IF 2 * i + 1 >= Len(given) THEN 0
             ELSE (Quarter * At(given, 2 * i - 1) + Quarter * At(given, 2 * i + 1) + 2 * Quarter * At(given, 2 * i)) % P
vld2q(x, from) == [even |-> [l \in 1..4 |-> At(x, from + 2 * (l - 1))], odd |-> [l \in 1..4 |-> At(x, from + 2 * (l - 1) + 1)]]
HalvedFour(i) ==
    LET mc == vld2q(given, 2 * i - 1)
        pp == vld2q(given, 2 * i + 1)
    IN  [l \in 1..4 |-> (Quarter * mc.even[l] + Quarter * pp.even[l] + 2 * Quarter * mc.odd[l]) % P]
HalfLen == Len(given) \div 2
pitch_downsample ==
    /\ job.kind = "downsample" /\ towards = "ahead" /\ spot < HalfLen
    /\ CASE spot = 0 -> Emit(<<(Quarter * At(given, 1) + 2 * Quarter * At(given, 0)) % P>>, regs)
         [] spot > 0 /\ job.ahead = "neon" /\ spot + 4 <= HalfLen /\ 2 * spot + 9 <= Len(given) ->
              Emit(HalvedFour(spot), regs)
         [] OTHER -> Emit(<<Halved(spot)>>, regs)
EndDownsample ==
    /\ job.kind = "downsample" /\ towards = "ahead" /\ spot = HalfLen
    /\ towards' = "done"
    /\ UNCHANGED <<job, given, passed, heard, spot, regs>>

Settled ==
    /\ towards = "back" /\ Left = 0
    /\ towards' = "done"
    /\ UNCHANGED <<job, given, passed, heard, spot, regs>>

FiltersNext ==
    \/ Copy \/ Fade \/ CombStrip \/ FirStrip \/ Analyse \/ TurnBack
    \/ Unfade \/ Uncomb \/ Uncopy \/ celt_iir \/ celt_iir_c_order \/ Synthesise
    \/ ShapeNoise \/ celt_fir5 \/ silk_biquad_alt \/ pitch_downsample \/ EndDownsample \/ Settled

-----------------------------------------------------------------------------
(* The second filter of a pair gives the signal back: post-filter after      *)
(* pre-filter through any change of period, gain and taps (celt.rs), IIR     *)
(* after FIR (celt_lpc.rs), synthesis after analysis of the same prediction  *)
(* (sigproc_fix.rs, nsq.rs), each in any instruction set.                    *)
PairsUndo ==
    (towards = "done" /\ Paired) =>
        heard = IF job.kind = "lpc" THEN SubSeq(given, job.order + 1, Len(given)) ELSE given

(* Each section of the shaping chain, from its inputs so far.                *)
RECURSIVE Section(_, _)
Section(k, i) ==
    IF i < 0 THEN 0
    ELSE IF k = 0 THEN (At(given, i) + job.warp * Section(0, i - 1)) % P
    ELSE (Section(k - 1, i - 1) + job.warp * (Section(k, i - 1) - Section(k - 1, i))) % P
Past(k) == IF k < 0 THEN 0 ELSE At(given, k)

(* The filters of one direction compute their definitions: shaping, fir5,    *)
(* decimation with and without vectors, and each channel of the biquad.      *)
OneWayExact ==
    /\ (job.kind = "shape" /\ spot > 0) =>
          \A k \in 0..(job.order - 1) : job.warp = 0 => At(regs, k) = Past(spot - 1 - k)
    /\ (job.kind = "shape" /\ job.warp # 0 /\ towards = "done") =>
          \A k \in 0..(job.order - 1) : At(regs, k) = Section(k, spot - 1)
    /\ (job.kind = "fir5" /\ towards = "done") => \A i \in 0..(job.n - 1) :
          At(passed, i) = (At(given, i) + Sum(LAMBDA k : Tapv(k) * Past(i - 1 - k), 0, 5)) % P
    /\ (job.kind = "downsample" /\ towards = "done") => \A i \in 1..(HalfLen - 1) : At(passed, i) = Halved(i)
    /\ (job.kind = "biquad" /\ towards = "done") => \A i \in 2..(job.n - 1), c \in 0..(job.channels - 1) :
          LET x(q) == At(given, job.channels * (i - q) + c)
              y(q) == At(passed, job.channels * (i - q) + c)
          IN  (y(0) + (Tapv(3) - 4000) * y(1) + (Tapv(4) - 4000) * y(2)
               - Tapv(0) * x(0) - Tapv(1) * x(1) - Tapv(2) * x(2)) % P = 0

FiltersExact == PairsUndo /\ OneWayExact
=============================================================================

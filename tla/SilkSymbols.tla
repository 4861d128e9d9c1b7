----------------------------- MODULE SilkSymbols -----------------------------
(***************************************************************************)
(* What a SILK frame is made of (silk/encode_indices.rs, encode_pulses.rs  *)
(* and their decoders): indices, pulses and gains, as the symbols the      *)
(* encoder writes and as the questions the decoder asks.                   *)
(*                                                                         *)
(* A symbol is <<table, sel, value>>: the value, and the probability table *)
(* it was coded with (sel picks a row).  A decoder that asks with another  *)
(* table than the encoder used reads nonsense from there on.               *)
(***************************************************************************)
EXTENDS Arrays, SequencesExt

NO_VOICE == 0
UNVOICED == 1
VOICED == 2
INDEPENDENTLY == 0
CONDITIONALLY == 1

(* Tables with as many rows as there are values; reading beyond one panics. *)
TableSize(t, sel) ==
    CASE t \in {"FLAG", "LSB", "SIGN", "MID_ONLY", "TYPE_OFFSET_NO_VAD"} -> 2
      [] t \in {"UNIFORM3", "LTP_PER_INDEX", "LTPSCALE"} -> 3
      [] t \in {"UNIFORM4", "TYPE_OFFSET_VAD"} -> 4
      [] t \in {"UNIFORM5", "NLSF_INTERPOLATION_FACTOR"} -> 5
      [] t = "UNIFORM6" -> 6
      [] t = "NLSF_EXT" -> 7
      [] t \in {"UNIFORM8", "GAIN"} -> 8
      [] t \in {"NLSF_EC", "RATE_LEVELS"} -> 9
      [] t = "PULSES_PER_BLOCK" -> 18
      [] t = "PITCH_DELTA" -> 21
      [] t = "STEREO_PRED_JOINT" -> 25
      [] t \in {"PITCH_LAG", "NLSF_CB1"} -> 32
      [] t = "DELTA_GAIN" -> 41
      [] t = "LBRR_FLAGS" -> 2^sel - 1
      [] t = "LTP_GAIN" -> 8 * 2^sel
      [] t = "PITCH_CONTOUR" -> <<34, 11, 12, 3>>[sel]
      [] t = "SHELL" -> (sel % 32) + 1
InTable(s) == s[3] \in 0..(TableSize(s[1], s[2]) - 1)

LowBits(fs) == IF fs = 8 THEN "UNIFORM4" ELSE IF fs = 12 THEN "UNIFORM6" ELSE "UNIFORM8"
Contour(fs, nb) == (IF nb = 2 THEN 3 ELSE 1) + (IF fs = 8 THEN 1 ELSE 0)
NlsfBook(fs) == IF fs = 16 THEN 1 ELSE 0
NlsfOrder(fs) == IF fs = 16 THEN 16 ELSE 10
EcIx(fs, cb1, k) == 1000 * NlsfBook(fs) + 20 * cb1 + k

-----------------------------------------------------------------------------
(* The reader: where it is, whether every question met its symbol, the      *)
(* answers, and the indices and magnitudes read so far.                     *)
NotVoiced == [lag |-> 0, contour |-> 0, per |-> 0, ltp |-> <<>>, scale |-> 0]
NoIndices == [type |-> 0, offset |-> 0, gains |-> <<>>, nlsf |-> <<>>, interp |-> 4, seed |-> 0] @@ NotVoiced
Reader(syms, at) == [syms |-> syms, at |-> at, ok |-> TRUE, v |-> 0, vs |-> <<>>, ix |-> NoIndices, mags |-> <<>>]

Answered(r, answers, questions) ==
    LET met == r.ok /\ [k \in DOMAIN answers |-> <<answers[k][1], answers[k][2]>>] = questions
    IN  [r EXCEPT !.at = @ + Len(questions), !.ok = met,
                  !.vs = [k \in DOMAIN questions |-> IF met THEN answers[k][3] ELSE 0]]
AskAll(r, questions) ==
    Answered(r, SubSeq(r.syms, r.at + 1, MinOf(r.at + Len(questions), Len(r.syms))), questions)
One(r) == [r EXCEPT !.v = r.vs[1]]
Ask(r, t, sel) == One(AskAll(r, <<<<t, sel>>>>))

-----------------------------------------------------------------------------
(* Gains.  Levels are steps of the quantiser, wanted or coded; the first of *)
(* an independent frame is absolute, all others are changes, doubled when   *)
(* they are large.  prev is last_gain_index.                                *)
N_LEVELS_QGAIN == 64
MIN_DELTA_GAIN_QUANT == -4
MAX_DELTA_GAIN_QUANT == 36
Threshold(prev) == 2 * MAX_DELTA_GAIN_QUANT - N_LEVELS_QGAIN + prev
Doubled(delta, prev) == IF delta > Threshold(prev) THEN prev + 2 * delta - Threshold(prev) ELSE prev + delta

QuantGain(q, want) ==
    LET prev == q.prev
        ind == Clamp(IF want < prev THEN want + 1 ELSE want, 0, N_LEVELS_QGAIN - 1)
        over == ind - prev - Threshold(prev)
        delta == Clamp(IF over > 0 THEN Threshold(prev) + ((over + 1) \div 2) ELSE ind - prev,
                       MIN_DELTA_GAIN_QUANT, MAX_DELTA_GAIN_QUANT)
        first == MaxOf(ind, prev + MIN_DELTA_GAIN_QUANT)
        absolute == q.ind = <<>> /\ q.cond # CONDITIONALLY
        new == IF absolute THEN first ELSE MinOf(Doubled(delta, prev), N_LEVELS_QGAIN - 1)
    IN  [q EXCEPT !.prev = new, !.levels = Append(@, new),
                  !.ind = Append(@, IF absolute THEN first ELSE delta - MIN_DELTA_GAIN_QUANT)]
silk_gains_quant(wants, prev, cond) ==
    FoldLeft(QuantGain, [prev |-> prev, cond |-> cond, ind |-> <<>>, levels |-> <<>>], wants)

\* Slip: what one subframe adds is not limited before the next builds on it.
DequantGainLoose(q, ind) ==
    LET new == IF q.levels = <<>> /\ q.cond # CONDITIONALLY THEN MaxOf(ind, q.prev - 16)
               ELSE Doubled(ind + MIN_DELTA_GAIN_QUANT, q.prev)
    IN  [q EXCEPT !.prev = new, !.levels = Append(@, new)]
DequantGain(q, ind) ==
    LET new == Clamp(IF q.levels = <<>> /\ q.cond # CONDITIONALLY THEN MaxOf(ind, q.prev - 16)
                     ELSE Doubled(ind + MIN_DELTA_GAIN_QUANT, q.prev), 0, N_LEVELS_QGAIN - 1)
    IN  [q EXCEPT !.prev = new, !.levels = Append(@, new)]
silk_gains_dequant(inds, prev, cond) ==
    FoldLeft(DequantGain, [prev |-> prev, cond |-> cond, levels |-> <<>>], inds)

-----------------------------------------------------------------------------
(* Indices.  e is a channel: its rate fs, its nb subframes, and what the    *)
(* last frame left for the pitch lag of the next.                           *)
NLSF_QUANT_MAX_AMPLITUDE == 4
NlsfSymbols(fs, nlsf) ==
    LET Residual(k) ==
            LET q == nlsf[k + 1]
                m == Clamp(q, -NLSF_QUANT_MAX_AMPLITUDE, NLSF_QUANT_MAX_AMPLITUDE)
            IN  <<<<"NLSF_EC", EcIx(fs, nlsf[1], k), m + NLSF_QUANT_MAX_AMPLITUDE>>>>
                \o IF Abs(m) = NLSF_QUANT_MAX_AMPLITUDE THEN <<<<"NLSF_EXT", 0, Abs(q - m)>>>> ELSE <<>>
    IN  FlattenSeq([k \in 1..NlsfOrder(fs) |-> Residual(k)])

\* Slip: one lag more below the last counts as near, with the code that says far.
LagIsNearWide(delta) == delta \in -9..11
LagIsNear(delta) == delta \in -8..11
LagSymbols(e, ix, cond) ==
    LET delta == ix.lag - e.ec_prev_lag_index
        half == e.fs \div 2
        lag == MinOf(ix.lag, 32 * half - 1)
        relative == cond = CONDITIONALLY /\ e.ec_prev_signal_type = VOICED
        near == relative /\ LagIsNear(delta)
    IN  (IF relative THEN <<<<"PITCH_DELTA", 0, IF near THEN delta + 9 ELSE 0>>>> ELSE <<>>)
        \o IF near THEN <<>>
           ELSE <<<<"PITCH_LAG", 0, lag \div half>>, <<LowBits(e.fs), 0, lag % half>>>>

silk_encode_indices(e, ix, lbrr, cond) ==
    LET type_offset == 2 * ix.type + ix.offset
    IN  <<IF lbrr \/ type_offset >= 2 THEN <<"TYPE_OFFSET_VAD", 0, type_offset - 2>>
                                      ELSE <<"TYPE_OFFSET_NO_VAD", 0, type_offset>>>>
        \o (IF cond = CONDITIONALLY THEN <<<<"DELTA_GAIN", 0, ix.gains[1]>>>>
            ELSE <<<<"GAIN", ix.type, ix.gains[1] \div 8>>, <<"UNIFORM8", 0, ix.gains[1] % 8>>>>)
        \o [k \in 1..(e.nb - 1) |-> <<"DELTA_GAIN", 0, ix.gains[k + 1]>>]
        \o <<<<"NLSF_CB1", 10 * NlsfBook(e.fs) + (ix.type \div 2), ix.nlsf[1]>>>>
        \o NlsfSymbols(e.fs, ix.nlsf)
        \o (IF e.nb = 4 THEN <<<<"NLSF_INTERPOLATION_FACTOR", 0, ix.interp>>>> ELSE <<>>)
        \o (IF ix.type = VOICED
            THEN LagSymbols(e, ix, cond)
                 \o <<<<"PITCH_CONTOUR", Contour(e.fs, e.nb), ix.contour>>, <<"LTP_PER_INDEX", 0, ix.per>>>>
                 \o [k \in 1..e.nb |-> <<"LTP_GAIN", ix.per, ix.ltp[k]>>]
                 \o (IF cond = INDEPENDENTLY THEN <<<<"LTPSCALE", 0, ix.scale>>>> ELSE <<>>)
            ELSE <<>>)
        \o <<<<"UNIFORM4", 0, ix.seed>>>>

(* What coding or reading ix leaves behind for the next frame.              *)
After(e, ix) ==
    [e EXCEPT !.ec_prev_signal_type = ix.type,
              !.ec_prev_lag_index = IF ix.type = VOICED THEN ix.lag ELSE @]

(* The decoder's questions, one part of the indices after the other.        *)
NoteType(r, base) == [r EXCEPT !.ix.type = (base + r.v) \div 2, !.ix.offset = (base + r.v) % 2]
ReadType(r, vad, lbrr) ==
    IF lbrr \/ vad THEN NoteType(Ask(r, "TYPE_OFFSET_VAD", 0), 2) ELSE NoteType(Ask(r, "TYPE_OFFSET_NO_VAD", 0), 0)

NoteGains(r, cond) ==
    [r EXCEPT !.ix.gains = IF cond = CONDITIONALLY THEN r.vs ELSE <<8 * r.vs[1] + r.vs[2]>> \o SubSeq(r.vs, 3, Len(r.vs))]
ReadGains(r, d, cond) ==
    NoteGains(AskAll(r, (IF cond = CONDITIONALLY THEN <<<<"DELTA_GAIN", 0>>>> ELSE <<<<"GAIN", r.ix.type>>, <<"UNIFORM8", 0>>>>)
                        \o [k \in 1..(d.nb - 1) |-> <<"DELTA_GAIN", 0>>]), cond)

NoteResidual(r, m) ==
    [r EXCEPT !.ix.nlsf = Append(@, (IF m = 0 THEN -r.v ELSE m + r.v) - NLSF_QUANT_MAX_AMPLITUDE)]
ReadResidual(r) ==
    IF r.v \in {0, 2 * NLSF_QUANT_MAX_AMPLITUDE} THEN NoteResidual(Ask(r, "NLSF_EXT", 0), r.v)
    ELSE NoteResidual([r EXCEPT !.v = 0], r.v)
NoteBook(r) == [r EXCEPT !.ix.nlsf = <<r.v>>]
ReadNlsf(r, d) ==
    FoldLeft(LAMBDA c, k : ReadResidual(Ask(c, "NLSF_EC", EcIx(d.fs, c.ix.nlsf[1], k))),
             NoteBook(Ask(r, "NLSF_CB1", 10 * NlsfBook(d.fs) + (r.ix.type \div 2))), Places(1, NlsfOrder(d.fs)))

NoteInterp(r) == [r EXCEPT !.ix.interp = r.v]
ReadInterp(r, d) == IF d.nb = 4 THEN NoteInterp(Ask(r, "NLSF_INTERPOLATION_FACTOR", 0)) ELSE r

NoteLag(r, half) == [r EXCEPT !.ix.lag = r.vs[1] * half + r.vs[2]]
ReadFarLag(r, d) == NoteLag(AskAll(r, <<<<"PITCH_LAG", 0>>, <<LowBits(d.fs), 0>>>>), d.fs \div 2)
NearOrFar(r, d) == IF r.v > 0 THEN [r EXCEPT !.ix.lag = d.ec_prev_lag_index + r.v - 9] ELSE ReadFarLag(r, d)
ReadLag(r, d, cond) ==
    IF cond = CONDITIONALLY /\ d.ec_prev_signal_type = VOICED THEN NearOrFar(Ask(r, "PITCH_DELTA", 0), d)
    ELSE ReadFarLag(r, d)

NoteFilter(r) == [r EXCEPT !.ix.contour = r.vs[1], !.ix.per = r.vs[2]]
NoteTaps(r) == [r EXCEPT !.ix.ltp = r.vs]
NoteScale(r) == [r EXCEPT !.ix.scale = r.v]
ReadTaps(r, d) == NoteTaps(AskAll(r, [k \in 1..d.nb |-> <<"LTP_GAIN", r.ix.per>>]))
ReadFilter(r, d) == ReadTaps(NoteFilter(AskAll(r, <<<<"PITCH_CONTOUR", Contour(d.fs, d.nb)>>, <<"LTP_PER_INDEX", 0>>>>)), d)
ReadVoicing(r, d, cond) ==
    CASE r.ix.type # VOICED -> r
      [] r.ix.type = VOICED /\ cond = INDEPENDENTLY -> NoteScale(Ask(ReadFilter(ReadLag(r, d, cond), d), "LTPSCALE", 0))
      [] r.ix.type = VOICED /\ cond # INDEPENDENTLY -> ReadFilter(ReadLag(r, d, cond), d)

NoteSeed(r) == [r EXCEPT !.ix.seed = r.v]
silk_decode_indices(r, d, vad, lbrr, cond) ==
    NoteSeed(Ask(ReadVoicing(ReadInterp(ReadNlsf(ReadGains(ReadType([r EXCEPT !.ix = NoIndices], vad, lbrr),
                                                           d, cond), d), d), d, cond), "UNIFORM4", 0))

-----------------------------------------------------------------------------
(* Pulses, in blocks of 16: how many, shifted until the count of every half *)
(* fits its table, then how they split, the bits shifted out, the signs.    *)
SHELL_CODEC_FRAME_LENGTH == 16
SILK_MAX_PULSES == 16
ZeroBlock == Zeros(SHELL_CODEC_FRAME_LENGTH)
BlocksIn(length) == (length + SHELL_CODEC_FRAME_LENGTH - 1) \div SHELL_CODEC_FRAME_LENGTH

RECURSIVE SplitsFit(_)
SplitsFit(a) ==
    Len(a) = 1 \/ /\ Total(a) <= (CASE Len(a) = 2 -> 8 [] Len(a) = 4 -> 10 [] Len(a) = 8 -> 12 [] Len(a) = 16 -> 16)
                  /\ SplitsFit(SubSeq(a, 1, Len(a) \div 2))
                  /\ SplitsFit(SubSeq(a, (Len(a) \div 2) + 1, Len(a)))
RECURSIVE Shrunk(_, _)
Shrunk(a, n) == IF SplitsFit(a) THEN [abs |-> a, n_rshifts |-> n, sum |-> Total(a)]
                ELSE Shrunk([k \in DOMAIN a |-> a[k] \div 2], n + 1)

\* Which of the nine tables costs least; any rule both sides need not share.
RateLevel(blocks) == MinOf(8, FoldLeft(LAMBDA s, b : s + b.sum, 0, blocks))

CountSymbols(level, b) ==
    IF b.n_rshifts = 0 THEN <<<<"PULSES_PER_BLOCK", level, b.sum>>>>
    ELSE <<<<"PULSES_PER_BLOCK", level, SILK_MAX_PULSES + 1>>>>
         \o [k \in 1..(b.n_rshifts - 1) |-> <<"PULSES_PER_BLOCK", 9, SILK_MAX_PULSES + 1>>]
         \o <<<<"PULSES_PER_BLOCK", 9, b.sum>>>>

ShellRow(len, p) == 32 * len + p
RECURSIVE silk_shell_encoder(_)
silk_shell_encoder(a) ==
    IF Len(a) = 1 \/ Total(a) = 0 THEN <<>>
    ELSE LET left == SubSeq(a, 1, Len(a) \div 2)
             right == SubSeq(a, (Len(a) \div 2) + 1, Len(a))
         IN  <<<<"SHELL", ShellRow(Len(a), Total(a)), Total(left)>>>>
             \o silk_shell_encoder(left) \o silk_shell_encoder(right)

LsbSymbols(b, pulses) ==
    FlattenSeq([k \in 1..SHELL_CODEC_FRAME_LENGTH |->
        [j \in 1..b.n_rshifts |-> <<"LSB", 0, (Abs(pulses[k]) \div 2^(b.n_rshifts - j)) % 2>>]])

SignRow(ix, sum) == 7 * (ix.offset + 2 * ix.type) + MinOf(sum % 32, 6)
SignSymbols(ix, b, pulses) ==
    IF b.sum = 0 THEN <<>>
    ELSE [k \in 1..Len(SelectSeq(pulses, LAMBDA p : p # 0)) |->
            <<"SIGN", SignRow(ix, b.sum), IF SelectSeq(pulses, LAMBDA p : p # 0)[k] > 0 THEN 1 ELSE 0>>]

(* The magnitudes come from the frame's samples only, bits and signs from   *)
(* whole blocks of the pulse buffer.                                        *)
AbsPulses(pulses, i, length) == [k \in 1..16 |-> IF 16 * (i - 1) + k > length THEN 0 ELSE Abs(pulses[i][k])]
PulseSymbols(ix, blocks, pulses) ==
    <<<<"RATE_LEVELS", ix.type \div 2, RateLevel(blocks)>>>>
    \o FlattenSeq([i \in DOMAIN blocks |-> CountSymbols(RateLevel(blocks), blocks[i])])
    \o FlattenSeq([i \in DOMAIN blocks |-> silk_shell_encoder(blocks[i].abs)])
    \o FlattenSeq([i \in DOMAIN blocks |-> LsbSymbols(blocks[i], pulses[i])])
    \o FlattenSeq([i \in DOMAIN blocks |-> SignSymbols(ix, blocks[i], pulses[i])])
silk_encode_pulses(ix, pulses, length) ==
    PulseSymbols(ix, [i \in 1..BlocksIn(length) |-> Shrunk(AbsPulses(pulses, i, length), 0)], pulses)

(* Reading: the count of every block, the magnitudes of every block with    *)
(* any, then all bits shifted out, then all signs.                          *)
RECURSIVE ReadCount(_, _)
ReadCount(r, shifts) ==
    IF r.v = SILK_MAX_PULSES + 1 THEN ReadCount(Ask(r, "PULSES_PER_BLOCK", 9), shifts + 1)
    ELSE [r |-> r, sum |-> r.v, n_lshifts |-> shifts]
CountRead(x, c) == [r |-> c.r, blocks |-> Append(x.blocks, [sum |-> c.sum, n_lshifts |-> c.n_lshifts, abs |-> ZeroBlock])]
ReadCounts(r, n) ==
    FoldLeft(LAMBDA x, k : IF x.r.ok THEN CountRead(x, ReadCount(Ask(x.r, "PULSES_PER_BLOCK", r.v), 0)) ELSE x,
             [r |-> r, blocks |-> <<>>], Zeros(n))

RECURSIVE silk_shell_decoder(_, _, _)
Halves(r, len, p) == silk_shell_decoder(silk_shell_decoder(r, len \div 2, r.v), len \div 2, p - r.v)
silk_shell_decoder(r, len, p) ==
    IF len = 1 \/ p = 0 THEN [r EXCEPT !.mags = @ \o <<p>> \o Zeros(len - 1)]
    ELSE Halves(Ask(r, "SHELL", ShellRow(len, p)), len, p)

(* Each pass goes over the blocks it has something to read for.             *)
Blocks(x, chosen) == SelectSeq(Places(1, Len(x.blocks)), LAMBDA i : i \in chosen)

Splits(x, i, r) == [r |-> r, blocks |-> [x.blocks EXCEPT ![i].abs = r.mags]]
ReadSplits(x, i) == Splits(x, i, silk_shell_decoder([x.r EXCEPT !.mags = <<>>], 16, x.blocks[i].sum))
AllSplits(x) == FoldLeft(ReadSplits, x, Blocks(x, {i \in DOMAIN x.blocks : x.blocks[i].sum > 0}))

LowerBits(x, i, n, r) ==
    [r |-> r, blocks |-> [x.blocks EXCEPT ![i].abs =
        [k \in 1..16 |-> FoldLeft(LAMBDA v, j : 2 * v + r.vs[n * (k - 1) + j], @[k], Places(1, n))]]]
ReadBits(x, i) ==
    LowerBits(x, i, x.blocks[i].n_lshifts, AskAll(x.r, [k \in 1..(16 * x.blocks[i].n_lshifts) |-> <<"LSB", 0>>]))
AllBits(x) == FoldLeft(ReadBits, x, Blocks(x, {i \in DOMAIN x.blocks : x.blocks[i].n_lshifts > 0}))

Rank(abs, k) == Cardinality({j \in 1..k : abs[j] > 0})
Signs(x, i, r) ==
    [r |-> r, blocks |-> [x.blocks EXCEPT ![i].abs =
        [k \in 1..16 |-> IF @[k] > 0 /\ r.vs[Rank(@, k)] = 0 THEN -@[k] ELSE @[k]]]]
ReadSigns(x, i, ix) ==
    Signs(x, i, AskAll(x.r, [k \in 1..Rank(x.blocks[i].abs, 16) |-> <<"SIGN", SignRow(ix, x.blocks[i].sum)>>]))
silk_decode_signs(x, ix) ==
    FoldLeft(LAMBDA y, i : ReadSigns(y, i, ix), x, Blocks(x, {i \in DOMAIN x.blocks : x.blocks[i].sum > 0 \/ x.blocks[i].n_lshifts > 0}))

PulsesRead(x) == [r |-> x.r, pulses |-> [i \in DOMAIN x.blocks |-> x.blocks[i].abs]]
silk_decode_pulses(r, ix, length) ==
    PulsesRead(silk_decode_signs(
        AllBits(AllSplits(ReadCounts(Ask(r, "RATE_LEVELS", ix.type \div 2), BlocksIn(length)))), ix))
=============================================================================

------------------------------ MODULE SilkFrame ------------------------------
(***************************************************************************)
(* A SILK encoder and decoder packet by packet (silk/enc_api.rs,           *)
(* dec_api.rs): the redundant copies of the last packet at the start of    *)
(* each packet, the rate loop that codes a frame again and again into the  *)
(* same buffer until it fits, and what each end keeps for the next frame.  *)
(* Packets may be lost, and concealed or recovered from the packet after.  *)
(*                                                                         *)
(* What the analyses find in the sound is input.  A trial of the rate loop *)
(* costs whatever the talk allows.  The stereo encoder codes mid only.     *)
(***************************************************************************)
EXTENDS SilkSymbols

CONSTANT Talks    \* records [channels, losses, fec, words]: see MCSilkFrame

VARIABLES
  silk_talk,   \* this behaviour's talk
  silk_at,     \* the packet and the frame in it
  silk_turn,   \* "packet", "frame", "trial", "settle", "send", "wire", "decode"
  silk_enc,    \* the encoder's state between frames
  silk_rc,     \* the range coder: [buf, n, tell], and for the properties what it holds of the frame
  silk_loop,   \* the rate loop
  silk_mail,   \* the packet on its way, and what the encoder meant by it
  silk_dec,    \* the decoder's state between frames
  silk_heard   \* the last frame decoded or recovered, or <<>>

silk_vars == <<silk_talk, silk_at, silk_turn, silk_enc, silk_rc, silk_loop, silk_mail, silk_dec, silk_heard>>

MAX_ITER == 6
ZeroBlocks == [b \in 1..20 |-> ZeroBlock]
NewNsq == [frames |-> 0, levels |-> <<>>, seed |-> 0, pulses |-> <<>>]
NewSilkEncoder ==
    [fs |-> 0, nb |-> 0, nf |-> 0, last_gain_index |-> 0, ec_prev_signal_type |-> 0, ec_prev_lag_index |-> 0,
     first |-> TRUE, frame_counter |-> 0, ix |-> NoIndices, levels |-> <<>>, pulses |-> ZeroBlocks, nsq |-> NewNsq,
     lbrr_enabled |-> FALSE, increases |-> 0, lbrr_flags |-> <<0, 0, 0>>, copies |-> <<>>, lbrr_flag |-> 0,
     vad_flags |-> <<0, 0, 0>>]
NewSilkDecoder ==
    [fs |-> 0, nb |-> 4, nf |-> 1, last_gain_index |-> 10, ec_prev_signal_type |-> 0, ec_prev_lag_index |-> 0,
     first |-> TRUE, frames |-> 0, r |-> <<>>, vad |-> <<>>, owed |-> FALSE, lossless |-> TRUE]
NoMail == [payload |-> <<>>, meant |-> <<>>, copies |-> <<>>]
NoRc == [buf |-> <<>>, n |-> 0, tell |-> 0, said |-> <<>>]

Word == silk_talk.words[silk_at.packet]
Utterance == Word.frames[silk_at.frame + 1]
FrameLength(e) == 5 * e.nb * e.fs
Cond(frame) == IF frame = 0 THEN INDEPENDENTLY ELSE CONDITIONALLY

-----------------------------------------------------------------------------
(* The coder.  A rewind takes back the count, and leaves what was written.  *)
PutAll(rc, syms, tell) ==
    [rc EXCEPT !.buf = SubSeq(@, 1, rc.n) \o syms \o SubSeq(@, rc.n + Len(syms) + 1, Len(@)),
               !.n = @ + Len(syms), !.tell = tell]
Saved(rc) == [n |-> rc.n, tell |-> rc.tell, said |-> rc.said]
Rewound(rc, saved) == [rc EXCEPT !.n = saved.n, !.tell = saved.tell, !.said = saved.said]

-----------------------------------------------------------------------------
(* A packet begins: its rate and length, the place of its flags, and the    *)
(* copies of the last packet's frames if they leave room for this one.      *)
FramesIn(ms) == IF ms <= 10 THEN 1 ELSE ms \div 20
SubframesIn(ms) == IF ms = 10 THEN 2 ELSE 4
silk_setup_fs(e, w) ==
    LET changed == e.fs # w.fs
    IN  [e EXCEPT !.fs = w.fs, !.nb = SubframesIn(w.ms), !.nf = FramesIn(w.ms),
                  !.last_gain_index = IF changed THEN 10 ELSE @, !.first = @ \/ changed,
                  !.nsq = IF changed THEN NewNsq ELSE @]
silk_setup_lbrr(e, w) ==
    [e EXCEPT !.lbrr_enabled = w.fec,
              !.increases = IF e.lbrr_enabled THEN MaxOf(2, 7 - ((w.loss * 26214) \div 65536)) ELSE 7]

FrameMaxBits(w, frame) ==
    CASE FramesIn(w.ms) = 2 /\ frame = 0 -> (w.max * 3) \div 5
      [] FramesIn(w.ms) = 3 /\ frame = 0 -> (w.max * 2) \div 5
      [] FramesIn(w.ms) = 3 /\ frame = 1 -> (w.max * 3) \div 4
      [] OTHER -> w.max
Reserve(w) == silk_talk.channels * (IF w.ms = 10 THEN 120 ELSE 170)

silk_encode_stereo ==
    IF silk_talk.channels = 1 THEN <<>>
    ELSE <<<<"STEREO_PRED_JOINT", 0, 0>>, <<"UNIFORM3", 0, 0>>, <<"UNIFORM5", 0, 0>>,
           <<"UNIFORM3", 0, 0>>, <<"UNIFORM5", 0, 0>>, <<"MID_ONLY", 0, 1>>>>

FlagsOf(e) == SubSeq(e.lbrr_flags, 1, e.nf)
Symbol(flags) == FoldLeft(LAMBDA s, k : s + flags[k] * 2^(k - 1), 0, Places(1, Len(flags)))
\* Slip: all copies coded as first frames, though the decoder takes followers for such.
CopyCondFirst(flags, k) == INDEPENDENTLY
CopyCond(flags, k) == IF k > 1 /\ flags[k - 1] # 0 THEN CONDITIONALLY ELSE INDEPENDENTLY

EncodeCopy(x, flags, k) ==
    IF flags[k] = 0 THEN x
    ELSE LET c == x.e.copies[k]
         IN  [e |-> After(x.e, c.ix),
              syms |-> x.syms \o silk_encode_stereo
                       \o silk_encode_indices(x.e, c.ix, TRUE, CopyCond(flags, k))
                       \o silk_encode_pulses(c.ix, c.pulses, FrameLength(x.e))]
CopiesSection(e, flags) ==
    FoldLeft(LAMBDA x, k : EncodeCopy(x, flags, k),
             [e |-> e, syms |-> IF e.nf > 1 THEN <<<<"LBRR_FLAGS", e.nf, Symbol(flags) - 1>>>> ELSE <<>>],
             Places(1, e.nf))

HeaderFlags(e) == (e.nf + 1) * silk_talk.channels
\* Slip: nothing is set aside for the packet's own frames.
RoomForCopiesOnly(w, tell) == tell <= w.max
RoomForCopies(w, tell) == tell <= FrameMaxBits(w, 0) - Reserve(w)

StartPacket ==
    /\ silk_turn = "packet" /\ silk_at.packet <= Len(silk_talk.words)
    /\ \E e \in {silk_setup_lbrr(silk_setup_fs(silk_enc, Word), Word)} :
       \E flags \in {FlagsOf(e)} :
       \E header \in {PutAll(NoRc, [k \in 1..HeaderFlags(e) |-> <<"FLAG", 0, 0>>], HeaderFlags(e))} :
       \E some \in {Symbol(flags) > 0} :
       \E section \in {IF some THEN CopiesSection(e, flags) ELSE [e |-> e, syms |-> <<>>]} :
       \E full \in {PutAll(header, section.syms, header.tell + IF some THEN Word.lbrr_bits ELSE 0)} :
       \E sent \in {some /\ RoomForCopies(Word, full.tell)} :
         /\ silk_rc' = IF sent THEN full ELSE Rewound(full, Saved(header))
         /\ silk_enc' = [(IF sent THEN section.e ELSE e) EXCEPT !.lbrr_flag = IF sent THEN 1 ELSE 0, !.lbrr_flags = <<0, 0, 0>>]
         /\ silk_mail' = [payload |-> <<>>, meant |-> <<>>,
                          copies |-> IF sent THEN SelectSeq([k \in 1..e.nf |-> IF flags[k] = 1 THEN e.copies[k] ELSE <<>>],
                                                            LAMBDA c : c # <<>>) ELSE <<>>]
    /\ silk_turn' = "frame"
    /\ UNCHANGED <<silk_talk, silk_at, silk_loop, silk_dec, silk_heard>>

-----------------------------------------------------------------------------
(* A frame is analysed.  Its pulses lie in the first samples of subframes.  *)
Lay(s, at, v) == [s EXCEPT ![(at \div 16) + 1][(at % 16) + 1] = v]
Laid(fs, mags) ==
    FoldLeft(LAMBDA s, k : Lay(Lay(s, 5 * fs * (k - 1), mags[k]), 5 * fs * (k - 1) + 3, -(mags[k] \div 3)),
             ZeroBlocks, Places(1, Len(mags)))
(* The quantiser writes the frame's samples, and no more of the buffer.     *)
Overwritten(new, old, length) ==
    [b \in 1..20 |-> IF 16 * b <= length THEN new[b]
                     ELSE [k \in 1..16 |-> IF 16 * (b - 1) + k <= length THEN new[b][k] ELSE old[b][k]]]
Magnitudes(u, shifts) ==
    [k \in DOMAIN shifts |-> IF k \in u.stubborn THEN u.mags[k] ELSE Clamp(u.mags[k] - shifts[k], 0, 20)]

IndicesOf(e, u) ==
    LET type == IF u.activity = 0 THEN NO_VOICE ELSE IF u.voiced /\ ~e.first THEN VOICED ELSE UNVOICED
    IN  [type |-> type, offset |-> u.offset, gains |-> <<>>, nlsf |-> SubSeq(u.nlsf, 1, NlsfOrder(e.fs) + 1),
         interp |-> IF e.first \/ e.nb = 2 THEN 4 ELSE u.interp, seed |-> e.frame_counter % 4]
        @@ IF type # VOICED THEN NotVoiced
           ELSE [lag |-> u.lag, contour |-> u.contour % TableSize("PITCH_CONTOUR", Contour(e.fs, e.nb)), per |-> u.per,
                 ltp |-> [k \in 1..e.nb |-> k], scale |-> IF silk_at.frame = 0 THEN u.scale ELSE 0]

(* The copy for the next packet: coarser, and the quantiser runs on a copy. *)
silk_lbrr_encode(e, u, w) ==
    LET fi == silk_at.frame
        first == fi = 0 \/ At(e.lbrr_flags, fi - 1) = 0
        coarse == [e.ix EXCEPT !.seed = (@ + 2) % 4,
                               !.gains[1] = IF first THEN MinOf(@ + e.increases, N_LEVELS_QGAIN - 1) ELSE @]
    IN  IF ~w.fec \/ w.loss = 0 \/ u.activity < 2 THEN e
        ELSE [e EXCEPT !.lbrr_flags = Set(@, fi, 1),
                       !.copies = [k \in (DOMAIN @) \cup {fi + 1} |->
                           IF k # fi + 1 THEN @[k]
                           ELSE [ix |-> coarse,
                                 pulses |-> SubSeq(Laid(e.fs, Magnitudes(u, [j \in 1..e.nb |-> e.increases])), 1,
                                                   BlocksIn(FrameLength(e)))]]]

StartFrame ==
    /\ silk_turn = "frame"
    /\ \E e \in {[silk_enc EXCEPT !.ix = IndicesOf(silk_enc, Utterance), !.frame_counter = (@ + 1) % 4,
                                  !.vad_flags = Set(@, silk_at.frame, IF Utterance.activity = 0 THEN 0 ELSE 1)]} :
       \E q \in {silk_gains_quant(SubSeq(Utterance.levels, 1, e.nb), e.last_gain_index, Cond(silk_at.frame))} :
       \E quantised \in {[e EXCEPT !.ix.gains = q.ind, !.levels = q.levels, !.last_gain_index = q.prev]} :
       \E rc \in {PutAll(silk_rc, silk_encode_stereo, silk_rc.tell + 10 * (silk_talk.channels - 1))} :
       \E max \in {FrameMaxBits(Word, silk_at.frame)} :
       \E cbr \in {Word.cbr /\ silk_at.frame = e.nf - 1} :
         /\ silk_enc' = silk_lbrr_encode(quantised, Utterance, Word)
         /\ silk_rc' = rc
         /\ silk_loop' =
              [iter |-> 0, max |-> max, cbr |-> cbr, margin |-> IF cbr THEN 5 ELSE max \div 4,
               start |-> [n |-> rc.n, tell |-> rc.tell, said |-> <<>>, nsq |-> e.nsq, seed |-> e.ix.seed,
                          lag |-> e.ec_prev_lag_index, type |-> e.ec_prev_signal_type, gain |-> e.last_gain_index],
               kept |-> <<>>, n_bits |-> 0, found_lower |-> FALSE, found_upper |-> FALSE,
               bits_lower |-> 0, bits_upper |-> 0, mult_lower |-> 0, mult_upper |-> 0, id_lower |-> <<>>, id_upper |-> <<>>,
               mult |-> 256, mults |-> [k \in 1..e.nb |-> 256],
               lock |-> [k \in 1..e.nb |-> FALSE], best_mult |-> [k \in 1..e.nb |-> 256], best_sum |-> [k \in 1..e.nb |-> 0]]
    /\ silk_turn' = "trial"
    /\ UNCHANGED <<silk_talk, silk_at, silk_mail, silk_dec, silk_heard>>

-----------------------------------------------------------------------------
(* The rate loop.  A trial quantises with the gains of the moment, and is   *)
(* coded over the last one; gains tried before are not tried again.         *)
GAIN_STEPS == <<62, 73, 85, 100, 117, 137, 160, 187, 219, 256, 300, 351, 410, 480, 562, 658, 770, 901>>
LevelShift(mult) == Cardinality({k \in DOMAIN GAIN_STEPS : GAIN_STEPS[k] <= mult}) - 10

ZERO_FRAME_BITS == 105    \* the cost of a frame without pulses, as enc_api.rs:783 measured it

\* Slip: the quantiser goes on from where the last trial left it.
RetriedFromThere(e, start) ==
    [e EXCEPT !.ix.seed = start.seed, !.ec_prev_lag_index = start.lag, !.ec_prev_signal_type = start.type]

(* The encoder as it was before the first trial.                            *)
Retried(e, start) ==
    [e EXCEPT !.nsq = start.nsq, !.ix.seed = start.seed,
              !.ec_prev_lag_index = start.lag, !.ec_prev_signal_type = start.type]

(* The quantiser picks one of its paths, and the seed that goes with it.    *)
Quantised(e, u) ==
    LET shifts == [k \in 1..e.nb |-> LevelShift(silk_loop.mults[k])]
        new == Overwritten(Laid(e.fs, Magnitudes(u, shifts)), e.pulses, FrameLength(e))
        seed == (e.ix.seed + silk_loop.iter) % 4
    IN  [e EXCEPT !.pulses = new, !.ix.seed = seed,
                  !.nsq = [frames |-> @.frames + 1, levels |-> e.levels, seed |-> seed,
                           pulses |-> SubSeq(new, 1, BlocksIn(FrameLength(e)))]]

Written(rc, e, tell) ==
    [PutAll(rc, silk_encode_indices(e, e.ix, FALSE, Cond(silk_at.frame))
                \o silk_encode_pulses(e.ix, e.pulses, FrameLength(e)), tell)
     EXCEPT !.said = [ix |-> e.ix, pulses |-> SubSeq(e.pulses, 1, BlocksIn(FrameLength(e)))]]

(* What is sent when nothing fits: no pulses, the gain left where it was.   *)
Emptied(e, start) ==
    [e EXCEPT !.last_gain_index = start.gain, !.pulses = ZeroBlocks,
              !.ix.gains = [k \in DOMAIN @ |-> IF k = 1 /\ silk_at.frame = 0 THEN start.gain ELSE 4],
              !.ec_prev_lag_index = start.lag, !.ec_prev_signal_type = start.type]

Tried == silk_enc.ix.gains \in {silk_loop.id_lower, silk_loop.id_upper}
Costs ==
    LET l == silk_loop
        asked == IF Utterance.strained THEN {l.max - l.margin - 12, l.max - 1, l.max + 25} ELSE {l.max - 1}
    IN  {MaxOf(l.start.tell + 40, a) : a \in asked}

Trial ==
    /\ silk_turn = "trial" /\ ~Tried
    /\ LET l == silk_loop
       IN  \E before \in {IF l.iter > 0 THEN Rewound(silk_rc, l.start) ELSE silk_rc} :
           \E e \in {Quantised(IF l.iter > 0 THEN Retried(silk_enc, l.start) ELSE silk_enc, Utterance)} :
           \E tell \in Costs :
           \E lost \in {l.iter = MAX_ITER /\ ~l.found_lower /\ tell > l.max} :
           \E final \in {IF lost THEN Emptied(e, l.start) ELSE e} :
           \E n_bits \in {IF lost THEN l.start.tell + ZERO_FRAME_BITS ELSE tell} :
             /\ silk_rc' = IF lost THEN Written(Rewound(Written(before, e, tell), l.start), final, n_bits)
                           ELSE Written(before, e, tell)
             /\ silk_enc' = After(final, final.ix)
             /\ silk_loop' = [l EXCEPT !.n_bits = n_bits]
             /\ silk_turn' = IF ~l.cbr /\ l.iter = 0 /\ n_bits <= l.max THEN "settle" ELSE "judge"
    /\ UNCHANGED <<silk_talk, silk_at, silk_mail, silk_dec, silk_heard>>

Recall ==
    /\ silk_turn = "trial" /\ Tried
    /\ silk_loop' = [silk_loop EXCEPT
         !.n_bits = IF silk_enc.ix.gains = silk_loop.id_lower THEN silk_loop.bits_lower ELSE silk_loop.bits_upper]
    /\ silk_turn' = "judge"
    /\ UNCHANGED <<silk_talk, silk_at, silk_enc, silk_rc, silk_mail, silk_dec, silk_heard>>

(* The bounds found so far; the best trial that fits is kept.               *)
Bounded(l, e, rc) ==
    IF l.n_bits > l.max
    THEN IF ~l.found_lower /\ l.iter >= 2 THEN [l EXCEPT !.found_upper = FALSE, !.id_upper = <<>>]
         ELSE [l EXCEPT !.found_upper = TRUE, !.bits_upper = l.n_bits, !.mult_upper = l.mult, !.id_upper = e.ix.gains]
    ELSE [l EXCEPT !.found_lower = TRUE, !.bits_lower = l.n_bits, !.mult_lower = l.mult, !.id_lower = e.ix.gains,
                   !.kept = IF e.ix.gains = l.id_lower THEN @
                            ELSE [rc |-> Saved(rc), buf |-> SubSeq(rc.buf, 1, rc.n), nsq |-> e.nsq,
                                  gain |-> e.last_gain_index]]

SubframeSum(e, k) ==
    FoldLeft(LAMBDA s, j : s + Abs(At(At(e.pulses, j \div 16), j % 16)), 0, Places(5 * e.fs * (k - 1), 5 * e.fs))
(* A subframe that coarser gains do not make cheaper keeps its best gain.   *)
Locked(l, e) ==
    LET sums == [k \in 1..e.nb |-> SubframeSum(e, k)]
        better == [k \in 1..e.nb |-> l.iter = 0 \/ (sums[k] < l.best_sum[k] /\ ~l.lock[k])]
    IN  IF l.found_lower \/ l.n_bits <= l.max THEN l
        ELSE [l EXCEPT !.best_sum = [k \in DOMAIN @ |-> IF better[k] THEN sums[k] ELSE @[k]],
                       !.best_mult = [k \in DOMAIN @ |-> IF better[k] THEN l.mult ELSE @[k]],
                       !.lock = [k \in DOMAIN @ |-> @[k] \/ ~better[k]]]

Between(l) ==
    LET delta == l.mult_upper - l.mult_lower
        guess == l.mult_lower + Quot(delta * (l.max - l.bits_lower), l.bits_upper - l.bits_lower)
        lower_limit == l.mult_lower + (delta \div 4)
        upper_limit == l.mult_upper - (delta \div 4)
    IN  IF guess > lower_limit THEN lower_limit ELSE IF guess < upper_limit THEN upper_limit ELSE guess
NextMult(l) ==
    IF l.found_lower /\ l.found_upper THEN Between(l)
    ELSE IF l.n_bits > l.max THEN MinOf(1024, (l.mult * 3) \div 2)
    ELSE MaxOf(64, (l.mult * 4) \div 5)
Aimed(l) ==
    LET mult == NextMult(l)
    IN  [l EXCEPT !.iter = @ + 1, !.mult = mult,
                  !.mults = [k \in DOMAIN @ |-> IF l.lock[k] THEN l.best_mult[k] ELSE mult]]

\* Slip: the bytes written since are left in the buffer.
TakenBackBare(rc, kept_trial) == Rewound(rc, kept_trial.rc)
(* The kept trial comes back: count, symbols, quantiser and gain.           *)
TakenBack(rc, kept_trial) ==
    [Rewound(rc, kept_trial.rc) EXCEPT !.buf = kept_trial.buf \o SubSeq(@, Len(kept_trial.buf) + 1, Len(@))]

Judge ==
    /\ silk_turn = "judge"
    /\ LET l == silk_loop
           back == l.found_lower /\ (silk_enc.ix.gains = l.id_lower \/ l.n_bits > l.max)
       IN  \/ /\ l.iter = MAX_ITER
              /\ silk_turn' = "settle"
              /\ silk_rc' = IF back THEN TakenBack(silk_rc, l.kept) ELSE silk_rc
              /\ silk_enc' = IF back THEN [silk_enc EXCEPT !.nsq = l.kept.nsq, !.last_gain_index = l.kept.gain] ELSE silk_enc
              /\ UNCHANGED silk_loop
           \/ /\ l.iter < MAX_ITER /\ l.n_bits \in (l.max - l.margin)..l.max
              /\ silk_turn' = "settle"
              /\ UNCHANGED <<silk_rc, silk_enc, silk_loop>>
           \/ /\ l.iter < MAX_ITER /\ l.n_bits \notin (l.max - l.margin)..l.max
              /\ \E aimed \in {Aimed(Locked(Bounded(l, silk_enc, silk_rc), silk_enc))} :
                 \E q \in {silk_gains_quant([k \in 1..silk_enc.nb |-> Utterance.levels[k] + LevelShift(aimed.mults[k])],
                                             l.start.gain, Cond(silk_at.frame))} :
                   /\ silk_loop' = aimed
                   /\ silk_enc' = [silk_enc EXCEPT !.ix.gains = q.ind, !.levels = q.levels, !.last_gain_index = q.prev]
              /\ silk_turn' = "trial"
              /\ UNCHANGED silk_rc
    /\ UNCHANGED <<silk_talk, silk_at, silk_mail, silk_dec, silk_heard>>

(* Whatever the loop ended with must fit.                                   *)
SettleFrame ==
    /\ silk_turn = "settle"
    /\ LET l == silk_loop
           big == silk_rc.tell > l.max
       IN  \E e \in {IF big THEN [Emptied(silk_enc, l.start) EXCEPT !.ix.seed = l.start.seed] ELSE silk_enc} :
           \E rc \in {IF big THEN Written(Rewound(silk_rc, l.start), e, l.start.tell + ZERO_FRAME_BITS) ELSE silk_rc} :
             /\ silk_rc' = [rc EXCEPT !.said = <<>>]
             /\ silk_enc' = [(IF big THEN After(e, e.ix) ELSE e) EXCEPT !.first = FALSE]
             /\ silk_mail' = [silk_mail EXCEPT !.meant = Append(@,
                    [ix |-> rc.said.ix, pulses |-> rc.said.pulses, nsq |-> e.nsq, gain |-> e.last_gain_index,
                     fits |-> rc.tell <= l.max])]
    /\ silk_at' = [silk_at EXCEPT !.frame = @ + 1]
    /\ silk_turn' = IF silk_at.frame + 1 = silk_enc.nf THEN "send" ELSE "frame"
    /\ silk_loop' = <<>>
    /\ UNCHANGED <<silk_talk, silk_dec, silk_heard>>

(* The flags take their place at the front of the packet.                   *)
HeaderValues(e) ==
    SubSeq(e.vad_flags, 1, e.nf) \o <<e.lbrr_flag>> \o Zeros((e.nf + 1) * (silk_talk.channels - 1))
SendPacket ==
    /\ silk_turn = "send"
    /\ silk_mail' = [silk_mail EXCEPT !.payload =
         [k \in 1..HeaderFlags(silk_enc) |-> <<"FLAG", 0, HeaderValues(silk_enc)[k]>>]
         \o SubSeq(silk_rc.buf, HeaderFlags(silk_enc) + 1, silk_rc.n)]
    /\ silk_turn' = "wire" /\ silk_rc' = NoRc
    /\ silk_at' = [silk_at EXCEPT !.frame = 0]
    /\ UNCHANGED <<silk_talk, silk_enc, silk_loop, silk_dec, silk_heard>>

-----------------------------------------------------------------------------
(* The decoder.                                                             *)
silk_decoder_set_fs(d, w) ==
    LET changed == d.fs # w.fs
    IN  [d EXCEPT !.fs = w.fs, !.nb = SubframesIn(w.ms), !.nf = FramesIn(w.ms),
                  !.last_gain_index = IF changed THEN 10 ELSE @, !.first = @ \/ changed,
                  !.frames = IF changed THEN 0 ELSE @]

(* The flags of a packet of so many channels, and which copies follow.      *)
Which(r, nf, vad) ==
    [r |-> r, vad |-> vad, lbrr_flags |-> [k \in 1..nf |-> ((r.v + 1) \div 2^(k - 1)) % 2]]
FlagsRead(r, nf) ==
    IF r.vs[nf + 1] = 0 THEN [r |-> r, vad |-> SubSeq(r.vs, 1, nf), lbrr_flags |-> Zeros(nf)]
    ELSE Which(IF nf = 1 THEN [r EXCEPT !.v = 0] ELSE Ask(r, "LBRR_FLAGS", nf), nf, SubSeq(r.vs, 1, nf))
ReadFlags(nf, channels) ==
    FlagsRead(AskAll(Reader(silk_mail.payload, 0), [k \in 1..((nf + 1) * channels) |-> <<"FLAG", 0>>]), nf)

STEREO == <<<<"STEREO_PRED_JOINT", 0>>, <<"UNIFORM3", 0>>, <<"UNIFORM5", 0>>, <<"UNIFORM3", 0>>, <<"UNIFORM5", 0>>,
            <<"MID_ONLY", 0>>>>
ReadStereo(r, channels) == IF channels = 2 THEN AskAll(r, STEREO) ELSE r

(* A frame or a copy: its indices, its pulses, what it leaves behind.       *)
WithPulses(y, d, ix) == [d |-> After(d, ix), r |-> y.r, ix |-> ix, pulses |-> y.pulses]
Pulsed(r, d) ==
    WithPulses(IF r.ok THEN silk_decode_pulses(r, r.ix, FrameLength(d)) ELSE [r |-> r, pulses |-> <<>>], d, r.ix)
DecodeOne(r, d, vad, lbrr, cond) == Pulsed(silk_decode_indices(r, d, vad, lbrr, cond), d)

SkipCond(flags, k) == IF k > 1 /\ flags[k - 1] = 1 THEN CONDITIONALLY ELSE INDEPENDENTLY
SkipCopy(x, flags, k) ==
    IF flags[k] = 0 \/ ~x.r.ok THEN x
    ELSE DecodeOne(ReadStereo(x.r, silk_talk.channels), x.d, TRUE, TRUE, SkipCond(flags, k))
SkipCopies(h, d) ==
    FoldLeft(LAMBDA x, k : SkipCopy(x, h.lbrr_flags, k), [r |-> h.r, d |-> d, ix |-> NoIndices, pulses |-> <<>>],
             Places(1, d.nf))
Opened(x, h) == [x.d EXCEPT !.r = x.r, !.vad = h.vad]
OpenWith(d, h) == Opened(SkipCopies(h, d), h)
OpenPacket(d) == OpenWith(d, ReadFlags(d.nf, silk_talk.channels))

(* Gains become levels, and the synthesis runs over one more frame.         *)
Levelled(x, q) ==
    [d |-> [x.d EXCEPT !.last_gain_index = q.prev, !.first = FALSE, !.frames = @ + 1],
     heard |-> [frames |-> x.d.frames + 1, levels |-> q.levels, seed |-> x.ix.seed, pulses |-> x.pulses]]
Synthesised(x, cond) == Levelled(x, silk_gains_dequant(x.ix.gains, x.d.last_gain_index, cond))

DecodeFrame ==
    /\ silk_turn \in {"wire", "decode"} /\ ~silk_dec.owed
    /\ \E d \in {IF silk_turn = "wire" THEN OpenPacket(silk_decoder_set_fs(silk_dec, Word)) ELSE silk_dec} :
       \E x \in {DecodeOne(ReadStereo(d.r, silk_talk.channels), d, At(d.vad, silk_at.frame) = 1, FALSE,
                            Cond(silk_at.frame))} :
       \E y \in {Synthesised(x, Cond(silk_at.frame))} :
       \E last \in {silk_at.frame + 1 = d.nf} :
         /\ silk_dec' = [y.d EXCEPT !.r = IF last THEN <<>> ELSE x.r]
         /\ silk_heard' = [of |-> At(silk_mail.meant, silk_at.frame), met |-> x.r.ok,
                           whole |-> ~last \/ x.r.at = Len(x.r.syms), ix |-> x.ix, out |-> y.heard]
         /\ silk_turn' = IF last THEN "packet" ELSE "decode"
         /\ silk_at' = IF last THEN [packet |-> silk_at.packet + 1, frame |-> 0] ELSE [silk_at EXCEPT !.frame = @ + 1]
    /\ UNCHANGED <<silk_talk, silk_enc, silk_rc, silk_loop, silk_mail>>

(* A lost packet is missing until it is concealed, or recovered from the    *)
(* copies in the packet after it.                                           *)
LosePacket ==
    /\ silk_turn = "wire" /\ silk_talk.losses
    /\ silk_dec' = [silk_dec EXCEPT !.owed = TRUE, !.lossless = FALSE, !.frames = 0]
    /\ silk_turn' = "packet" /\ silk_heard' = <<>>
    /\ silk_at' = [packet |-> silk_at.packet + 1, frame |-> 0]
    /\ UNCHANGED <<silk_talk, silk_enc, silk_rc, silk_loop, silk_mail>>

Conceal ==
    /\ silk_turn = "wire" /\ silk_dec.owed
    /\ silk_dec' = [silk_dec EXCEPT !.owed = FALSE]
    /\ silk_heard' = <<>>
    /\ UNCHANGED <<silk_talk, silk_at, silk_turn, silk_enc, silk_rc, silk_loop, silk_mail>>

(* decode_fec sets the decoder to one channel, and decodes one frame.       *)
Recover ==
    /\ silk_turn = "wire" /\ silk_dec.owed /\ silk_talk.fec
    /\ \E d \in {silk_decoder_set_fs(silk_dec, Word)} :
       \E h \in {ReadFlags(d.nf, 1)} :
       \E x \in {DecodeOne(h.r, d, FALSE, TRUE, INDEPENDENTLY)} :
       \E y \in {Synthesised(x, INDEPENDENTLY)} :
         /\ silk_dec' = [(IF h.lbrr_flags[1] = 1 THEN y.d ELSE d) EXCEPT !.owed = FALSE, !.frames = 0]
         /\ silk_heard' = IF h.lbrr_flags[1] = 1 THEN [copies |-> <<[ix |-> x.ix, pulses |-> x.pulses]>>]
                          ELSE [copies |-> <<>>]
    /\ UNCHANGED <<silk_talk, silk_at, silk_turn, silk_enc, silk_rc, silk_loop, silk_mail>>

-----------------------------------------------------------------------------
SilkFrameInit ==
    /\ silk_talk \in Talks
    /\ silk_at = [packet |-> 1, frame |-> 0] /\ silk_turn = "packet"
    /\ silk_enc = NewSilkEncoder /\ silk_dec = NewSilkDecoder
    /\ silk_rc = NoRc /\ silk_loop = <<>> /\ silk_heard = <<>>
    /\ silk_mail = NoMail

SilkFrameNext ==
    \/ StartPacket \/ StartFrame \/ Trial \/ Recall \/ Judge \/ SettleFrame \/ SendPacket
    \/ DecodeFrame \/ LosePacket \/ Conceal \/ Recover

SilkFrameSpec == SilkFrameInit /\ [][SilkFrameNext]_silk_vars

-----------------------------------------------------------------------------
Heard == silk_heard # <<>> /\ "of" \in DOMAIN silk_heard
FromCopies == silk_heard # <<>> /\ "copies" \in DOMAIN silk_heard

(* Whatever was lost before, and however often a frame was coded, the       *)
(* decoder asks for the symbols the encoder wrote, in their tables, up to   *)
(* the last one: frames, copies, and what the coding of lags remembers.  A  *)
(* packet that was lost is recovered from the copies the next one brings.   *)
SilkMirrors ==
    /\ \A s \in Range(silk_mail.payload) : InTable(s)
    /\ Heard =>
        /\ silk_heard.met /\ silk_heard.whole
        /\ silk_heard.ix = silk_heard.of.ix
        /\ silk_heard.out.pulses = silk_heard.of.pulses
    /\ FromCopies => silk_heard.copies = silk_mail.copies

(* The trial that was sent fits, and is the one the encoder goes on from:   *)
(* without losses the decoder has the encoder's gain, and the pulses, seed  *)
(* and gains its quantiser last ran with, unless the pulses were dropped.   *)
Dropped(f) == f.pulses = SubSeq(ZeroBlocks, 1, Len(f.pulses))
QuantisersInStep ==
    Heard =>
        /\ silk_heard.of.fits
        /\ silk_dec.lossless =>
            /\ silk_dec.last_gain_index = silk_heard.of.gain
            /\ silk_heard.out.frames = silk_heard.of.nsq.frames
            /\ Dropped(silk_heard.of) \/ silk_heard.out = silk_heard.of.nsq
=============================================================================

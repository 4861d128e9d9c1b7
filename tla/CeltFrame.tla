------------------------------- MODULE CeltFrame -------------------------------
(***************************************************************************)
(* A CELT encoder and decoder frame by frame (celt.rs): the symbols of a   *)
(* frame in their order with every guard on the bits left, the encoder's   *)
(* choice of the frame's size after part of it is written, and the state   *)
(* each end keeps from frame to frame: energies, pitch filters, VBR        *)
(* reservoir, and the decoder's concealment of lost frames.                *)
(*                                                                         *)
(* What the analysis of the sound decides is input: a sound says the       *)
(* verdicts and levels of a frame.  The shapes of bands are one symbol, as *)
(* is what the allocation codes; AllocationMirrors and PulsesExact are     *)
(* about those.                                                            *)
(***************************************************************************)
EXTENDS CeltEnergy

CONSTANT Clips    \* records [channels, quality, losses, sounds]: see MCCeltFrame

(* What the code is called with: frames of 120 to 960 samples with room for *)
(* what is in the coder already, and one band layout to a stream, as the    *)
(* encoder is reset when the mode changes (lib.rs:1391).                    *)
Playable(clip, f) ==
    /\ f.lm \in 0..3 /\ f.start \in 0..20 /\ f.end \in 1..NbBands /\ f.start < f.end
    /\ f.bytes \in Nat /\ f.bytes >= 2 /\ f.vbr \in Nat /\ f.tell0 \in Nat /\ f.tell0 <= 64 * f.bytes
    /\ f.silent \in BOOLEAN /\ f.transient \in BOOLEAN
    /\ f.pitch \in [t : 15..1022, g : 0..8, tapset : 0..2]
    /\ f.levels \in [1..2 -> [1..NbBands -> Int]]
    /\ f.tf \in [1..NbBands -> 0..1] /\ f.tf_select \in 0..1 /\ f.spread \in 0..3 /\ f.trim \in 0..10
    /\ f.boosts \in [1..NbBands -> Nat] /\ f.asks \in Int /\ f.spare \in Nat
    /\ f.start = clip.sounds[1].start
ASSUME ClipsAssumption ==
    \A clip \in Clips :
      /\ clip.channels \in 1..2 /\ clip.out \in 1..2 /\ clip.losses \in BOOLEAN
      /\ Len(clip.sounds) \in Nat /\ \A n \in 1..Len(clip.sounds) : Playable(clip, clip.sounds[n])

VARIABLES
  tape,      \* this behaviour's clip
  spool,     \* how many of its sounds have been encoded
  turn,      \* "record", the encoder's stages, "air", the decoder's, "heard"
  encst,     \* the encoder's state between frames
  decst,     \* the decoder's state between frames
  rcod,      \* the coder of the frame at work
  work,      \* what the end at work knows of the frame so far
  pairing    \* for the properties: the encoder's and the decoder's last frames

cvars == <<tape, spool, turn, encst, decst, rcod, work, pairing>>

QUIET == -28 * ONE
Flat(v) == [j \in 1..NbBands |-> v]
Spread(v) == [c \in 1..2 |-> Flat(v)]

(* Pitch filters: period, gain in the coded steps (0: off) and tap set.     *)
NoPitch == [t |-> 15, g |-> 0, tapset |-> 0]
Sounding(f) == IF f.g = 0 THEN NoPitch ELSE f

NewCeltEncoder == [e |-> Spread(0), pitch |-> NoPitch, delayed |-> 0, transients |-> 0,
               reservoir |-> 0, drift |-> 0, offset |-> 0, count |-> 0]
NewCeltDecoder == [e |-> Spread(0), e2 |-> Spread(QUIET), e3 |-> Spread(QUIET), background |-> Spread(0),
               pitch |-> NoPitch, pitch_old |-> NoPitch,
               loss_duration |-> 0, plc_duration |-> 0, skip_plc |-> TRUE, periodic |-> FALSE,
               fold |-> FALSE, last_end |-> NbBands]

NoFrame == [silent |-> FALSE, pitch |-> NoPitch, transient |-> FALSE, p |-> 0, s |-> 0,
            tf |-> <<>>, spread |-> 2, boosts |-> <<>>, boosted |-> 0, trim |-> 5]
NoCoder == [frac |-> 0, bytes |-> 0, syms |-> <<>>, place |-> 0, ok |-> TRUE, got |-> 0]
FreshCoder(f, bytes, syms) == [frac |-> f.tell0, bytes |-> bytes, syms |-> syms, place |-> 0, ok |-> TRUE, got |-> 0]

-----------------------------------------------------------------------------
(* The symbols of a frame, written and read.                                *)
FastForward(rc) == [rc EXCEPT !.frac = @ + 8 * (TotalBits(rc) - TellBits(rc))]

(* A silent frame has no bits left to anyone; under VBR also hardly a byte. *)
Hushed(rc, vbr) ==
    FastForward(IF vbr > 0 THEN [rc EXCEPT !.bytes = MaxOf(2, MinOf(@, ((TellBits(rc) + 7) \div 8) + 2))] ELSE rc)
EncSilence(rc, silent, vbr) ==
    LET flagged == EncBit(rc, 15, silent)
    IN  IF TellBits(rc) # 1 THEN rc ELSE IF silent THEN Hushed(flagged, vbr) ELSE flagged
DecSilence(rc) ==
    LET flagged == IF TellBits(rc) >= TotalBits(rc) THEN [rc EXCEPT !.got = 1]
                   ELSE IF TellBits(rc) = 1 THEN DecBit(rc, 15) ELSE [rc EXCEPT !.got = 0]
    IN  IF flagged.got = 1 THEN FastForward(flagged) ELSE flagged

(* The pitch filter: octave and position in it, gain, tap set.              *)
Octave(t) ==
    CASE t + 1 < 32 -> 0 [] t + 1 \in 32..63 -> 1 [] t + 1 \in 64..127 -> 2
      [] t + 1 \in 128..255 -> 3 [] t + 1 \in 256..511 -> 4 [] OTHER -> 5
Lowest(octave) == 16 * Pow2(octave)

EncPitch(rc, f) ==
    LET flagged == EncBit(rc, 1, f.g > 0)
        placed == EncRaw(PutSym(flagged, "octave", 6, Octave(f.t), 21), f.t + 1 - Lowest(Octave(f.t)), 4 + Octave(f.t))
    IN  IF f.g = 0 THEN flagged
        ELSE PutSym(EncRaw(placed, f.g - 1, 3), "tapset", 2, f.tapset, IF f.tapset = 0 THEN 8 ELSE 16)

DecTapset(rc, t, g) ==
    LET r == AskSym(rc, "tapset", 2)
    IN  IF TellBits(rc) + 2 <= TotalBits(rc) THEN <<r, [t |-> t, g |-> g, tapset |-> r.got]>>
        ELSE <<rc, [t |-> t, g |-> g, tapset |-> 0]>>
DecPeriod(rc, octave) ==
    LET place == DecRaw(rc, 4 + octave)
        gain == DecRaw(place, 3)
    IN  DecTapset(gain, Lowest(octave) + place.got - 1, gain.got + 1)
DecOctave(rc) == DecPeriod(rc, rc.got)
DecPitch(rc) ==
    LET flagged == DecBit(rc, 1)
    IN  IF flagged.got = 0 THEN <<flagged, NoPitch>> ELSE DecOctave(AskSym(flagged, "octave", 6))

PitchSent(rc, start, silent) == start = 0 /\ ~silent /\ TellBits(rc) + 16 <= TotalBits(rc)
TransientSent(rc, lm) == lm > 0 /\ TellBits(rc) + 3 <= TotalBits(rc)

(* Time-frequency resolution: a change flag per band, then which of two     *)
(* tables, when they differ.                                                *)
TF_SELECT_TABLE == <<<<0, -1, 0, -1, 0, -1, 0, -1>>, <<0, -1, 0, -2, 1, 0, 1, -1>>,
                     <<0, -2, 0, -3, 2, 0, 1, -1>>, <<0, -2, 0, -3, 3, 0, 1, -1>>>>
tf_select(lm, transient, which, changed) ==
    TF_SELECT_TABLE[lm + 1][(IF transient THEN 4 ELSE 0) + 2 * which + changed + 1]

TfReserve(rc, lm, transient) ==
    IF lm > 0 /\ TellBits(rc) + (IF transient THEN 2 ELSE 4) < TotalBits(rc) THEN 1 ELSE 0
TfLogp(first, transient) == IF first THEN (IF transient THEN 2 ELSE 4) ELSE IF transient THEN 4 ELSE 5

(* r: [rc, res, curr, changed], through the first n bands.                  *)
TfSent(rc, k, transient, budget) == TellBits(rc) + TfLogp(k = 0, transient) <= budget
TfFollows(r, rc, now) == [rc |-> rc, res |-> Append(r.res, now), curr |-> now, changed |-> MaxOf(r.changed, now)]
TfStays(r) == [r EXCEPT !.res = Append(@, r.curr)]
TfStart(rc) == [rc |-> rc, res |-> <<>>, curr |-> 0, changed |-> 0]

EncTfStep(r, want, transient, budget, k) ==
    IF TfSent(r.rc, k, transient, budget)
    THEN TfFollows(r, EncBit(r.rc, TfLogp(k = 0, transient), want[k + 1] # r.curr), want[k + 1])
    ELSE TfStays(r)
EncTf(r, want, transient, budget, n) ==
    LET t[k \in 0..n] == IF k = 0 THEN r ELSE EncTfStep(t[k - 1], want, transient, budget, k - 1) IN t[n]

DecTfStep(r, transient, budget, k) ==
    LET bit == DecBit(r.rc, TfLogp(k = 0, transient))
    IN  IF TfSent(r.rc, k, transient, budget) THEN TfFollows(r, bit, (r.curr + bit.got) % 2) ELSE TfStays(r)
DecTf(r, transient, budget, n) ==
    LET t[k \in 0..n] == IF k = 0 THEN r ELSE DecTfStep(t[k - 1], transient, budget, k - 1) IN t[n]

Resolved(rc, r, lm, transient, which) ==
    <<rc, [k \in 1..Len(r.res) |-> tf_select(lm, transient, which, r.res[k])]>>
TfChoice(r, lm, transient, reserve) ==
    reserve = 1 /\ tf_select(lm, transient, 0, r.changed) # tf_select(lm, transient, 1, r.changed)

(* The choice of the table: at the encoder, and as read.                    *)
EncChoice(r, which, lm, transient, reserve) ==
    IF TfChoice(r, lm, transient, reserve) THEN Resolved(EncBit(r.rc, 1, which = 1), r, lm, transient, which)
    ELSE Resolved(r.rc, r, lm, transient, 0)
DecChoice(r, bit, lm, transient, reserve) ==
    IF TfChoice(r, lm, transient, reserve) THEN Resolved(bit, r, lm, transient, bit.got)
    ELSE Resolved(r.rc, r, lm, transient, 0)

tf_encode(rc, want, which, lm, transient) ==
    LET reserve == TfReserve(rc, lm, transient)
    IN  EncChoice(EncTf(TfStart(rc), want, transient, TotalBits(rc) - reserve, Len(want)), which, lm, transient, reserve)
tf_decode(rc, n, lm, transient) ==
    LET reserve == TfReserve(rc, lm, transient)
        r == DecTf(TfStart(rc), transient, TotalBits(rc) - reserve, n)
    IN  DecChoice(r, DecBit(r.rc, 1), lm, transient, reserve)

(* Dynamic allocation: boosts of a quantum each, band after band.           *)
BandWidth(p, j) == p.channels * Width(j) * Pow2(p.lm)
Quanta(p, j) == MinOf(8 * BandWidth(p, j), MaxOf(48, BandWidth(p, j)))
(* b: [rc, logp, total, boost], after so many boosts of band j.             *)
BoostMay(b, p, j) == b.rc.frac + 8 * b.logp < 8 * TotalBits(b.rc) - b.total /\ b.boost < Cap(j, p.lm, p.channels)
BoostBy(b, rc, quanta) == [rc |-> rc, logp |-> 1, total |-> b.total + quanta, boost |-> b.boost + quanta]
EncOne(b, q) == BoostBy(b, EncBit(b.rc, b.logp, TRUE), q)
DecOne(b, q) == BoostBy(b, DecBit(b.rc, b.logp), q)

EncBoosts(b, q, n) ==
    LET t[k \in 0..n] == IF k = 0 THEN b ELSE EncOne(t[k - 1], q) IN t[n]
DecBoosts(b, q, n) ==
    LET t[k \in 0..n] == IF k = 0 THEN b ELSE DecOne(t[k - 1], q) IN t[n]

(* Boosts sent: as many as are wanted, while there may be one more.         *)
EncMore(b, p, j, want, k) == k < want /\ BoostMay(EncBoosts(b, Quanta(p, j), k), p, j)
EncCount(b, p, j, want) ==
    CHOOSE n \in 0..want : ~EncMore(b, p, j, want, n) /\ \A k \in 0..(n - 1) : EncMore(b, p, j, want, k)
EncBoost(b, p, j, want) ==
    LET last == EncBoosts(b, Quanta(p, j), EncCount(b, p, j, want))
    IN  IF BoostMay(last, p, j) THEN [last EXCEPT !.rc = EncBit(@, last.logp, FALSE)] ELSE last

(* Boosts read: until the answer is no, or there may be no more.            *)
DecMore(b, p, j, k) ==
    LET now == DecBoosts(b, Quanta(p, j), k) IN BoostMay(now, p, j) /\ DecBit(now.rc, now.logp).got # 0
DecCount(b, p, j) ==
    CHOOSE n \in 0..(8 * TotalBits(b.rc)) : ~DecMore(b, p, j, n) /\ \A k \in 0..(n - 1) : DecMore(b, p, j, k)
DecBoost(b, p, j) ==
    LET last == DecBoosts(b, Quanta(p, j), DecCount(b, p, j))
    IN  IF BoostMay(last, p, j) THEN [last EXCEPT !.rc = DecBit(@, last.logp)] ELSE last

(* d: [rc, boosts, total, logp], after the first n bands.                   *)
NoBoosts(rc) == [rc |-> rc, boosts |-> <<>>, total |-> 0, logp |-> 6]
Unboosted(d) == [rc |-> d.rc, logp |-> d.logp, total |-> d.total, boost |-> 0]
Boosted(d, b) ==
    [rc |-> b.rc, boosts |-> Append(d.boosts, b.boost), total |-> b.total,
     logp |-> IF b.boost > 0 THEN MaxOf(2, d.logp - 1) ELSE d.logp]

EncDynStep(d, p, want, k) == Boosted(d, EncBoost(Unboosted(d), p, p.start + k, want[p.start + k + 1]))
EncDynalloc(d, p, want, n) ==
    LET t[k \in 0..n] == IF k = 0 THEN d ELSE EncDynStep(t[k - 1], p, want, k - 1) IN t[n]
DecDynStep(d, p, k) == Boosted(d, DecBoost(Unboosted(d), p, p.start + k))
DecDynalloc(d, p, n) == LET t[k \in 0..n] == IF k = 0 THEN d ELSE DecDynStep(t[k - 1], p, k - 1) IN t[n]

SpreadSent(rc) == TellBits(rc) + 4 <= TotalBits(rc)
TrimSent(rc, boost) == rc.frac + 48 <= 8 * TotalBits(rc) - boost
SPREAD_COST == <<18, 32, 5, 32>>
TRIM_COST == <<48, 48, 37, 29, 20, 12, 20, 29, 37, 48, 48>>

-----------------------------------------------------------------------------
(* The budget of the bands, and a bit of it reserved for anti-collapse.     *)
AntiCollapse(rc, p, transient) ==
    IF transient /\ p.lm >= 2 /\ 8 * TotalBits(rc) - rc.frac - 1 >= 8 * (p.lm + 2) THEN 8 ELSE 0
AllocBits(rc, p, transient) == 8 * TotalBits(rc) - rc.frac - 1 - AntiCollapse(rc, p, transient)

(* Stand-in for what clt_compute_allocation derives from its arguments:     *)
(* fine bits and priorities; what it codes on the way is one symbol.        *)
FineBits(p, avail, boosts, trim) ==
    [j \in 1..NbBands |->
        IF j - 1 \in p.start..(p.end - 1)
        THEN Clamp(((avail * (trim + 6)) \div 16 + MinOf(avail, boosts[j - p.start]))
                       \div (24 * p.channels * (p.end - p.start)), 0, MAX_FINE_BITS)
        ELSE 0]
Priorities(avail) == [j \in 1..NbBands |-> (j + avail) % 2]
AllocContext(p, avail, boosts, trim) == <<p.start, p.end, p.channels, p.lm, avail, trim, boosts>>
ShapesContext(rc, w, fine) == <<8 * TotalBits(rc), w.transient, w.tf, w.spread, fine>>

(* The shapes fill what is left but for a few bits.                         *)
ShapesCost(rc, spare, reserve) == MaxOf(0, 8 * TotalBits(rc) - rc.frac - reserve - 8 * spare)
AllocCost(avail) == IF avail > 64 THEN 8 ELSE 0

-----------------------------------------------------------------------------
(* Encoder.                                                                 *)
Sound == tape.sounds[spool]
Params(f, intra, rc) ==
    [start |-> f.start, end |-> f.end, channels |-> tape.channels, lm |-> f.lm, intra |-> intra,
     budget |-> TotalBits(rc),
     max_decay |-> IF f.end - f.start > 10 THEN MinOf(16 * ONE, 128 * rc.bytes) ELSE 16 * ONE]

(* run_prefilter runs: pitch is worth its bits, and was asked for.          *)
Filters(f, rc) ==
    /\ f.start = 0 /\ tape.quality >= 5
    /\ f.bytes - ((TellBits(rc) + 4) \div 8) > 12 * tape.channels
Filtered(f, rc) == IF Filters(f, rc) THEN f.pitch ELSE NoPitch

(* The frame's crossfades: over its first 120 samples, over the last 120.   *)
FilterUnits(lm, was, now) ==
    <<<<Sounding(was), Sounding(now)>>>> \o IF lm = 0 THEN <<>> ELSE <<<<Sounding(now), Sounding(now)>>>>

EncodeHeader ==
    /\ turn = "record" /\ spool < Len(tape.sounds)
    /\ spool' = spool + 1
    /\ \E f \in {tape.sounds[spool + 1]} :
       \E opened \in {FreshCoder(f, f.bytes, <<>>)} :
       \E hush \in {EncSilence(opened, f.silent, f.vbr)} :
       \E silent \in {f.silent /\ TellBits(opened) = 1} :
       \E pitch \in {Filtered(f, opened)} :
       \E tuned \in {IF PitchSent(hush, f.start, silent) THEN EncPitch(hush, pitch) ELSE hush} :
       \E flagged \in {IF TransientSent(tuned, f.lm) THEN EncBit(tuned, 3, f.transient) ELSE tuned} :
         /\ rcod' = flagged
         /\ work' = [NoFrame EXCEPT !.silent = silent, !.pitch = pitch,
                                    !.transient = f.transient /\ TransientSent(tuned, f.lm)]
         /\ pairing' = [pairing EXCEPT
                !.applied = IF Filters(f, opened) THEN FilterUnits(f.lm, encst.pitch, pitch) ELSE <<>>,
                !.before = pairing.applied]
    /\ turn' = "coarse"
    /\ UNCHANGED <<tape, encst, decst>>

(* Energies are all at the bottom: only asked of low complexities.          *)
AllQuiet == tape.quality < 4 /\ \A c \in 1..tape.channels, j \in 1..NbBands : encst.e[c][j] <= -27 * ONE

CoarseCoded ==
    quant_coarse_energy(rcod, Params(Sound, FALSE, rcod), Sound.levels, encst.e, encst.delayed,
                        tape.quality >= 4, work.transient \/ AllQuiet)

(* One of its first bands is coded with the last bit: a fall of any depth   *)
(* is told as one step and remembered as it was (quant_bands.rs:161), where *)
(* later bands may no longer fall by more (quant_bands.rs:140).             *)
LastBitFirst(intra) ==
    \E p \in {Params(Sound, intra, rcod)}, k \in 0..(tape.channels - 1) :
        TellBits(CoarseFrom(CoarseStart(rcod, p, encst.e), p, Sound.levels, k).rc) + 1 = p.budget

EncodeCoarse ==
    /\ turn = "coarse"
    /\ \E q \in {CoarseCoded} :
         /\ rcod' = q.s.rc
         /\ pairing' = [pairing EXCEPT !.strayed = LastBitFirst(q.intra)]
         /\ encst' = [encst EXCEPT !.delayed = q.delayed]
         /\ work' = [work EXCEPT !.s = [e |-> q.s.e, error |-> q.s.error], !.p = Params(Sound, q.intra, rcod)]
    /\ turn' = "choices"
    /\ UNCHANGED <<tape, spool, decst>>

EncodeChoices ==
    /\ turn = "choices"
    /\ \E tf \in {tf_encode(rcod, SubSeq(Sound.tf, Sound.start + 1, Sound.end), Sound.tf_select, Sound.lm, work.transient)} :
       \E sp \in {IF SpreadSent(tf[1]) THEN Sound.spread ELSE 2} :
       \E d \in {EncDynalloc(NoBoosts(IF SpreadSent(tf[1]) THEN PutSym(tf[1], "spread", 4, sp, SPREAD_COST[sp + 1])
                                      ELSE tf[1]),
                             work.p, Sound.boosts, work.p.end - work.p.start)} :
         /\ rcod' = IF TrimSent(d.rc, d.total) THEN PutSym(d.rc, "trim", 11, Sound.trim, TRIM_COST[Sound.trim + 1]) ELSE d.rc
         /\ work' = [work EXCEPT !.tf = tf[2], !.spread = sp, !.boosts = d.boosts, !.boosted = d.total,
                                 !.trim = IF TrimSent(d.rc, d.total) THEN Sound.trim ELSE 5]
    /\ turn' = "size"
    /\ UNCHANGED <<tape, spool, encst, decst, pairing>>

(* VBR.  The target in 1/8 bits: the base rate, corrected by the drift of   *)
(* earlier frames, and what the sound asks for.                             *)
Hybrid(f) == f.start # 0
LmDiff(f) == 3 - f.lm
BaseTarget(f) ==
    (IF Hybrid(f) THEN MaxOf(0, f.vbr - 8 * (9 * tape.channels + 4)) ELSE f.vbr - 8 * (40 * tape.channels + 20))
    + encst.offset \div Pow2(LmDiff(f))
Target(f) == IF Hybrid(f) THEN BaseTarget(f) + f.asks ELSE MinOf(BaseTarget(f) + (2 * f.asks) \div 3, 2 * BaseTarget(f))

(* Slip: without the two bytes of margin. *)
MinAllowedBare(f, rc, boosted) ==
    MaxOf((rc.frac + boosted + 63) \div 64,
          IF Hybrid(f) THEN (f.tell0 + 8 * 37 + boosted + 63) \div 64 ELSE 0)

(* Never less than is coded already, boosts included, and two bytes.        *)
MinAllowed(f, rc, boosted) ==
    MaxOf(((rc.frac + boosted + 63) \div 64) + 2,
          IF Hybrid(f) THEN (f.tell0 + 8 * 37 + boosted + 63) \div 64 ELSE 0)

(* Slip: the longest frame of a length counted from the shortest. *)
CapBytesTwice(f, rc) == MinOf(rc.bytes, (1275 \div 8) \div Pow2(LmDiff(f)))

Longest(f) == 1275 \div Pow2(LmDiff(f))
CapBytes(f, rc) == MinOf(rc.bytes, Longest(f))
Available(f, rc, boosted) ==
    MinOf(MaxOf((Target(f) + rc.frac + 32) \div 64, MinAllowed(f, rc, boosted)), CapBytes(f, rc))

(* What band after band is asked to cost, each boost its bits and a flag.   *)
AskedOn(t, p, boosts, k) == t + boosts[p.start + k + 1] * (Quanta(p, p.start + k) + 8)
BoostsAsked(p, boosts, n) ==
    LET t[k \in 0..n] == IF k = 0 THEN 0 ELSE AskedOn(t[k - 1], p, boosts, k - 1) IN t[n]

(* The most that everything else a frame says before its size is chosen can *)
(* cost: 141 the pitch, 24 the transient flag, 24 the intra flag, 42 coarse *)
(* steps of 120, 848 the resolution, 32 the spreading, 21 flags of 48 that  *)
(* end a band's boosts, 48 the trim.                                        *)
WORDS == 7168

(* The cap on a frame's length is taken last, whatever is coded (celt.rs:2691).*)
(* Where the buffer is longer than the cap, the bands ask for so little     *)
(* that all of it fits below the cap.  Frames of 20 ms have no such buffer  *)
(* (lib.rs:1504), those of 2.5 ms no boosts (celt.rs:1821).                 *)
ASSUME BoostsAssumption ==
    \A clip \in Clips : \A n \in 1..Len(clip.sounds) : \A f \in {clip.sounds[n]} :
        f.vbr # 0 /\ f.bytes > Longest(f) =>
            \A p \in {[start |-> f.start, channels |-> clip.channels, lm |-> f.lm]} :
                f.tell0 + BoostsAsked(p, f.boosts, f.end - f.start) + WORDS <= 64 * (Longest(f) - 2)

(* In frames of 10 ms, and of 5 ms in mono, even the most dynalloc_analysis *)
(* asks for is so little; of stereo frames of 5 ms the assumption says that *)
(* not all bands at once are asked for more than nine tenths of it: bands   *)
(* are boosted that stand out of their neighbours (celt.rs:1840).           *)
dynalloc_most(width) == IF width < 6 THEN 4 ELSE IF width > 48 THEN 32 ELSE (4 * width) \div 6
ASSUME DynallocFits ==
    \A f \in [lm : 1..2], channels \in 1..2 :
        f.lm = 2 \/ channels = 1 =>
            \A p \in {[start |-> 0, channels |-> channels, lm |-> f.lm]} :
                8 + BoostsAsked(p, [j \in 1..NbBands |-> dynalloc_most(BandWidth(p, j - 1))], NbBands) + WORDS
                    <= 64 * (Longest(f) - 2)

(* Reservoir and drift after a frame of `got` bytes; an overdrawn reservoir *)
(* is refilled with bytes of this frame.                                    *)
Overdrawn(f, size) == MaxOf(0, -(encst.reservoir + 64 * size - f.vbr))
Settled(f, delta, size) ==
    LET count == MinOf(970, encst.count + 1)
        pull == delta * Pow2(LmDiff(f)) - encst.offset - encst.drift
        drift == encst.drift + (IF count < 970 THEN Quot(pull, count + 20) ELSE Quot(pull, 1000))
    IN  [encst EXCEPT !.count = count, !.drift = drift, !.offset = -drift,
                      !.reservoir = MaxOf(0, encst.reservoir + 64 * size - f.vbr)]
SizeChosen(f, rc, size) == MaxOf(2, MinOf(CapBytes(f, rc), size + Overdrawn(f, size) \div 64))

ChooseSize ==
    /\ turn = "size"
    /\ IF Sound.vbr = 0 THEN UNCHANGED <<rcod, encst>>
       ELSE \E size \in {Available(Sound, rcod, work.boosted)} :
              /\ rcod' = [rcod EXCEPT !.bytes = SizeChosen(Sound, rcod, size)]
              /\ encst' = Settled(Sound, Target(Sound) + rcod.frac - Sound.vbr, size)
    /\ turn' = "bands"
    /\ UNCHANGED <<tape, spool, decst, work, pairing>>

(* Outside the coded bands nothing is remembered.                           *)
Coded(p, e, outside) ==
    [c \in 1..2 |-> [j \in 1..NbBands |-> IF j - 1 \in p.start..(p.end - 1) THEN e[c][j] ELSE outside]]

EncodeBands ==
    /\ turn = "bands"
    /\ LET p == work.p
           reserve == AntiCollapse(rcod, p, work.transient)
           avail == AllocBits(rcod, p, work.transient)
           bits == FineBits(p, avail, work.boosts, work.trim)
       IN  \E fine \in {quant_fine_energy(
                          [rc |-> PutSym(rcod, "alloc", AllocContext(p, avail, work.boosts, work.trim), 1, AllocCost(avail)),
                           e |-> work.s.e, error |-> work.s.error], p, bits)} :
           \E shaped \in {PutSym(fine.rc, "shapes", ShapesContext(fine.rc, work, bits), 1, ShapesCost(fine.rc, Sound.spare, reserve))} :
           \E settled \in {IF reserve > 0 THEN EncRaw(shaped, IF encst.transients < 2 THEN 1 ELSE 0, 1) ELSE shaped} :
           \E done \in {quant_energy_finalise([fine EXCEPT !.rc = settled], p, bits, Priorities(avail),
                                              TotalBits(settled) - TellBits(settled))} :
             /\ rcod' = done.rc
             /\ encst' = [encst EXCEPT !.e = Coded(p, done.e, 0), !.pitch = work.pitch,
                                       !.transients = IF work.transient THEN @ + 1 ELSE 0]
             /\ work' = work
    /\ turn' = "air"
    /\ UNCHANGED <<tape, spool, decst, pairing>>

-----------------------------------------------------------------------------
(* Decoder.                                                                 *)
Loudest(e) == [e EXCEPT ![1] = [j \in 1..NbBands |-> MaxOf(e[1][j], e[2][j])]]

(* After a loss, energies are predicted from a falling trend continued, or  *)
(* from the quietest of the last three frames, and shorter frames from less.*)
Halved(e) == e \div 2
Slope(e, e1, e2) == MinOf(2 * ONE, MaxOf(e1 - e, Halved(e2 - e)))
Careful(e, e1, e2, missing) ==
    IF e < MaxOf(e1, e2) THEN MaxOf(-20 * ONE, e - MaxOf(0, (1 + missing) * Slope(e, e1, e2)))
    ELSE MinOf(e, MinOf(e1, e2))
Safety(lm) == CASE lm = 0 -> 1536 [] lm = 1 -> 512 [] OTHER -> 0
Recovered(f, e) ==
    [c \in 1..2 |-> [j \in 1..NbBands |->
        IF j - 1 \in f.start..(f.end - 1)
        THEN Careful(e[c][j], decst.e2[c][j], decst.e3[c][j], MinOf(10, decst.loss_duration \div Pow2(f.lm))) - Safety(f.lm)
        ELSE e[c][j]]]

DecodeHeader ==
    /\ turn = "air"
    /\ \E f \in {Sound} :
       \E opened \in {FreshCoder(f, rcod.bytes, rcod.syms)} :
       \E hush \in {DecSilence(opened)} :
       \E silent \in {hush.got = 1} :
       \E tuned \in {IF PitchSent(hush, f.start, silent) THEN DecPitch(hush) ELSE <<hush, NoPitch>>} :
       \E flagged \in {IF TransientSent(tuned[1], f.lm) THEN DecBit(tuned[1], 3) ELSE [tuned[1] EXCEPT !.got = 0]} :
       \E timed \in {IF TellBits(flagged) + 3 <= TotalBits(flagged) THEN DecBit(flagged, 3) ELSE [flagged EXCEPT !.got = 0]} :
       \E merged \in {IF tape.channels = 1 THEN Loudest(decst.e) ELSE decst.e} :
         /\ rcod' = timed
         /\ work' = [NoFrame EXCEPT !.silent = silent, !.pitch = tuned[2], !.transient = flagged.got = 1,
                                    !.p = Params(f, timed.got = 1, timed)]
         /\ decst' = [decst EXCEPT !.skip_plc = @ /\ decst.loss_duration # 0,
                                   !.pitch.g = IF f.start = 0 THEN @ ELSE 0,
                                   !.e = IF timed.got = 0 /\ decst.loss_duration # 0 THEN Recovered(f, merged) ELSE merged]
    /\ turn' = "uncoarse"
    /\ UNCHANGED <<tape, spool, encst, pairing>>

DecodeCoarse ==
    /\ turn = "uncoarse"
    /\ \E q \in {unquant_coarse_energy(rcod, work.p, decst.e)} :
         /\ rcod' = q.rc
         /\ decst' = [decst EXCEPT !.e = q.e]
    /\ turn' = "unchoices"
    /\ UNCHANGED <<tape, spool, encst, work, pairing>>

DecodeChoices ==
    /\ turn = "unchoices"
    /\ \E tf \in {tf_decode(rcod, work.p.end - work.p.start, work.p.lm, work.transient)} :
       \E sp \in {IF SpreadSent(tf[1]) THEN AskSym(tf[1], "spread", 4) ELSE [tf[1] EXCEPT !.got = 2]} :
       \E d \in {DecDynalloc(NoBoosts(sp), work.p, work.p.end - work.p.start)} :
       \E tr \in {IF TrimSent(d.rc, d.total) THEN AskSym(d.rc, "trim", 11) ELSE [d.rc EXCEPT !.got = 5]} :
         /\ rcod' = tr
         /\ work' = [work EXCEPT !.tf = tf[2], !.spread = sp.got, !.boosts = d.boosts, !.boosted = d.total, !.trim = tr.got]
    /\ turn' = "unbands"
    /\ UNCHANGED <<tape, spool, encst, decst, pairing>>

(* Slip: the background takes the level of the frame as it comes. *)
BackgroundRising(e, lm) ==
    [c \in 1..2 |-> [j \in 1..NbBands |-> decst.background[c][j] + MinOf(160, decst.loss_duration + Pow2(lm))]]

(* The background rises by 2.4 dB a second at most, losses included.        *)
Background(e, lm) ==
    [c \in 1..2 |-> [j \in 1..NbBands |->
        MinOf(decst.background[c][j] + MinOf(160, decst.loss_duration + Pow2(lm)), e[c][j])]]

Lower(a, b) == [c \in 1..2 |-> [j \in 1..NbBands |-> MinOf(a[c][j], b[c][j])]]

(* Slip: the filter of the frame before is remembered for short frames too. *)
RememberedAlways(lm, new) == [pitch |-> new, pitch_old |-> new]

(* The filters of the next frame's first crossfade.                         *)
Remembered(lm, new) == [pitch |-> new, pitch_old |-> IF lm > 0 THEN new ELSE decst.pitch]

(* What a decoded frame leaves behind: e as coded, transient or not.        *)
Kept(p, e, transient, new) ==
    [decst EXCEPT !.e = Coded(p, e, 0),
                  !.e2 = Coded(p, IF transient THEN Lower(@, e) ELSE e, QUIET),
                  !.e3 = Coded(p, IF transient THEN @ ELSE decst.e2, QUIET),
                  !.background = Background(e, p.lm),
                  !.pitch = Remembered(p.lm, new).pitch, !.pitch_old = Remembered(p.lm, new).pitch_old,
                  !.fold = FALSE, !.loss_duration = 0, !.plc_duration = 0, !.periodic = FALSE, !.last_end = p.end]

(* Silence is floored; a mono frame stands for both channels.               *)
Final(e, silent) ==
    LET floored == [c \in 1..2 |-> IF silent /\ c <= tape.channels THEN Flat(QUIET) ELSE e[c]]
    IN  IF tape.channels = 1 THEN [c \in 1..2 |-> floored[1]] ELSE floored

(* The crossfades of the post-filter, 120 samples at a time.                *)
HeardUnits(lm, new) ==
    <<<<Sounding(decst.pitch_old), Sounding(decst.pitch)>>>>
    \o IF lm = 0 THEN <<>> ELSE <<<<Sounding(decst.pitch), Sounding(new)>>>>

(* A pitch found in a silent frame filters the frame and is never told:     *)
(* run_prefilter is not asked whether the frame is silent.                  *)
Untold == Sound.silent /\ encst.pitch.g # 0

DecodeBands ==
    /\ turn = "unbands"
    /\ LET p == work.p
           reserve == AntiCollapse(rcod, p, work.transient)
           avail == AllocBits(rcod, p, work.transient)
           bits == FineBits(p, avail, work.boosts, work.trim)
       IN  \E fine \in {unquant_fine_energy(
                          [rc |-> AskSym(rcod, "alloc", AllocContext(p, avail, work.boosts, work.trim)), e |-> decst.e],
                          p, bits)} :
           \E shaped \in {AskSym(fine.rc, "shapes", ShapesContext(fine.rc, work, bits))} :
           \E settled \in {IF reserve > 0 THEN DecRaw(shaped, 1) ELSE shaped} :
           \E done \in {unquant_energy_finalise([fine EXCEPT !.rc = settled], p, bits, Priorities(avail),
                                                TotalBits(settled) - TellBits(settled))} :
             /\ rcod' = done.rc
             /\ decst' = Kept(p, Final(done.e, work.silent), work.transient, work.pitch)
             /\ pairing' = [pairing EXCEPT
                    !.heard = HeardUnits(p.lm, work.pitch),
                    !.streak = IF Untold THEN 0 ELSE MinOf(3, @ + 1),
                    !.apart = @ /\ ~p.intra, !.hushed = (@ /\ ~p.intra) \/ work.silent \/ pairing.strayed]
    /\ turn' = "heard"
    /\ UNCHANGED <<tape, spool, encst, work>>

-----------------------------------------------------------------------------
(* A lost frame is concealed: with noise once 100 ms are lost, in a hybrid  *)
(* stream, or until frames are decoded again; else with the pitch.          *)
Noise(f) == decst.plc_duration >= 40 \/ f.start # 0 \/ decst.skip_plc

(* Each output channel decays towards the background.                       *)
Decayed(f) ==
    LET decay == IF decst.loss_duration = 0 THEN 1536 ELSE 512
    IN  [c \in 1..2 |-> [j \in 1..NbBands |->
            IF c <= tape.out /\ j - 1 \in f.start..(MaxOf(f.start, decst.last_end) - 1)
            THEN MaxOf(decst.background[c][j], decst.e[c][j] - decay)
            ELSE decst.e[c][j]]]

WithNoise(f) == [decst EXCEPT !.e = Decayed(f), !.pitch_old = decst.pitch, !.fold = FALSE, !.skip_plc = TRUE]
WithPitch == [decst EXCEPT !.fold = TRUE]
Concealed(f, d) ==
    [d EXCEPT !.loss_duration = MinOf(10000, @ + Pow2(f.lm)), !.plc_duration = MinOf(10000, @ + Pow2(f.lm)),
              !.periodic = ~Noise(f)]

Lose ==
    /\ turn = "air" /\ tape.losses
    /\ decst' = Concealed(Sound, IF Noise(Sound) THEN WithNoise(Sound) ELSE WithPitch)
    /\ pairing' = [pairing EXCEPT !.streak = 0, !.apart = TRUE, !.heard = <<>>]
    /\ turn' = "heard" /\ rcod' = NoCoder /\ work' = NoFrame
    /\ UNCHANGED <<tape, spool, encst>>

(* The packet is done with.                                                 *)
Ready ==
    /\ turn = "heard"
    /\ turn' = "record" /\ rcod' = NoCoder /\ work' = NoFrame
    /\ UNCHANGED <<tape, spool, encst, decst, pairing>>

CeltFrameInit ==
    /\ tape \in Clips
    /\ spool = 0 /\ turn = "record"
    /\ encst = NewCeltEncoder /\ decst = NewCeltDecoder
    /\ rcod = NoCoder /\ work = NoFrame
    /\ pairing = [before |-> <<>>, applied |-> <<>>, heard |-> <<>>, streak |-> 0, apart |-> FALSE, hushed |-> FALSE,
                  strayed |-> FALSE]

CeltFrameNext ==
    \/ EncodeHeader \/ EncodeCoarse \/ EncodeChoices \/ ChooseSize \/ EncodeBands
    \/ DecodeHeader \/ DecodeCoarse \/ DecodeChoices \/ DecodeBands
    \/ Lose \/ Ready

CeltFrameSpec == CeltFrameInit /\ [][CeltFrameNext]_cvars

-----------------------------------------------------------------------------
(* Everything the decoder asks for is what the encoder wrote, to the last   *)
(* symbol, although the encoder changes the size of the frame, which every  *)
(* guard looks at, after it wrote half of it; and what it wrote fits.       *)
SymbolsMirror ==
    /\ rcod.ok
    /\ turn \in {"air", "heard"} => TellBits(rcod) <= TotalBits(rcod)
    /\ turn = "heard" => rcod.place = Len(rcod.syms)

(* A frame of variable rate is not shrunk below what is coded of it, the    *)
(* boosts promised included, and two bytes of margin: what the comment at   *)
(* celt.rs:2680 says of the size wished for, although reservoir and cap     *)
(* change the size after that.                                              *)
SizeSpares ==
    [][ChooseSize => rcod'.bytes = rcod.bytes \/ rcod.frac + work.boosted + 128 <= 64 * rcod'.bytes]_cvars

(* Energies as both ends remember them, for the next frame's prediction.    *)
SameEnergies == \A c \in 1..tape.channels : decst.e[c] = encst.e[c]

(* Both ends predict from the same energies, unless a frame was lost, was   *)
(* silent or strayed since the last one coded without prediction, or in it. *)
EnergyInStep == turn = "heard" /\ ~pairing.apart /\ ~pairing.hushed => SameEnergies

(* The same after a sound that follows silent frames: the comment at        *)
(* celt.rs:2312 says that running the whole pipeline on a silent frame is   *)
(* what keeps the encoder in lockstep with the decoder.                     *)
SilentEnergyInStep == turn = "heard" /\ ~pairing.apart /\ ~work.silent => SameEnergies

(* The decoder undoes each crossfade of the encoder's pitch filter 120      *)
(* samples later, the delay of the transform, whatever the lengths of the   *)
(* frames: its first 120 samples take back the end of the frame before, and *)
(* the next ones the beginning of this frame.                               *)
FiltersPaired ==
    /\ pairing.before # <<>> => pairing.heard[1] = pairing.before[Len(pairing.before)]
    /\ Len(pairing.heard) = 2 => pairing.heard[2] = pairing.applied[1]

(* Both ends filter alike once three frames running were neither lost nor   *)
(* filtered in silence.                                                     *)
Undisturbed == pairing.streak = 3 \/ pairing.streak = spool
PitchFiltersPaired ==
    turn = "heard" /\ pairing.heard # <<>> /\ pairing.applied # <<>> /\ Undisturbed => FiltersPaired

(* The same after silent frames: the comment at celt.rs:2312 says that once *)
(* a silent frame is flagged every budget check, the prefilter's included,  *)
(* has nothing to spend, and that this keeps both ends in lockstep.         *)
SilentFiltersPaired ==
    turn = "heard" /\ pairing.heard # <<>> /\ pairing.applied # <<>> /\ ~tape.losses => FiltersPaired

(* The comment's claim for all that is remembered from a silent frame.      *)
SilenceInLockstep == SilentEnergyInStep /\ SilentFiltersPaired

(* Concealment never makes a band louder than it was, whatever was decoded, *)
(* lost and recovered before.                                               *)
ConcealmentFades ==
    [][Lose => \A c \in 1..2, j \in 1..NbBands : decst'.e[c][j] <= decst.e[c][j]]_cvars
=============================================================================

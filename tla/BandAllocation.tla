--------------------------- MODULE BandAllocation ---------------------------
(***************************************************************************)
(* Dividing a CELT frame among its bands (rate.rs).  Encoder and decoder   *)
(* each compute the division from what both know; the encoder's decisions  *)
(* - where to stop coding bands, where intensity stereo begins, dual       *)
(* stereo or not - are written between the steps of the computation, so    *)
(* that every later step of the decoder rests on all earlier ones.         *)
(*                                                                         *)
(* A frame is divided twice: by the encoder, which writes, then by the     *)
(* decoder, which reads.  Amounts are in eighths of a bit (BITRES).        *)
(***************************************************************************)
EXTENDS CeltMode, Arrays

CONSTANT Frames   \* [start, end, c, lm, total, trim, boosts, intensity, dual, prev, bandwidth]

(* Sum of a sequence from band from up to band to - 1; Bands1 to make one.   *)
RECURSIVE SumBands(_, _, _)
SumBands(s, from, to) == IF from >= to THEN 0 ELSE s[from + 1] + SumBands(s, from + 1, to)
ByBand(f(_)) == SubSeq([j \in 1..NbBands |-> f(j - 1)], 1, NbBands)
NoBits == [j \in 1..NbBands |-> 0]

-----------------------------------------------------------------------------
(* clt_compute_allocation up to the interpolation.                          *)
One == 2^BITRES
SkipReserve(f) == IF f.total >= One THEN One ELSE 0
IntensityReserve(f) ==
    LET want == log2_frac(f.end - f.start)
    IN  IF f.c = 2 /\ want <= f.total - SkipReserve(f) THEN want ELSE 0
DualReserve(f) ==
    IF f.c = 2 /\ IntensityReserve(f) > 0 /\ f.total - SkipReserve(f) - IntensityReserve(f) >= One
    THEN One ELSE 0
Available(f) == f.total - SkipReserve(f) - IntensityReserve(f) - DualReserve(f)

Boost(f, j) == IF j \in DOMAIN f.boosts THEN f.boosts[j] ELSE 0
Coded(f) == f.start..(f.end - 1)
Thresh(f, j) == MaxOf(f.c * One, ((3 * Width(j)) * 2^(f.lm + BITRES)) \div 16)
TrimOffset(f, j) ==
    (f.c * Width(j) * (f.trim - 5 - f.lm) * (f.end - j - 1) * 2^(f.lm + BITRES)) \div 64
        - (IF Width(j) * 2^f.lm = 1 THEN f.c * One ELSE 0)
FromRow(f, row, j) ==
    LET bits == (f.c * Width(j) * alloc_vectors(row, j) * 2^f.lm) \div 4
    IN  IF bits > 0 THEN MaxOf(0, bits + TrimOffset(f, j)) ELSE bits

(* What a division by want(j) spends: from the top, bands below their       *)
(* threshold get the floor or nothing until one reaches it.                 *)
Floor(f) == f.c * One
RECURSIVE Spent(_, _, _, _)
Spent(f, want(_), j, done) ==
    IF j < f.start THEN 0
    ELSE LET now == done \/ want(j) >= Thresh(f, j)
             cost == IF now THEN MinOf(want(j), Cap(j, f.lm, f.c))
                     ELSE IF want(j) >= Floor(f) THEN Floor(f) ELSE 0
         IN  cost + Spent(f, want, j - 1, now)

RECURSIVE BestRow(_, _, _)
BestRow(f, lo, hi) ==
    IF lo > hi THEN lo
    ELSE LET mid == (lo + hi) \div 2
         IN  IF Spent(f, LAMBDA j : FromRow(f, mid, j) + Boost(f, j), f.end - 1, FALSE) > Available(f)
             THEN BestRow(f, lo, mid - 1) ELSE BestRow(f, mid + 1, hi)

Bits1(f, row) ==
    ByBand(LAMBDA j : IF j \in Coded(f)
                      THEN FromRow(f, row - 1, j) + (IF row - 1 > 0 THEN Boost(f, j) ELSE 0) ELSE 0)
Bits2(f, row, bits1) ==
    ByBand(LAMBDA j : IF j \notin Coded(f) THEN 0
                      ELSE LET upper == IF row < NbAllocVectors THEN FromRow(f, row, j)
                                        ELSE LET cap == Cap(j, f.lm, f.c)
                                             IN  IF cap > 0 THEN MaxOf(0, cap + TrimOffset(f, j)) ELSE cap
                           IN  MaxOf(0, upper + Boost(f, j) - At(bits1, j)))
SkipStart(f) == LET boosted == {j \in Coded(f) : Boost(f, j) > 0}
                IN  IF boosted = {} THEN f.start ELSE CHOOSE j \in boosted : \A k \in boosted : k <= j

(* interp_bits2pulses: six halvings between the two rows.                   *)
Mixed(b1, b2, part, j) == At(b1, j) + (part * At(b2, j)) \div 64
RECURSIVE BestPart(_, _, _, _, _, _)
BestPart(f, b1, b2, lo, hi, turns) ==
    IF turns = 0 THEN lo
    ELSE LET mid == (lo + hi) \div 2
         IN  IF Spent(f, LAMBDA j : Mixed(b1, b2, mid, j), f.end - 1, FALSE) > Available(f)
             THEN BestPart(f, b1, b2, lo, mid, turns - 1) ELSE BestPart(f, b1, b2, mid, hi, turns - 1)

RECURSIVE Granted(_, _, _, _, _, _, _)
Granted(f, b1, b2, part, j, done, bits) ==
    IF j < f.start THEN bits
    ELSE LET tmp == Mixed(b1, b2, part, j)
             now == done \/ tmp >= Thresh(f, j)
             got == CASE now -> tmp [] tmp >= Floor(f) -> Floor(f) [] OTHER -> 0
         IN  Granted(f, b1, b2, part, j - 1, now,
                     [bits EXCEPT ![j + 1] = MinOf(got, Cap(j, f.lm, f.c))])

-----------------------------------------------------------------------------
VARIABLES
    frame,     \* what both sides know, and what only the encoder knows
    side,      \* "encoder", then "decoder"
    phase,     \* the next step of this side
    bits, psum, coded, irsv, budget,   \* bits, psum, coded_bands, intensity_rsv, total_with_rsv
    sent,      \* decisions written: <<bit>> or <<intensity, dual>>
    read,      \* how many of them the decoder has read
    result     \* per side

avars == <<frame, side, phase, bits, psum, coded, irsv, budget, sent, read, result>>

NoResult == [pulses |-> NoBits]
Encoding == side = "encoder"

AllocationInit ==
    /\ frame \in Frames
    /\ side = "encoder" /\ phase = "divide"
    /\ bits = NoBits /\ psum = 0 /\ coded = 0 /\ irsv = 0 /\ budget = 0
    /\ sent = <<>> /\ read = 0
    /\ result = [s \in {"encoder", "decoder"} |-> NoResult]

Divide ==
    /\ phase = "divide"
    /\ \E row \in {BestRow(frame, 1, NbAllocVectors - 1)} :
       \E b1 \in {Bits1(frame, row)} :
       \E b2 \in {Bits2(frame, row, b1)} :
       \E part \in {BestPart(frame, b1, b2, 0, 64, 6)} :
         bits' = Granted(frame, b1, b2, part, frame.end - 1, FALSE, NoBits)
    /\ psum' = SumBands(bits', frame.start, frame.end)
    /\ coded' = frame.end
    /\ irsv' = IntensityReserve(frame)
    /\ budget' = Available(frame)
    /\ phase' = "skip"
    /\ UNCHANGED <<frame, side, sent, read, result>>

(* Write a decision, or read the next.                                      *)
Send(v) == sent' = Append(sent, v) /\ UNCHANGED read
Receive == read' = read + 1 /\ UNCHANGED sent
NextRead == sent[read + 1]

(* The top coded band and what it would get of the bits left over.          *)
Top == coded - 1
BandBits ==
    LET left == budget - psum
        samples == e_bands(coded) - e_bands(frame.start)
        percoeff == Quot(left, samples)
        rem == MaxOf(left - samples * percoeff - (e_bands(Top) - e_bands(frame.start)), 0)
    IN  At(bits, Top) + percoeff * Width(Top) + rem

MaySkip == coded > frame.start /\ Top > SkipStart(frame)
\* The decoder asks for one bit less.
SignalsEarly == BandBits >= MaxOf(Thresh(frame, Top), Floor(frame) + (IF Encoding THEN One ELSE 0))
Signals == BandBits >= MaxOf(Thresh(frame, Top), Floor(frame) + One)
DepthThreshold == IF coded > 17 THEN (IF Top < frame.prev THEN 7 ELSE 9) ELSE 0
KeepsBand ==
    \/ coded <= frame.start + 2
    \/ /\ BandBits > (DepthThreshold * Width(Top) * 2^(frame.lm + BITRES)) \div 16
       /\ Top <= frame.bandwidth

(* Leave the top band uncoded, after saying so when it had enough bits.     *)
SkipBand ==
    /\ phase = "skip" /\ MaySkip
    /\ IF Signals THEN IF Encoding THEN ~KeepsBand /\ Send(<<0>>) ELSE NextRead = <<0>> /\ Receive
       ELSE UNCHANGED <<sent, read>>
    /\ \E left \in {BandBits - (IF Signals THEN One ELSE 0)} :
         LET isv == IF irsv > 0 THEN log2_frac(Top - frame.start) ELSE irsv
             keep == IF left >= Floor(frame) THEN Floor(frame) ELSE 0
         IN  /\ psum' = psum + (IF Signals THEN One ELSE 0) - At(bits, Top) - irsv + isv + keep
             /\ bits' = [bits EXCEPT ![Top + 1] = keep]
             /\ irsv' = isv
    /\ coded' = coded - 1
    /\ UNCHANGED <<frame, side, phase, budget, result>>

StopSkipping ==
    /\ phase = "skip"
    /\ IF MaySkip
       THEN /\ Signals
            /\ IF Encoding THEN KeepsBand /\ Send(<<1>>) ELSE NextRead = <<1>> /\ Receive
            /\ UNCHANGED budget
       ELSE /\ budget' = budget + (IF coded > frame.start THEN SkipReserve(frame) ELSE 0)
            /\ UNCHANGED <<sent, read>>
    /\ phase' = "stereo"
    /\ UNCHANGED <<frame, side, bits, psum, coded, irsv, result>>

(* Intensity stereo from a band on, and dual stereo below it.               *)
CodeStereo ==
    /\ phase = "stereo"
    /\ \E i \in {IF irsv = 0 THEN 0
                 ELSE IF Encoding THEN MinOf(frame.intensity, coded)
                 ELSE frame.start + NextRead[1]} :
       LET drsv == IF i <= frame.start THEN 0 ELSE DualReserve(frame)
           d == IF drsv = 0 THEN 0 ELSE IF Encoding THEN frame.dual ELSE NextRead[2]
       IN  /\ budget' = budget + (DualReserve(frame) - drsv)
           /\ IF irsv = 0 THEN UNCHANGED <<sent, read>>
              ELSE IF Encoding THEN Send(<<i - frame.start, IF drsv > 0 THEN d ELSE 0>>) ELSE Receive
           /\ result' = [result EXCEPT ![side] = [intensity |-> i, dual |-> d, coded |-> coded]]
    /\ phase' = "share"
    /\ UNCHANGED <<frame, side, bits, psum, coded, irsv>>

-----------------------------------------------------------------------------
(* The bits left over go to the coded bands by width, the last few one per  *)
(* sample from below.                                                       *)
RECURSIVE HandOut(_, _, _)
HandOut(b, j, left) ==
    IF j = coded THEN b
    ELSE LET tmp == MinOf(left, Width(j))
         IN  HandOut([b EXCEPT ![j + 1] = @ + tmp], j + 1, left - tmp)
Shared ==
    LET left == budget - psum
        samples == e_bands(coded) - e_bands(frame.start)
        percoeff == Quot(left, samples)
    IN  HandOut(ByBand(LAMBDA j : At(bits, j) + (IF j \in frame.start..(coded - 1) THEN percoeff * Width(j) ELSE 0)),
                frame.start, left - samples * percoeff)

(* One band's bits to fine energy and pulses; what its cap leaves is carried *)
(* to the next as balance.                                                   *)
FineOf(f, r, j, b) ==
    LET n == Width(j) * 2^f.lm
        den == f.c * n + (IF f.c = 2 /\ n > 2 /\ r.dual = 0 /\ j < r.intensity THEN 1 ELSE 0)
        nclogn == den * (log_n(j) + f.lm * One)
        off0 == nclogn \div 2 - den * FINE_OFFSET + (IF n = 2 THEN (den * One) \div 4 ELSE 0)
        off == off0 + (IF b + off0 < den * 2 * One THEN nclogn \div 4
                       ELSE IF b + off0 < den * 3 * One THEN nclogn \div 8
                       ELSE 0)
        e0 == (MaxOf(0, b + off + den * 4) \div den) \div One
        e1 == IF f.c * e0 > b \div One THEN (b \div f.c) \div One ELSE e0
        e == MinOf(e1, MAX_FINE_BITS)
    IN  <<e, IF e * den * One >= b + off THEN 1 ELSE 0>>

BandSplit(f, r, j, b, balance) ==
    LET bit == b + balance
        cap == IF Width(j) * 2^f.lm > 1 THEN Cap(j, f.lm, f.c) ELSE f.c * One
        over == MaxOf(bit - cap, 0)
        mine == bit - over
        fine == IF Width(j) * 2^f.lm > 1 THEN FineOf(f, r, j, mine) ELSE <<0, 1>>
        pulses == IF Width(j) * 2^f.lm > 1 THEN mine - f.c * fine[1] * One ELSE mine
        extra == MinOf((over \div f.c) \div One, MAX_FINE_BITS - fine[1])
    IN  [pulses |-> pulses,
         ebits |-> IF over > 0 THEN fine[1] + extra ELSE fine[1],
         priority |-> IF over > 0 THEN (IF extra * f.c * One >= over - balance THEN 1 ELSE 0) ELSE fine[2],
         balance |-> IF over > 0 THEN over - extra * f.c * One ELSE over]

RECURSIVE SplitFrom(_, _, _, _, _)
SplitFrom(r, j, b, balance, done) ==
    IF j = coded THEN [done EXCEPT !.balance = balance]
    ELSE LET s == BandSplit(frame, r, j, At(b, j), balance)
         IN  SplitFrom(r, j + 1, b, s.balance,
                       [done EXCEPT !.pulses[j + 1] = s.pulses, !.ebits[j + 1] = s.ebits,
                                    !.priority[j + 1] = s.priority])

(* Bands left uncoded have fine energy only.                                *)
Uncoded(b) ==
    LET e == ByBand(LAMBDA j : IF j \in coded..(frame.end - 1) THEN (At(b, j) \div frame.c) \div One ELSE 0)
    IN  [pulses |-> NoBits, ebits |-> e, balance |-> 0,
         priority |-> ByBand(LAMBDA j : IF j \in coded..(frame.end - 1) /\ At(e, j) < 1 THEN 1 ELSE 0)]

Share ==
    /\ phase = "share"
    /\ \E b \in {Shared} :
       \E s \in {SplitFrom(result[side], frame.start, b, 0, Uncoded(b))} :
         /\ bits' = b
         /\ result' = [result EXCEPT ![side] =
                [pulses |-> s.pulses, ebits |-> s.ebits, priority |-> s.priority, balance |-> s.balance,
                 coded |-> coded, intensity |-> result[side].intensity, dual |-> result[side].dual]]
    /\ side' = "decoder"
    /\ phase' = IF Encoding THEN "divide" ELSE "done"
    /\ UNCHANGED <<frame, psum, coded, irsv, budget, sent, read>>

AllocationNext == Divide \/ SkipBand \/ StopSkipping \/ CodeStereo \/ Share

AllocationSpec == AllocationInit /\ [][AllocationNext]_avars

-----------------------------------------------------------------------------
(* The decoder divides every frame as the encoder did - pulses, fine bits,  *)
(* priorities, balance, coded bands, stereo - and reads all that was written *)
(* for it (clt_compute_allocation, interp_bits2pulses).                     *)
DivisionsMirror ==
    phase = "done" => /\ result["decoder"] = result["encoder"]
                      /\ read = Len(sent)

(* No more is handed out than the frame had: pulses, fine bits and decisions *)
(* together stay within the total, and no band's pulses cost less than       *)
(* nothing or more than its cap.                                            *)
SkipFlags == Len(SelectSeq(sent, LAMBDA v : Len(v) = 1))
BudgetKept ==
    phase = "done" =>
        LET r == result["encoder"]
            fine == frame.c * One * SumBands(r.ebits, frame.start, frame.end)
            stereo == irsv + (IF irsv > 0 /\ r.intensity > frame.start THEN DualReserve(frame) ELSE 0)
            flags == One * SkipFlags
        IN  /\ SumBands(r.pulses, frame.start, frame.end) + fine + r.balance + stereo + flags
                  <= MaxOf(0, frame.total)
            /\ \A j \in Coded(frame) :
                 /\ At(r.pulses, j) \in 0..MaxOf(Cap(j, frame.lm, frame.c), frame.c * One)
                 /\ At(r.ebits, j) \in 0..MAX_FINE_BITS

(* Both sides of a link spend the same bits on the same bands, and no more   *)
(* than there are (rate.rs).                                                 *)
AllocationMirrors == DivisionsMirror /\ BudgetKept
=============================================================================

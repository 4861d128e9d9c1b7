------------------------------ MODULE RangeCoder ------------------------------
(***************************************************************************)
(* range_coder.rs: entropy-coded symbols grow from the front of a packet,  *)
(* raw bits from its back, and both meet in the byte done() leaves to      *)
(* both.  The module takes an encoder through everything the codecs do     *)
(* with it (code, rewind a trial, take a discarded trial back, shrink the  *)
(* packet, patch the flags coded first, pad, finish) and then lets a       *)
(* decoder read the packet.                                                *)
(*                                                                         *)
(* The arithmetic is the code's, with the width of a byte and of the range *)
(* register as parameters: the code has SymBits = 8 and CodeBits = 32.     *)
(***************************************************************************)
EXTENDS Integers, Sequences, FiniteSets, SequencesExt, Bitwise

CONSTANTS
  SymBits, CodeBits,  \* EC_SYM_BITS, EC_CODE_BITS
  Ops,                \* symbols to code: [kind, n, v], n a width or a total
  Icdf,               \* the inverse distribution of "icdf" symbols, total 2^n
  Sizes,              \* storage sizes, in bytes
  MaxPuts,            \* bound on the symbols coded, discarded trials included
  MaxShrinks          \* bound on the shrinks of one packet

SymTop  == 2 ^ SymBits
SymMax  == SymTop - 1                          \* EC_SYM_MAX
Shift   == CodeBits - SymBits - 1              \* EC_CODE_SHIFT
CodeTop == 2 ^ (CodeBits - 1)                  \* EC_CODE_TOP
CodeBot == CodeTop \div SymTop                 \* EC_CODE_BOT
Extra   == ((CodeBits - 2) % SymBits) + 1       \* EC_CODE_EXTRA

ASSUME Widths == SymBits \in 2 .. 8 /\ CodeBits \in (3 * SymBits) .. 32

VARIABLES
  enc,      \* the encoder (RangeCoder)
  log,      \* what is in it: the calls that were not rewound, in order
  trial,    \* the snapshot of save_state, with the log it belongs to
  kept,     \* a trial rewound but kept: its state, its bytes and its log
  puts, shrinks,
  packet,   \* the finished packet, or <<>>
  end,      \* how it was finished: [form, told, buried]
  dec, got  \* the decoder, and the symbols it has read

vars == <<enc, log, trial, kept, puts, shrinks, packet, end, dec, got>>

None == [log |-> <<[kind |-> "none"]>>]

Least(a, b) == IF a < b THEN a ELSE b
BitLength == [x \in 0 .. 2 * CodeTop |->       \* 32 - leading_zeros
                CHOOSE k \in 0 .. CodeBits + 1 : x < 2 ^ k /\ (k = 0 \/ x >= 2 ^ (k - 1))]

-----------------------------------------------------------------------------
(* The encoder.  `stale` is what reset_for_encode leaves in the buffer.    *)

EncInit(size, stale) ==
  [buf |-> [i \in 0 .. size - 1 |-> stale], storage |-> size,
   endOffs |-> 0, endWindow |-> 0, nendBits |-> 0, nbits |-> CodeBits + 1,
   offs |-> 0, rng |-> CodeTop, val |-> 0, ext |-> 0, rem |-> -1, error |-> 0]

Tell(c) == c.nbits - BitLength[c.rng]

Room(e) == e.storage - e.offs - e.endOffs

WriteBytes(e, b, n) ==
  LET w == Least(n, Room(e))
  IN  [e EXCEPT !.buf = [i \in DOMAIN @ |-> IF i \in e.offs .. e.offs + w - 1 THEN b ELSE @[i]],
                !.offs = @ + w,
                !.error = IF w < n THEN 1 ELSE @]

WriteByteAtEnd(e, b) ==
  IF Room(e) > 0
  THEN [e EXCEPT !.endOffs = @ + 1, !.buf[e.storage - e.endOffs - 1] = b]
  ELSE [e EXCEPT !.error = 1]

\* A byte that may still get a carry is held back in rem, and a run of bytes
\* a carry would ripple through is only counted, in ext.
CarryOut(e, c) ==
  IF c = SymMax THEN [e EXCEPT !.ext = @ + 1]
  ELSE LET carry == c \div SymTop
           first == IF e.rem >= 0 THEN WriteBytes(e, e.rem + carry, 1) ELSE e
           run   == WriteBytes(first, (SymMax + carry) % SymTop, e.ext)
       IN  [run EXCEPT !.ext = 0, !.rem = c % SymTop]

RECURSIVE NormalizeEncoder(_)
NormalizeEncoder(e) ==
  IF e.rng > CodeBot THEN e
  ELSE LET c == CarryOut(e, e.val \div 2 ^ Shift)
       IN  NormalizeEncoder([c EXCEPT !.val = (@ * SymTop) % CodeTop,
                                      !.rng = @ * SymTop, !.nbits = @ + SymBits])

\* encode, encode_icdf and encode_bit_logp: the interval [fl, fh) out of ft.
Encode(e, fl, fh, ft) ==
  LET r == e.rng \div ft
  IN  NormalizeEncoder(
        IF fl > 0 THEN [e EXCEPT !.val = @ + e.rng - r * (ft - fl), !.rng = r * (fh - fl)]
        ELSE [e EXCEPT !.rng = @ - r * (ft - fh)])

RECURSIVE FlushWindow(_)
FlushWindow(e) ==
  IF e.nendBits < SymBits THEN e
  ELSE FlushWindow([WriteByteAtEnd(e, e.endWindow % SymTop)
                      EXCEPT !.endWindow = @ \div SymTop, !.nendBits = @ - SymBits])

EncBits(e, v, bits) ==
  LET f == IF e.nendBits + bits > CodeBits THEN FlushWindow(e) ELSE e
  IN  [f EXCEPT !.endWindow = @ + (v % 2 ^ bits) * 2 ^ f.nendBits,
                !.nendBits = @ + bits, !.nbits = @ + bits]

\* A large uniform symbol: its SymBits high bits are coded, the rest is raw.
RawPart(ft) == LET b == BitLength[ft - 1] IN IF b > SymBits THEN b - SymBits ELSE 0
CodedTotal(ft) == ((ft - 1) \div 2 ^ RawPart(ft)) + 1

EncUint(e, v, ft) ==
  IF ft <= 1 THEN e
  ELSE LET s == 2 ^ RawPart(ft)
           hi == v \div s
       IN  EncBits(Encode(e, hi, hi + 1, CodedTotal(ft)), v % s, RawPart(ft))

IcdfBefore(s, n) == IF s = 0 THEN 2 ^ n ELSE Icdf[s]   \* icdf[s - 1] of the code

Put(e, op) ==
  CASE op.kind = "bit"   -> LET t == 2 ^ op.n
                            IN  IF op.v = 1 THEN Encode(e, t - 1, t, t) ELSE Encode(e, 0, t - 1, t)
    [] op.kind = "icdf"  -> LET t == 2 ^ op.n
                            IN  Encode(e, t - IcdfBefore(op.v, op.n), t - Icdf[op.v + 1], t)
    [] op.kind = "uint"  -> EncUint(e, op.v, op.n)
    [] op.kind = "raw"   -> EncBits(e, op.v, op.n)
    [] op.kind = "flags" -> Encode(e, 0, 1, 2 ^ op.n)  \* SILK's placeholder

\* patch_initial_bits: n bits at the very front, wherever they are by now.
PatchInitialBits(e, v, n) ==
  LET shift == SymBits - n
      patched(byte) == (byte % 2 ^ shift) + v * 2 ^ shift
      mask == (SymTop - 2 ^ shift) * 2 ^ Shift
  IN  IF e.offs > 0 THEN [e EXCEPT !.buf[0] = patched(@)]
      ELSE IF e.rem >= 0 THEN [e EXCEPT !.rem = patched(@)]
      ELSE IF e.rng <= CodeTop \div 2 ^ n
      THEN [e EXCEPT !.val = (@ - (@ & mask)) + v * 2 ^ (Shift + shift)]
      ELSE [e EXCEPT !.error = -1]

CanShrink(e, size) == e.offs + e.endOffs <= size /\ size <= e.storage

Shrink(e, size) ==
  [e EXCEPT !.storage = size,
            !.buf = [i \in DOMAIN @ |-> IF i \in size - e.endOffs .. size - 1
                                        THEN @[i + e.storage - size] ELSE @[i]]]

\* pad_to_bits: zero raw bits up to the target, whole bytes put straight into
\* the buffer.
PadToBits(e, target) ==
  LET missing == target - e.nbits
      gap     == (-e.nendBits) % SymBits
      aligned == IF gap > 0 /\ missing >= gap THEN EncBits(e, 0, gap) ELSE e
      left    == target - aligned.nbits
      full    == left \div SymBits
      w       == Least(full, Room(aligned))
      zeroed  == [aligned EXCEPT
                    !.buf = [i \in DOMAIN @ |->
                               IF i \in e.storage - aligned.endOffs - w .. e.storage - aligned.endOffs - 1
                               THEN 0 ELSE @[i]],
                    !.endOffs = @ + w,
                    !.error = IF w < full THEN 1 ELSE @,
                    !.nbits = @ + full * SymBits]
  IN  IF missing <= 0 THEN e ELSE EncBits(zeroed, 0, left % SymBits)

\* Raw bits still in the window when whole bytes of padding pass them.
Buries(e, target) ==
  LET gap == (-e.nendBits) % SymBits
  IN  e.nendBits > 0 /\ target - e.nbits >= gap + SymBits

\* Slip: a byte more when the last one is full.
RECURSIVE FlushValueOneMore(_, _, _)
FlushValueOneMore(e, value, l) ==
  IF l < 0 THEN [e |-> e, l |-> l]
  ELSE FlushValueOneMore(CarryOut(e, value \div 2 ^ Shift), (value * SymTop) % CodeTop, l - SymBits)

RECURSIVE FlushValue(_, _, _)
FlushValue(e, value, l) ==
  IF l <= 0 THEN [e |-> e, l |-> l]
  ELSE FlushValue(CarryOut(e, value \div 2 ^ Shift), (value * SymTop) % CodeTop, l - SymBits)

\* The shortest value inside the final range: [value, bits].
FinalValue(e) ==
  LET l == CodeBits - BitLength[e.rng]
      at(k) == LET unit == CodeTop \div 2 ^ k
               IN  [bits |-> k, unit |-> unit, value |-> ((e.val + unit - 1) \div unit) * unit]
      short == at(l)
  IN  IF short.value + short.unit - 1 >= e.val + e.rng THEN at(l + 1) ELSE short

\* Slip: the gap keeps what the buffer held.
GapLeft(e) == e

\* The bytes between the two ends are zeroed, whatever the buffer held.
ZeroGap(e) ==
  [e EXCEPT !.buf = [i \in DOMAIN @ |-> IF i \in e.offs .. e.storage - e.endOffs - 1 THEN 0 ELSE @[i]]]

Done(e) ==
  LET final == FinalValue(e)
      front == FlushValue(e, final.value, final.bits)
      spare == -front.l                        \* free bits in the last front byte
      held  == IF front.e.rem >= 0 \/ front.e.ext > 0 THEN CarryOut(front.e, 0) ELSE front.e
      f     == FlushWindow(held)
      clean == ZeroGap(f)
      bust  == Room(f) <= 0 /\ spare < f.nendBits
      bits  == IF bust THEN f.endWindow % 2 ^ spare ELSE f.endWindow
  IN  IF f.error # 0 THEN f
      ELSE IF f.nendBits = 0 THEN clean
      ELSE IF f.endOffs >= f.storage THEN [clean EXCEPT !.error = -1]
      ELSE [clean EXCEPT !.buf[f.storage - f.endOffs - 1] = @ | bits,
                         !.error = IF bust THEN -1 ELSE @]

Bytes(e, from, to) == [i \in 1 .. to - from |-> e.buf[from + i - 1]]

\* finish: the front bytes, the shared byte if raw bits are in it, the raw
\* bytes; the unused middle is left out.
Compact(e, partial) ==
  Bytes(e, 0, e.offs)
  \o (IF partial THEN <<e.buf[e.storage - e.endOffs - 1]>> ELSE <<>>)
  \o Bytes(e, e.storage - e.endOffs, e.storage)

\* A SILK-only packet: the bytes the coder says it used, at most two kept if
\* the rest is zero.
Stripped(e, told) ==
  LET used == Least((told + SymBits - 1) \div SymBits, e.storage)
      long == {n \in 3 .. used : e.buf[n - 1] # 0}
      keep == IF used <= 2 THEN used ELSE IF long = {} THEN 2 ELSE CHOOSE n \in long : \A k \in long : k <= n
  IN  Bytes(e, 0, keep)

Forms == {"celt", "silk", "finish"}

\* The end of a frame: a CELT frame pads to its budget first.
Finished(e, form) ==
  Done(IF form = "celt" THEN PadToBits(e, e.storage * SymBits) ELSE e)

PacketOf(e, form, before) ==
  CASE form = "celt"   -> Bytes(e, 0, e.storage)
    [] form = "silk"   -> Stripped(e, Tell(before))
    [] form = "finish" -> Compact(e, before.nendBits % SymBits # 0)
-----------------------------------------------------------------------------
(* The decoder.                                                            *)

\* read_byte: zeros past the end.
ReadByte(d) == IF d.offs < Len(d.buf) THEN d.buf[d.offs + 1] ELSE 0

RECURSIVE NormalizeDecoder(_)
NormalizeDecoder(d) ==
  IF d.rng > CodeBot THEN d
  ELSE LET byte == ReadByte(d)
           bits == (d.rem * SymTop + byte) \div 2 ^ (SymBits - Extra)
       IN  NormalizeDecoder(
             [d EXCEPT !.nbits = @ + SymBits, !.rng = @ * SymTop, !.rem = byte,
                       !.offs = Least(@ + 1, Len(d.buf)),
                       !.val = (@ * SymTop + SymMax - (bits % SymTop)) % CodeTop])

NewDecoder(bytes) ==
  LET d0 == [buf |-> bytes, endOffs |-> 0, endWindow |-> 0, nendBits |-> 0, offs |-> 0,
             nbits |-> CodeBits + 1 - ((CodeBits - Extra) \div SymBits) * SymBits,
             rng |-> 2 ^ Extra, val |-> 0, rem |-> 0]
      byte == ReadByte(d0)
  IN  NormalizeDecoder([d0 EXCEPT !.rem = byte, !.offs = Least(1, Len(bytes)),
                                  !.val = d0.rng - 1 - byte \div 2 ^ (SymBits - Extra)])

RECURSIVE FillWindow(_)
FillWindow(d) ==
  IF d.nendBits > CodeBits - SymBits THEN d
  ELSE LET has == d.endOffs < Len(d.buf)
       IN  FillWindow([d EXCEPT
             !.endOffs = IF has THEN @ + 1 ELSE @,
             !.endWindow = @ + (IF has THEN d.buf[Len(d.buf) - d.endOffs] ELSE 0) * 2 ^ d.nendBits,
             !.nendBits = @ + SymBits])

\* Slip: raw bits are not counted.
DecBitsUncounted(d, bits) ==
  LET f == IF d.nendBits < bits THEN FillWindow(d) ELSE d
  IN  [v |-> f.endWindow % 2 ^ bits,
       d |-> [f EXCEPT !.endWindow = @ \div 2 ^ bits, !.nendBits = @ - bits]]

DecBits(d, bits) ==
  LET f == IF d.nendBits < bits THEN FillWindow(d) ELSE d
  IN  [v |-> f.endWindow % 2 ^ bits,
       d |-> [f EXCEPT !.endWindow = @ \div 2 ^ bits, !.nendBits = @ - bits, !.nbits = @ + bits]]

\* decode followed by update with the interval of one value.
DecodeUniform(d, ft) ==
  LET r == d.rng \div ft
      k == ft - Least((d.val \div r) + 1, ft)
      low == r * (ft - k - 1)
  IN  [v |-> k,
       d |-> NormalizeDecoder([d EXCEPT !.val = @ - low,
                                        !.rng = IF k > 0 THEN r ELSE @ - low])]

DecUint(d, ft) ==
  IF ft <= 1 THEN [v |-> 0, d |-> d]
  ELSE LET hi == DecodeUniform(d, CodedTotal(ft))
           lo == DecBits(hi.d, RawPart(ft))
       IN  IF RawPart(ft) = 0 THEN hi
           ELSE [v |-> hi.v * 2 ^ RawPart(ft) + lo.v, d |-> lo.d]

DecodeBitLogp(d, logp) ==
  LET s == d.rng \div 2 ^ logp
      one == d.val < s
  IN  [v |-> IF one THEN 1 ELSE 0,
       d |-> NormalizeDecoder(IF one THEN [d EXCEPT !.rng = s]
                              ELSE [d EXCEPT !.val = @ - s, !.rng = @ - s])]

DecodeIcdf(d, n) ==
  LET r == d.rng \div 2 ^ n
      k == CHOOSE i \in DOMAIN Icdf : d.val >= r * Icdf[i] /\ \A j \in 1 .. i - 1 : d.val < r * Icdf[j]
      top == IF k = 1 THEN d.rng ELSE r * Icdf[k - 1]
  IN  [v |-> k - 1,
       d |-> NormalizeDecoder([d EXCEPT !.val = @ - r * Icdf[k], !.rng = top - r * Icdf[k]])]

\* SILK reads its flags one by one.
RECURSIVE DecodeFlags(_, _, _)
DecodeFlags(d, n, v) ==
  IF n = 0 THEN [v |-> v, d |-> d]
  ELSE LET b == DecodeBitLogp(d, 1) IN DecodeFlags(b.d, n - 1, 2 * v + b.v)

Get(d, op) ==
  CASE op.kind = "bit"   -> DecodeBitLogp(d, op.n)
    [] op.kind = "icdf"  -> DecodeIcdf(d, op.n)
    [] op.kind = "uint"  -> DecUint(d, op.n)
    [] op.kind = "raw"   -> DecBits(d, op.n)
    [] op.kind = "flags" -> DecodeFlags(d, op.n, 0)
-----------------------------------------------------------------------------
(* The calls.                                                              *)

Coding == packet = <<>> /\ end.form = "open"

\* What the surviving calls amount to, in the order of the decoder's reads,
\* each with the state it left the encoder in.
IsSymbol(c) == c.op.kind \notin {"patch", "shrink"}
Symbols == SelectSeq(log, IsSymbol)
Patches == SelectSeq(log, LAMBDA c : c.op.kind = "patch")
HasFlags == log # <<>> /\ log[1].op.kind = "flags"

Logged(e, op) == [op |-> op, nbits |-> e.nbits, rng |-> e.rng]

Code(op) ==
  /\ Coding /\ puts < MaxPuts
  /\ op.kind = "flags" => log = <<>>
  /\ \E e \in {Put(enc, op)} : enc' = e /\ log' = Append(log, Logged(e, op))
  /\ puts' = puts + 1
  /\ UNCHANGED <<trial, kept, shrinks, packet, end, dec, got>>

Save ==
  /\ Coding /\ trial = None
  /\ trial' = [state |-> enc, log |-> log]
  /\ UNCHANGED <<enc, log, kept, puts, shrinks, packet, end, dec, got>>

\* save_state copies no bytes: a rewind leaves the buffer as it is.
Scalars(e, buf) == [e EXCEPT !.buf = buf]

\* The condition restore_state asserts.
Rewinds(e) == e.storage = trial.state.storage /\ e.endOffs = trial.state.endOffs

\* Back to the snapshot; the bytes the trial wrote are copied for later
\* unless an earlier trial is worth more.
Rewind ==
  /\ Coding /\ trial # None /\ Len(log) > Len(trial.log) /\ Rewinds(enc)
  /\ \/ kept' = [state |-> enc, log |-> log, from |-> trial.state.offs,
                 bytes |-> Bytes(enc, trial.state.offs, enc.offs)]
     \/ kept # None /\ kept' = kept
  /\ enc' = Scalars(trial.state, enc.buf) /\ log' = trial.log
  /\ UNCHANGED <<trial, puts, shrinks, packet, end, dec, got>>

\* Slip: the state comes back without its bytes.
PutBackNothing(buf, k) == buf

PutBack(buf, k) ==
  [i \in DOMAIN buf |-> IF i - k.from + 1 \in DOMAIN k.bytes THEN k.bytes[i - k.from + 1] ELSE buf[i]]

\* The first trial was the better one: its bytes and its state come back.
TakeBack ==
  /\ Coding /\ kept # None /\ Rewinds(enc)
  /\ enc' = Scalars(kept.state, PutBack(enc.buf, kept)) /\ log' = kept.log
  /\ trial' = None /\ kept' = None
  /\ UNCHANGED <<puts, shrinks, packet, end, dec, got>>

\* The second one was.
Settle ==
  /\ Coding /\ trial # None
  /\ trial' = None /\ kept' = None
  /\ UNCHANGED <<enc, log, puts, shrinks, packet, end, dec, got>>

\* SILK's flags, once its frames are coded and no trial is open.
Patch(v) ==
  /\ Coding /\ HasFlags /\ Patches = <<>> /\ trial = None
  /\ v < 2 ^ log[1].op.n
  /\ enc' = PatchInitialBits(enc, v, log[1].op.n)
  /\ log' = Append(log, Logged(enc, [kind |-> "patch", n |-> log[1].op.n, v |-> v]))
  /\ UNCHANGED <<trial, kept, puts, shrinks, packet, end, dec, got>>

ShrinkTo(size) ==
  /\ Coding /\ trial = None /\ shrinks < MaxShrinks
  /\ size < enc.storage /\ CanShrink(enc, size)
  /\ enc' = Shrink(enc, size)
  /\ log' = Append(log, Logged(enc, [kind |-> "shrink", n |-> size, v |-> 0]))
  /\ shrinks' = shrinks + 1
  /\ UNCHANGED <<trial, kept, puts, packet, end, dec, got>>

HasRaw == enc.nendBits > 0 \/ enc.endOffs > 0

Finish(form) ==
  /\ Coding /\ trial = None /\ log # <<>>
  /\ form = "silk" => ~HasRaw
  /\ \E e \in {Finished(enc, form)} :
       /\ enc' = e
       /\ packet' = IF e.error = 0 THEN PacketOf(e, form, enc) ELSE <<>>
       /\ dec' = NewDecoder(packet')
  /\ end' = [form |-> form, told |-> Tell(enc),
             buried |-> form = "celt" /\ Buries(enc, enc.storage * SymBits)]
  /\ UNCHANGED <<log, trial, kept, puts, shrinks, got>>

Read ==
  /\ ~Coding /\ enc.error = 0 /\ Len(got) < Len(Symbols)
  /\ \E g \in {Get(dec, Symbols[Len(got) + 1].op)} :
       /\ dec' = g.d
       /\ got' = Append(got, [v |-> g.v, nbits |-> g.d.nbits, rng |-> g.d.rng])
  /\ UNCHANGED <<enc, log, trial, kept, puts, shrinks, packet, end>>

Init ==
  /\ \E size \in Sizes, stale \in {0, SymMax} : enc = EncInit(size, stale)
  /\ log = <<>> /\ trial = None /\ kept = None /\ puts = 0 /\ shrinks = 0
  /\ packet = <<>> /\ end = [form |-> "open", told |-> 0, buried |-> FALSE]
  /\ dec = NewDecoder(<<>>) /\ got = <<>>

Next ==
  \/ \E op \in Ops : Code(op)
  \/ Save \/ Rewind \/ TakeBack \/ Settle
  \/ \E v \in 0 .. SymMax : Patch(v)
  \/ \E size \in Sizes : ShrinkTo(size)
  \/ \E form \in Forms : Finish(form)
  \/ Read

Spec == Init /\ [][Next]_vars
-----------------------------------------------------------------------------
(* Properties.                                                             *)

\* What the decoder should read for a symbol: for the flags, what they were
\* patched to (zeros if they never were).
Sent(op) == IF op.kind # "flags" THEN op.v ELSE IF Patches = <<>> THEN 0 ELSE Patches[1].op.v

\* Every symbol coded is decoded back, whatever trials were rewound or taken
\* back, wherever the flags were when they were patched, whatever the packet
\* was shrunk to and however it was finished (tests/properties.rs:143).
RoundTrip == \A i \in DOMAIN got : got[i].v = Sent(Symbols[i].op)

\* The same for every frame but those whose raw bits the padding passed
\* over while they were still in the window.
RoundTripUnlessBuried == end.buried \/ RoundTrip

\* Encoder and decoder count the same bits and hold the same range after
\* every symbol: both sides take every decision they make by tell() alike.
InStep ==
  \A i \in DOMAIN got :
    got[i].nbits = Symbols[i].nbits /\ got[i].rng = Symbols[i].rng

\* A frame that by tell() fits its storage does fit: finishing it raises no
\* error and no byte is missing.  Every rate loop relies on it.
FitsWhenTold == ~Coding /\ end.told <= SymBits * enc.storage => enc.error = 0

Redo(e, c) ==
  CASE c.op.kind = "patch"  -> PatchInitialBits(e, c.op.v, c.op.n)
    [] c.op.kind = "shrink" -> Shrink(e, c.op.n)
    [] OTHER                -> Put(e, c.op)

\* The packet is the one a fresh encoder with a clean buffer makes of the
\* calls that were not rewound: neither trials nor what the buffer held
\* before leave a trace.
NoTrace ==
  ~Coding /\ got = <<>> /\ packet # <<>> =>
    LET size == Cardinality(DOMAIN enc.buf)
        fresh == FoldLeft(Redo, EncInit(size, 0), log)
    IN  packet = PacketOf(Finished(fresh, end.form), end.form, fresh)

\* What a caller relies on when it has finished a frame: that what was
\* promised by tell() is there, and nothing else is.
PacketsSound == FitsWhenTold /\ NoTrace
=============================================================================

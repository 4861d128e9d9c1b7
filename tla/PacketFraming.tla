---------------------------- MODULE PacketFraming ----------------------------
(***************************************************************************)
(* The framing of an Opus packet (RFC 6716 section 3): the one packet      *)
(* writer of src/src/repacketizer.rs, its parser, and the SECOND parser    *)
(* that OpusDecoder::decode carries inline in src/src/lib.rs.              *)
(*                                                                         *)
(* A packet on the wire is a record                                        *)
(*   head : the bytes of TOC, count byte, padding length and frame sizes,  *)
(*   body : the frames in order, each [id, len]: the payload is opaque,    *)
(*   tail : how many zero bytes (padding) follow.                          *)
(* A parser that runs past the head of a malformed packet reads zeros.     *)
(***************************************************************************)
EXTENDS Integers, SequencesExt

CONSTANT Junk   \* the identity of bytes that are not one whole held frame

MAX_FRAMES == 48
MaxPacketSamples48k == 5760      \* 120 ms
MaxFrameBytes == 1275

(* The sum of the first n elements of a sequence of numbers. *)
SumTo(seq, n) ==
  LET s[i \in 0 .. n] == IF i = 0 THEN 0 ELSE s[i - 1] + seq[i] IN s[n]

Lens(frames) == [i \in DOMAIN frames |-> frames[i].len]
SumLens(frames) == SumTo(Lens(frames), Len(frames))

(* A frame, frames in order, a packet.                                     *)
FrameOK(f) == f = [id |-> f.id, len |-> f.len] /\ f.len \in Nat
FramesOK(fs) == fs \in Seq(Range(fs)) /\ \A i \in 1 .. Len(fs) : FrameOK(fs[i])
WireOK(w) ==
  /\ w = [head |-> w.head, body |-> w.body, tail |-> w.tail]
  /\ w.head \in Seq(0 .. 255) /\ FramesOK(w.body) /\ w.tail \in Nat

WireLen(w) == Len(w.head) + SumLens(w.body) + w.tail

ByteAt(w, i) == IF i < Len(w.head) THEN w.head[i + 1] ELSE 0

(* Where the writer put frame i of the body. *)
BodyOffset(w, i) == Len(w.head) + SumTo(Lens(w.body), i - 1)

(* The content of the byte range [off, off + len): a whole frame of the
   body, an empty range, or junk. *)
ContentAt(w, off, len) ==
  LET hits == {i \in DOMAIN w.body : w.body[i].len = len /\ BodyOffset(w, i) = off}
  IN  IF len # 0 /\ hits # {} THEN w.body[CHOOSE i \in hits : TRUE]
      ELSE [id |-> Junk, len |-> len]

(* The frames a parser's ranges cut out.                                   *)
Contents(w, parsed) ==
  [i \in DOMAIN parsed.ranges |-> ContentAt(w, parsed.ranges[i].off, parsed.ranges[i].len)]

(***************************************************************************)
(* The TOC byte.                                                           *)
(***************************************************************************)
Code(toc) == toc % 4
WithCode(toc, c) == toc - Code(toc) + c       \* (toc & 0xfc) | c

samples_per_frame(toc, fs) ==
  LET a == (toc \div 8) % 4
      doubled == <<1, 2, 4, 8>>[a + 1]
  IN IF toc >= 128 THEN (fs * doubled) \div 400
     ELSE IF (toc \div 32) % 4 = 3 THEN (IF a % 2 = 1 THEN fs \div 50 ELSE fs \div 100)
     ELSE IF a = 3 THEN (fs * 60) \div 1000 ELSE (fs * doubled) \div 100

(* -1 stands for Err. *)
nb_frames(w) ==
  IF WireLen(w) = 0 THEN -1
  ELSE CASE Code(ByteAt(w, 0)) = 0 -> 1
         [] Code(ByteAt(w, 0)) = 3 -> IF WireLen(w) < 2 THEN -1 ELSE ByteAt(w, 1) % 64
         [] Code(ByteAt(w, 0)) \in {1, 2} -> 2

(* Slip: the two-byte form starts one late. *)
put_size_252(size) ==
  IF size <= 252 THEN <<size>>
  ELSE LET b0 == 252 + (size % 4) IN <<b0, ((size - b0) \div 4) % 256>>

(***************************************************************************)
(* One- and two-byte frame sizes.                                          *)
(***************************************************************************)
put_size(size) ==
  IF size < 252 THEN <<size>>
  ELSE LET b0 == 252 + (size % 4) IN <<b0, ((size - b0) \div 4) % 256>>

(* The size a one- or two-byte field stands for: what both readers compute. *)
SizeOf(b0, b1) == IF b0 < 252 THEN b0 ELSE b1 * 4 + b0

(* [bytes, size]; bytes = -1 when the `avail` bytes left are too few. *)
parse_size(w, pos, avail) ==
  LET b0 == ByteAt(w, pos)  b1 == ByteAt(w, pos + 1) IN
  CASE avail <= 0 -> [bytes |-> -1, size |-> -1]
    [] avail > 0 /\ b0 < 252 -> [bytes |-> 1, size |-> SizeOf(b0, b1)]
    [] avail > 0 /\ b0 >= 252 /\ avail < 2 -> [bytes |-> -1, size |-> -1]
    [] avail >= 2 /\ b0 >= 252 -> [bytes |-> 2, size |-> SizeOf(b0, b1)]

(***************************************************************************)
(* parse_frames: a cursor [ok, pos, len, last, sizes] threaded through the *)
(* steps.  `len` is what the parser believes is left for frame data.       *)
(***************************************************************************)
Fail(c) == [c EXCEPT !.ok = FALSE]

(* Padding: bytes of 255 add 254 and go on, the first other byte ends it. *)
PadStop(w, pos) == CHOOSE k \in pos .. WireLen(w) :
                     /\ \A j \in pos .. (k - 1) : ByteAt(w, j) = 255
                     /\ ByteAt(w, k) # 255 \/ k = WireLen(w)

(* k is where the padding length ends. *)
SkipTo(w, c, k) ==
  IF c.len - 255 * (k - c.pos) <= 0 THEN Fail(c)     \* nothing left to read byte k from
  ELSE [c EXCEPT !.pos = k + 1, !.len = @ - 255 * (k - c.pos) - 1 - ByteAt(w, k)]

SkipPadding(w, c) == SkipTo(w, c, PadStop(w, c.pos))

(* One explicit size; `last` keeps what would be left for the last frame. *)
TakeSizeAs(c, s) ==
  IF s.bytes < 0 \/ s.size > c.len - s.bytes THEN Fail(c)
  ELSE [c EXCEPT !.pos = @ + s.bytes, !.len = @ - s.bytes,
                 !.last = @ - s.bytes - s.size, !.sizes = Append(@, s.size)]

SizeAt(w, pos) == parse_size(w, pos, WireLen(w) - pos)

TakeSize(w, c) == TakeSizeAs(c, SizeAt(w, c.pos))

TakeNext(w, c) == IF c.ok THEN TakeSize(w, c) ELSE c

TakeSizes(w, c, n) ==
  LET after[i \in 0 .. n] == IF i = 0 THEN c ELSE TakeNext(w, after[i - 1]) IN after[n]

(* CBR: equal frames, nothing left over. *)
TakeEqual(c) ==
  IF c.len % c.count # 0 THEN Fail(c)
  ELSE [c EXCEPT !.last = c.len \div c.count,
                 !.sizes = [i \in 1 .. (c.count - 1) |-> c.len \div c.count]]

LastFits(c) == IF c.last < 0 THEN Fail(c) ELSE c

(* c: past the count byte and the padding length. *)
CutCode3(w, c, selfDelimited) ==
  CASE ~c.ok \/ c.len < 0 -> Fail(c)
    [] c.ok /\ c.len >= 0 /\ ~c.cbr ->
         LastFits(TakeSizes(w, [c EXCEPT !.last = c.len], c.count - 1))
    [] c.ok /\ c.len >= 0 /\ c.cbr -> IF selfDelimited THEN c ELSE TakeEqual(c)

(* ch: the count byte, with the flags for padding and for sizes. *)
Counted(c, ch) == [c EXCEPT !.pos = 2, !.len = @ - 1, !.count = ch % 64, !.cbr = ch < 128]

ParseCode3(w, c, ch, selfDelimited) ==
  IF \/ c.len < 1
     \/ ch % 64 = 0
     \/ samples_per_frame(ByteAt(w, 0), 48000) * (ch % 64) > MaxPacketSamples48k
  THEN Fail(c)
  ELSE CutCode3(w, IF (ch \div 64) % 2 = 1 THEN SkipPadding(w, Counted(c, ch)) ELSE Counted(c, ch),
                selfDelimited)

Two(c) == [c EXCEPT !.count = 2]
TwoEqual(c) == [c EXCEPT !.count = 2, !.cbr = TRUE]

ParseSizes(w, c, selfDelimited) ==
  CASE Code(ByteAt(w, 0)) = 0 -> c
    [] Code(ByteAt(w, 0)) = 1 -> IF selfDelimited THEN TwoEqual(c) ELSE TakeEqual(TwoEqual(c))
    [] Code(ByteAt(w, 0)) = 2 -> TakeSize(w, Two(c))
    [] Code(ByteAt(w, 0)) = 3 -> ParseCode3(w, c, ByteAt(w, 1), selfDelimited)

(* Slip: the explicit size of a CBR packet is taken for the last frame only. *)
ExplicitLastOnly(c, s) ==
  IF s.bytes < 0 \/ s.size > c.len - s.bytes THEN Fail(c)
  ELSE [c EXCEPT !.pos = @ + s.bytes, !.sizes = Append(@, s.size)]

(* The explicit size that ends a self-delimited header gives every frame's
   size of a CBR packet, the last frame's otherwise. *)
ExplicitLast(c, s) ==
  IF \/ s.bytes < 0
     \/ s.size > c.len - s.bytes
     \/ c.cbr /\ s.size * c.count > c.len - s.bytes
     \/ ~c.cbr /\ s.bytes + s.size > c.last
  THEN Fail(c)
  ELSE [c EXCEPT !.pos = @ + s.bytes, !.len = @ - s.bytes,
                 !.sizes = IF c.cbr THEN [i \in 1 .. c.count |-> s.size] ELSE Append(@, s.size)]

LastSize(w, c, selfDelimited) ==
  CASE ~c.ok -> c
    [] c.ok /\ selfDelimited -> ExplicitLast(c, SizeAt(w, c.pos))
    [] c.ok /\ ~selfDelimited -> IF c.last > MaxFrameBytes THEN Fail(c)
                                ELSE [c EXCEPT !.sizes = Append(@, c.last)]

NoFrames == [ok |-> FALSE, toc |-> 0, ranges |-> <<>>, end |-> 0]

RangesFrom(pos, sizes) ==
  [i \in DOMAIN sizes |->
     [off |-> pos + SumTo(sizes, i - 1), len |-> sizes[i]]]

CutFrames(w, c, end) ==
  IF ~c.ok \/ Len(c.sizes) > MAX_FRAMES \/ end > WireLen(w) THEN NoFrames
  ELSE [ok |-> TRUE, toc |-> ByteAt(w, 0), ranges |-> RangesFrom(c.pos, c.sizes), end |-> end]

Cut(w, c) == CutFrames(w, c, c.pos + SumTo(c.sizes, Len(c.sizes)))

Cursor(w) == [ok |-> WireLen(w) > 0, pos |-> 1, len |-> WireLen(w) - 1, last |-> WireLen(w) - 1,
              sizes |-> <<>>, count |-> 1, cbr |-> FALSE]

parse_frames(w, selfDelimited) ==
  Cut(w, LastSize(w, ParseSizes(w, Cursor(w), selfDelimited), selfDelimited))

(***************************************************************************)
(* write_range: frames (a non-empty selection of the held ones) under toc; *)
(* padTo = NoPad, or the length the packet is padded to.                   *)
(***************************************************************************)
NoPad == -1

IsVbr(frames) == \E i \in DOMAIN frames : frames[i].len # frames[1].len

FieldLen(size) == IF size < 252 THEN 1 ELSE 2

(* Slip: the size fields are left out of the unpadded size. *)
Code3SizeNoFields(frames) == 2 + SumLens(frames)

(* `tot`: the size of the unpadded code-3 packet. *)
Code3Size(frames) ==
  2 + SumLens(frames)
    + (IF IsVbr(frames) THEN SumTo([i \in DOMAIN frames |-> FieldLen(frames[i].len)], Len(frames) - 1)
       ELSE 0)

PadField(amount) ==
  LET nb == (amount - 1) \div 255
  IN  IF amount = 0 THEN <<>> ELSE [i \in 1 .. nb |-> 255] \o <<amount - 255 * nb - 1>>

(* The sizes of the first n frames. *)
SizeFields(frames, n) ==
  LET first[i \in 0 .. n] ==
        IF i = 0 THEN <<>> ELSE first[i - 1] \o put_size(frames[i].len)
  IN first[n]

(* amount: the padding, its length bytes included. *)
HeadCode3(toc, frames, vbr, amount) ==
  <<WithCode(toc, 3),
    Len(frames) + (IF vbr THEN 128 ELSE 0) + (IF amount # 0 THEN 64 ELSE 0)>>
  \o PadField(amount)
  \o (IF vbr THEN SizeFields(frames, Len(frames) - 1) ELSE <<>>)

PadAmount(padTo, tot) == IF padTo > tot THEN padTo - tot ELSE 0

Head012(toc, frames) ==
  CASE Len(frames) = 1 -> <<WithCode(toc, 0)>>
    [] Len(frames) = 2 /\ ~IsVbr(frames) -> <<WithCode(toc, 1)>>
    [] Len(frames) = 2 /\ IsVbr(frames) -> <<WithCode(toc, 2)>> \o put_size(frames[1].len)

Assemble(head, frames, padTo) ==
  [head |-> head, body |-> frames, tail |-> PadAmount(padTo, Len(head) + SumLens(frames))]

write_range(toc, frames, padTo, selfDelimited) ==
  Assemble((IF Len(frames) > 2 \/ padTo # NoPad
            THEN HeadCode3(toc, frames, IsVbr(frames), PadAmount(padTo, Code3Size(frames)))
            ELSE Head012(toc, frames))
           \o (IF selfDelimited THEN put_size(Last(frames).len) ELSE <<>>),
           frames, padTo)

(* The buffer out_vec allocates; write_range fails when it is too small. *)
OutVecBound(frames, padTo) ==
  2 + 2 * (Len(frames) + 1) + SumLens(frames)
    + (IF padTo = NoPad THEN 0 ELSE padTo + (padTo \div 255) + 1)

(***************************************************************************)
(* The parser inside OpusDecoder::decode: frame ranges, or ok = FALSE.     *)
(***************************************************************************)
read_opus_frame_len(w, pos, end) ==
  LET b0 == ByteAt(w, pos)  b1 == ByteAt(w, pos + 1) IN
  CASE pos >= end -> [ok |-> FALSE, size |-> 0, bytes |-> 0]
    [] pos < end /\ b0 < 252 -> [ok |-> TRUE, size |-> SizeOf(b0, b1), bytes |-> 1]
    [] pos < end /\ b0 >= 252 ->
         [ok |-> pos + 1 < end, size |-> SizeOf(b0, b1), bytes |-> 2]

Reject == [ok |-> FALSE, pos |-> 0, sizes |-> <<>>]

ReadLen(h, l) == IF h.ok /\ l.ok
                 THEN [h EXCEPT !.pos = @ + l.bytes, !.sizes = Append(@, l.size)]
                 ELSE Reject

(* The VBR header: n sizes from `pos`, none read at or past `end`. *)
ReadNext(w, h, end) == ReadLen(h, read_opus_frame_len(w, h.pos, end))

NoneRead(pos) == [ok |-> TRUE, pos |-> pos, sizes |-> <<>>]

ReadLens(w, pos, end, n) ==
  LET after[i \in 0 .. n] == IF i = 0 THEN NoneRead(pos) ELSE ReadNext(w, after[i - 1], end)
  IN after[n]

(* Explicit sizes, the last frame taking what is left of [pos, end). *)
WithRemainder(h, end) ==
  LET rest == end - h.pos - SumTo(h.sizes, Len(h.sizes))
  IN  IF ~h.ok \/ rest < 0 THEN Reject ELSE [h EXCEPT !.sizes = Append(@, rest)]

EqualFrames(pos, end, m) ==
  IF (end - pos) % m # 0 THEN Reject
  ELSE [ok |-> TRUE, pos |-> pos, sizes |-> [i \in 1 .. m |-> (end - pos) \div m]]

(* The frames of a code-3 packet lie in [start, end). *)
DecodeFramesIn(w, ch, start, end) ==
  CASE end < 0 \/ start > end -> Reject
    [] start <= end /\ ch >= 128 -> WithRemainder(ReadLens(w, start, end, (ch % 64) - 1), end)
    [] start <= end /\ ch < 128 -> EqualFrames(start, end, ch % 64)

DecodePadding(w, ch, n, k) ==
  IF k >= n THEN Reject
  ELSE DecodeFramesIn(w, ch, k + 1, n - 254 * (k - 2) - ByteAt(w, k))

DecodeCode3(w, n, ch) ==
  IF \/ n < 2
     \/ (ch % 64) \notin 1 .. MAX_FRAMES
     \/ (ch % 64) * samples_per_frame(ByteAt(w, 0), 48000) > MaxPacketSamples48k
  THEN Reject
  ELSE IF (ch \div 64) % 2 = 1 THEN DecodePadding(w, ch, n, PadStop(w, 2))
  ELSE DecodeFramesIn(w, ch, 2, n)

DecodeHeader(w, n) ==
  CASE Code(ByteAt(w, 0)) = 0 -> EqualFrames(1, n, 1)
    [] Code(ByteAt(w, 0)) = 1 -> EqualFrames(1, n, 2)
    [] Code(ByteAt(w, 0)) = 2 -> WithRemainder(ReadLens(w, 1, n, 1), n)
    [] Code(ByteAt(w, 0)) = 3 -> DecodeCode3(w, n, ByteAt(w, 1))

Playable(h) ==
  IF ~h.ok \/ \E i \in DOMAIN h.sizes : h.sizes[i] > MaxFrameBytes
  THEN [ok |-> FALSE, ranges |-> <<>>]
  ELSE [ok |-> TRUE, ranges |-> RangesFrom(h.pos, h.sizes)]

DecodeParse(w) == Playable(DecodeHeader(w, WireLen(w)))

(* Two parsers cut a packet into the same frames, or both refuse it.       *)
SameCut(a, b) == a.ok = b.ok /\ a.ranges = b.ranges
=============================================================================

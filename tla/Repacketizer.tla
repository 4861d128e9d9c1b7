----------------------------- MODULE Repacketizer -----------------------------
(***************************************************************************)
(* src/src/repacketizer.rs: a Repacketizer accumulates the frames of       *)
(* packets of one configuration and writes them out re-framed; pad_packet  *)
(* and unpad_packet re-frame one packet.  One packet is in the caller's    *)
(* hands at a time: received from outside, or written by an operation.     *)
(* An operation that returns Err changes no packet and no held frame; the  *)
(* steps below are the calls that return Ok, and CatRejected, whose early  *)
(* assignments survive the error.                                          *)
(***************************************************************************)
EXTENDS PacketFraming

CONSTANTS
  Settings,     \* by name, the environments: see the operators below
  NoPacket

(* Whatever is handed over is bytes, and nobody asks for negative padding. *)
ASSUME SettingsAssumption ==
  \A name \in DOMAIN Settings :
    /\ \A w \in Settings[name].inputs : WireOK(w)
    /\ Settings[name].padExtras \subseteq Nat

VARIABLES
  setting,          \* the environment, of Settings; never changes
  toc, framesize,   \* of the first packet added; framesize at 8 kHz
  frames,           \* held frames, each [id, len]
  packet,           \* the packet in the caller's hands, or NoPacket
  sent,             \* history: the frames `packet` was made to carry
  form              \* history: how packet was made

vars == <<setting, toc, framesize, frames, packet, sent, form>>

Inputs == Settings[setting].inputs          \* packets that may be handed over
PadExtras == Settings[setting].padExtras    \* bytes a caller pads a packet by
MaxHeld == Settings[setting].maxHeld        \* bound: frames held at once

Init ==
  /\ setting \in DOMAIN Settings
  /\ toc = 0 /\ framesize = 0 /\ frames = <<>>
  /\ packet = NoPacket /\ sent = <<>> /\ form = "none"

CutsInto(w, parsed, fs) == parsed.ok /\ Contents(w, parsed) = fs

Receive(w) ==
  /\ packet = NoPacket
  /\ packet' = w /\ sent' = w.body /\ form' = "received"
  /\ UNCHANGED <<toc, framesize, frames>>

Discard ==
  /\ packet # NoPacket
  /\ packet' = NoPacket /\ sent' = <<>> /\ form' = "none"
  /\ UNCHANGED <<toc, framesize, frames>>

(***************************************************************************)
(* cat                                                                     *)
(***************************************************************************)
HeldToc == IF frames = <<>> THEN ByteAt(packet, 0) ELSE toc
HeldFramesize == IF frames = <<>> THEN samples_per_frame(ByteAt(packet, 0), 8000) ELSE framesize

CatAccepts ==
  /\ frames # <<>> => WithCode(toc, 0) = WithCode(ByteAt(packet, 0), 0)
  /\ nb_frames(packet) >= 1
  /\ (nb_frames(packet) + Len(frames)) * HeldFramesize <= 960
  /\ parse_frames(packet, FALSE).ok

(* A self-delimited packet is for a multistream parser: nobody adds one. *)
Addable == packet # NoPacket /\ form # "self_delimited" /\ WireLen(packet) > 0

Cat ==
  /\ Addable
  /\ CatAccepts
  /\ Len(frames) + nb_frames(packet) <= MaxHeld
  /\ toc' = HeldToc /\ framesize' = HeldFramesize
  /\ frames' = frames \o Contents(packet, parse_frames(packet, FALSE))
  /\ packet' = NoPacket /\ sent' = <<>> /\ form' = "none"

(* An empty repacketizer takes the TOC over before it validates. *)
CatRejected ==
  /\ Addable
  /\ ~CatAccepts
  /\ toc' = HeldToc /\ framesize' = HeldFramesize
  /\ UNCHANGED <<frames, packet, sent, form>>

Reset ==
  /\ frames # <<>>
  /\ frames' = <<>>
  /\ UNCHANGED <<toc, framesize, packet, sent, form>>

(***************************************************************************)
(* out, out_range, out_self_delimited, out_padded_into                     *)
(***************************************************************************)
Write(selected, padTo, selfDelimited, as) ==
  /\ packet = NoPacket
  /\ packet' = write_range(toc, selected, padTo, selfDelimited)
  /\ sent' = selected /\ form' = as
  /\ UNCHANGED <<toc, framesize, frames>>

OutRange ==
  \E b, e \in 0 .. Len(frames) :
    /\ b < e
    /\ Write(SubSeq(frames, b + 1, e), NoPad, FALSE, "written")

OutSelfDelimited == frames # <<>> /\ Write(frames, NoPad, TRUE, "self_delimited")

OutPadded ==
  \E extra \in PadExtras :
    /\ frames # <<>>
    /\ Write(frames, Code3Size(frames) + extra, FALSE, "padded")

(***************************************************************************)
(* pad_packet and unpad_packet: a fresh repacketizer, one cat, one write.  *)
(***************************************************************************)
Reframe(padTo, as) ==
  /\ Addable
  /\ nb_frames(packet) * samples_per_frame(ByteAt(packet, 0), 8000) <= 960
  /\ \E parsed \in {parse_frames(packet, FALSE)} :
       /\ parsed.ok
       /\ \E held \in {Contents(packet, parsed)} :
            /\ packet' = write_range(parsed.toc, held, padTo, FALSE)
            /\ sent' = held
  /\ form' = as
  /\ UNCHANGED <<toc, framesize, frames>>

PadPacket ==
  \E extra \in PadExtras :
    /\ extra > 0
    /\ form \in {"received", "written"}
    /\ Reframe(WireLen(packet) + extra, "pad_packet")

UnpadPacket == Reframe(NoPad, "written")

Next ==
  /\ \/ \E w \in Inputs : Receive(w)
     \/ Discard
     \/ Cat
     \/ CatRejected
     \/ Reset
     \/ OutRange
     \/ OutSelfDelimited
     \/ OutPadded
     \/ PadPacket
     \/ UnpadPacket
  /\ UNCHANGED setting

Spec == Init /\ [][Next]_vars
-------------------------------------------------------------------------------
(* What the repacketizer writes, both parsers read back: the same frames, at
   the same places, whatever code, padding and size fields were chosen
   (write_range against parse_frames and OpusDecoder::decode). *)
WriterMatchesParsers ==
  form \in {"written", "padded", "pad_packet"} =>
    /\ CutsInto(packet, parse_frames(packet, FALSE), sent)
    /\ CutsInto(packet, DecodeParse(packet), sent)

(* The decoder's own parser and parse_frames accept the same packets and cut
   them into the same frames: what the repacketizer passes on is exactly what
   the decoder can play, malformed packets included. *)
ParsersAgree ==
  packet # NoPacket /\ form # "self_delimited" /\ WireLen(packet) > 0 =>
    SameCut(DecodeParse(packet), parse_frames(packet, FALSE))

(* A self-delimited packet followed by the bytes of the next stream yields
   its frames and ends where the next stream begins (multistream.rs relies
   on `end`). *)
SelfDelimitedBoundary ==
  form = "self_delimited" =>
    \A more \in {0, 1, 7} :
      \E stream \in {[packet EXCEPT !.tail = @ + more]} :
        \E parsed \in {parse_frames(stream, TRUE)} :
          CutsInto(stream, parsed, sent) /\ parsed.end = WireLen(packet)

(* pad_packet reaches exactly the requested length: switching to code 3 and
   writing the padding length bytes never overshoots it. *)
PadExact ==
  [][form' = "pad_packet" /\ form # "pad_packet" =>
       \E extra \in PadExtras : WireLen(packet') = WireLen(packet) + extra /\ extra > 0]_vars

(* unpad_packet never returns more bytes than it was given. *)
UnpadNeverGrows ==
  [][packet # NoPacket /\ packet' # NoPacket /\ form' = "written" =>
       WireLen(packet') <= WireLen(packet)]_vars

(* The buffer out_vec sizes ahead of the write always suffices. *)
OutVecSuffices ==
  form \in {"written", "self_delimited", "padded", "pad_packet"} =>
    WireLen(packet) <= OutVecBound(sent, IF form \in {"padded", "pad_packet"}
                                         THEN WireLen(packet) ELSE NoPad)

(* What is written is what the parsers read, and fits the buffer out_vec
   sized for it; and the two parsers, and the self-delimited framing, cut a
   packet alike. *)
WritersExact == WriterMatchesParsers /\ OutVecSuffices
PacketsCutAlike == ParsersAgree /\ SelfDelimitedBoundary

(* Padding gives the length asked for, and taking it away never adds. *)
RepadExact == PadExact /\ UnpadNeverGrows
=============================================================================

------------------------------ MODULE Multistream ------------------------------
(***************************************************************************)
(* OpusMSEncoder and OpusMSDecoder (src/src/multistream.rs): a packet per  *)
(* stream, all but the last one self-delimited, one after the other.  The  *)
(* streams' own codecs are opaque: an encoder makes a packet of any frames *)
(* of Payloads, a decoder cuts what it is given into frames.  A decoded    *)
(* channel is named by the input channel it was coded from.                *)
(***************************************************************************)
EXTENDS PacketFraming, ChannelLayout

CONSTANTS
  Layouts,     \* the layouts in use
  Payloads,    \* the frame lengths an encoder may put in one packet
  Toc          \* the configuration of every packet

(* No channel is unmapped or a copy of another: so for surround().         *)
ASSUME LayoutsAssumption == \A l \in Layouts : WellFormed(l)

(* What an encoder makes is a packet: at most 120 ms (960 samples at 8     *)
(* kHz) in frames of at most 1275 bytes.                                   *)
ASSUME PayloadsAssumption ==
  /\ Toc \in 0 .. 255
  /\ \A lens \in Payloads :
       /\ lens \in Seq(0 .. MaxFrameBytes) /\ Len(lens) >= 1
       /\ Len(lens) * samples_per_frame(Toc, 8000) <= 960

VARIABLES
  layout,
  call,        \* "idle", in "encode" or "decode", decode "returned" or "failed"
  coded,       \* history: for each stream so far, the frames it coded
  gathered,    \* history: and the input channels they were coded from
  out,         \* the packet, one part per stream; <<>> once lost
  pos,         \* where data starts in the packet
  played,      \* for each stream so far, the frames its decoder was given
  output       \* for each channel, what was written there

ms_vars == <<layout, call, coded, gathered, out, pos, played, output>>

Stale == -3
Conceal == <<"concealed">>

Last_s(l) == l.nb_streams - 1

MSInit ==
  /\ layout \in Layouts
  /\ call = "encode"
  /\ coded = <<>> /\ gathered = <<>> /\ out = <<>>
  /\ pos = 0 /\ played = <<>>
  /\ output = [c \in ChannelsOf(layout) |-> Stale]

(***************************************************************************)
(* encode, a stream at a time.                                             *)
(***************************************************************************)
FramesOf(s, lens) ==
  [i \in DOMAIN lens |-> [id |-> IF lens[i] = 0 THEN Junk ELSE <<s, i>>, len |-> lens[i]]]

(* A fresh Repacketizer adds the packet and writes it self-delimited.      *)
SelfDelimited(w) ==
  write_range(ByteAt(w, 0), Contents(w, parse_frames(w, FALSE)), NoPad, TRUE)

(* Slip: no part is self-delimited. *)
PartPlain(l, s, w) == w

Part(l, s, w) == IF s # Last_s(l) THEN SelfDelimited(w) ELSE w

EncodeStream ==
  LET s == Len(coded) IN
  /\ call = "encode" /\ s < layout.nb_streams
  /\ \E lens \in Payloads :
       /\ coded' = Append(coded, FramesOf(s, lens))
       /\ out' = Append(out, Part(layout, s, write_range(Toc, FramesOf(s, lens), NoPad, FALSE)))
  /\ gathered' = Append(gathered, Gather(layout, s))
  /\ UNCHANGED <<layout, call, pos, played, output>>

(* The packet is handed to the decoder, or lost: then decode gets nothing. *)
Deliver ==
  /\ call = "encode" /\ Len(coded) = layout.nb_streams
  /\ call' = "decode"
  /\ out' \in {out, <<>>}
  /\ UNCHANGED <<layout, coded, gathered, pos, played, output>>

(***************************************************************************)
(* decode, a stream at a time.  data is the packet from pos on.            *)
(***************************************************************************)
PartLens == [k \in DOMAIN out |-> WireLen(out[k])]
Begin(k) == SumTo(PartLens, k - 1)
End(k) == SumTo(PartLens, k)

(* The part that starts at pos, with all that follows as its tail; bytes   *)
(* cut elsewhere are no packet.                                            *)
Nothing == [head |-> <<>>, body |-> <<>>, tail |-> 0]
Data ==
  LET here == {k \in DOMAIN out : Begin(k) = pos} IN
  IF here = {} THEN Nothing
  ELSE LET k == CHOOSE k \in here : TRUE
       IN [out[k] EXCEPT !.tail = @ + End(Len(out)) - End(k)]

(* data[..end]                                                             *)
Slice(w, end) ==
  IF end < Len(w.head) + SumLens(w.body) THEN Nothing
  ELSE [w EXCEPT !.tail = end - Len(w.head) - SumLens(w.body)]

(* What OpusDecoder::decode makes of a slice; an empty one is concealed.   *)
Play(w) ==
  IF WireLen(w) = 0 THEN [ok |-> TRUE, frames |-> Conceal]
  ELSE \* parsed once
       LET cut(parsed) == [ok |-> parsed.ok, frames |-> Contents(w, parsed)]
       IN cut(DecodeParse(w))

Accept(s, heard, end) ==
  IF heard.ok
  THEN /\ played' = Append(played, heard.frames)
       /\ output' = Remux(layout, s, IF out = <<>> THEN [x \in Sides(layout, s) |-> Stale]
                                     ELSE gathered[s + 1], output)
       /\ pos' = end
       /\ UNCHANGED call
  ELSE call' = "failed" /\ UNCHANGED <<played, output, pos>>

(* The bytes of stream s: the rest of the packet for the last one.         *)
DecodeStream ==
  LET s == Len(played) IN
  /\ call = "decode" /\ s < layout.nb_streams
  /\ \E w \in {Data} :
       IF s = Last_s(layout) THEN \E heard \in {Play(w)} : Accept(s, heard, pos + WireLen(w))
       ELSE \E parsed \in {parse_frames(w, TRUE)} :
              IF parsed.ok
              THEN \E heard \in {Play(Slice(w, parsed.end))} : Accept(s, heard, pos + parsed.end)
              ELSE call' = "failed" /\ UNCHANGED <<played, output, pos>>
  /\ UNCHANGED <<layout, coded, gathered, out>>

Finish ==
  /\ call = "decode" /\ Len(played) = layout.nb_streams
  /\ call' = "returned"
  /\ output' = Silenced(layout, output)
  /\ UNCHANGED <<layout, coded, gathered, out, pos, played>>

(* The next frame; output keeps the last one's samples until overwritten.  *)
NextFrame ==
  /\ call \in {"returned", "failed"}
  /\ call' = "encode"
  /\ coded' = <<>> /\ gathered' = <<>> /\ out' = <<>> /\ pos' = 0 /\ played' = <<>>
  /\ output' = [c \in ChannelsOf(layout) |-> Stale]
  /\ UNCHANGED layout

MSNext == EncodeStream \/ Deliver \/ DecodeStream \/ Finish \/ NextFrame

MSSpec == MSInit /\ [][MSNext]_ms_vars

-------------------------------------------------------------------------------
(* The decoder starts each stream where the encoder did, whatever came     *)
(* before it in the packet: parse_frames returns exactly the end of a      *)
(* self-delimited packet with other bytes behind it.                       *)
BoundariesFound ==
  call = "decode" /\ out # <<>> => pos = SumTo(PartLens, Len(played))

(* The last stream's decoder gets the frames the last encoder made: it is  *)
(* framed like a packet of its own.                                        *)
LastStreamPlayed ==
  call = "returned" /\ out # <<>> => played[layout.nb_streams] = coded[layout.nb_streams]

(* Both: every stream is cut out of the packet where it lies. *)
StreamsFound == BoundariesFound /\ LastStreamPlayed

(* A channel comes out where it went in: gathering into streams and        *)
(* remuxing undo each other for every layout surround() hands out.         *)
ChannelsInPlace ==
  call = "returned" /\ out # <<>> => \A c \in ChannelsOf(layout) : output[c] = c

(* Every stream's decoder gets the frames its encoder made: "All streams   *)
(* but the last are self-delimited so the decoder can find each stream's   *)
(* boundary" (src/src/multistream.rs:227-228).                             *)
EachStreamPlayed ==
  \A k \in DOMAIN played : out # <<>> => played[k] = coded[k]
================================================================================

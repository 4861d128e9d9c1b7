---------------------------- MODULE MCRepacketizer ----------------------------
(* Repacketizer for TLC, in three environments: packets from an encoder,   *)
(* packets near the 120 ms limit, and arbitrary headers.                   *)
EXTENDS Repacketizer

SilkWB20 == 72      \* config 9, mono: 20 ms SILK
Silk60   == 88      \* config 11: 60 ms SILK
Hybrid10 == 96      \* config 12: 10 ms hybrid
Celt2_5  == 128     \* config 16: 2.5 ms CELT

Frame(id, len) == [id |-> IF len = 0 THEN Junk ELSE id, len |-> len]
Plain(t, id, len) == [head |-> <<t>>, body |-> <<Frame(id, len)>>, tail |-> 0]

(* Packets an encoder makes: one frame, sizes on both sides of the one- and
   two-byte length fields. *)
EncoderPackets ==
  {Plain(SilkWB20, "a", 0), Plain(SilkWB20, "a", 3), Plain(SilkWB20, "b", 252)}
  \cup {Plain(Silk60, "b", 1275)}

(* Packets of several short frames: the 120 ms limit is 2, 6 or 12 frames,
   and single packets already past it are handed over too. *)
CapPackets ==
  {write_range(t, [i \in 1 .. n |-> Frame("a", 1)], NoPad, FALSE) :
     t \in {Hybrid10, SilkWB20, Silk60}, n \in {1, 2, 5, 7}}

(* Arbitrary header bytes over zero payloads of chosen length. *)
CountBytes == {0, 1, 2, 3, 6, 7, 66, 67, 129, 130, 131, 193, 194}
FieldBytes == {0, 1, 4, 251, 252, 255}
Tails == {0, 1, 3, 6, 254, 255, 1275, 1276, 2550}
Malformed ==
  {[head |-> <<SilkWB20 + c>> \o h, body |-> <<>>, tail |-> n] :
     c \in 0 .. 2, h \in BoundedSeq(FieldBytes, 2), n \in Tails}
  \cup
  {[head |-> <<SilkWB20 + 3, c>> \o h, body |-> <<>>, tail |-> n] :
     c \in CountBytes, h \in BoundedSeq(FieldBytes, 2), n \in Tails}
  \cup
  {[head |-> <<Celt2_5 + 3, c>>, body |-> <<>>, tail |-> n] :
     c \in {47, 48, 49, 63, 176, 177}, n \in {0, 47, 48, 49, 96}}

Use(inputs, padExtras, maxHeld) ==
  [inputs |-> inputs, padExtras |-> padExtras, maxHeld |-> maxHeld]
MCSettings ==
  [encoder   |-> Use(EncoderPackets, {0, 1, 256}, 3),
   cap       |-> Use(CapPackets, {1}, 14),
   malformed |-> Use(Malformed, {1, 300}, 0)]
=============================================================================

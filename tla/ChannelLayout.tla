----------------------------- MODULE ChannelLayout -----------------------------
(***************************************************************************)
(* ChannelLayout (src/src/multistream.rs): how the channels of a surround  *)
(* signal map onto mono and stereo (coupled) Opus streams.  Channels and   *)
(* streams are numbered from 0; mapping[c] is the decoded channel that     *)
(* output channel c takes: 2s and 2s+1 of coupled stream s, and one for    *)
(* each mono stream after those.  255 means none.                          *)
(***************************************************************************)
EXTENDS Integers, Sequences

Layout(channels, streams, coupled, mapping) ==
  [nb_channels |-> channels, nb_streams |-> streams, nb_coupled_streams |-> coupled,
   mapping |-> [c \in 0 .. channels - 1 |-> mapping[c + 1]]]

VORBIS_MAPPINGS ==
  <<Layout(1, 1, 0, <<0>>),
    Layout(2, 1, 1, <<0, 1>>),
    Layout(3, 2, 1, <<0, 2, 1>>),
    Layout(4, 2, 2, <<0, 1, 2, 3>>),
    Layout(5, 3, 2, <<0, 4, 1, 2, 3>>),
    Layout(6, 4, 2, <<0, 4, 1, 2, 3, 5>>),
    Layout(7, 4, 3, <<0, 4, 1, 2, 3, 5, 6>>),
    Layout(8, 5, 3, <<0, 6, 1, 2, 3, 4, 5, 7>>)>>

(* Family 0 is mono and stereo, family 1 the Vorbis layouts; every other   *)
(* pair is BadArg.                                                         *)
Surrounds == {Layout(1, 1, 0, <<0>>), Layout(2, 1, 1, <<0, 1>>)}
               \cup {VORBIS_MAPPINGS[n] : n \in 1 .. 8}

ChannelsOf(l) == 0 .. l.nb_channels - 1
StreamsOf(l) == 0 .. l.nb_streams - 1
IsCoupled(l, s) == s < l.nb_coupled_streams
Sides(l, s) == IF IsCoupled(l, s) THEN {"left", "right"} ELSE {"mono"}

(* Slip: mono streams are numbered as if coupled ones had one channel. *)
DecodedMono(l, s, side) ==
  CASE side = "left" -> 2 * s
    [] side = "right" -> 2 * s + 1
    [] side = "mono" -> s

(* The decoded channel that a side of stream s is.                         *)
Decoded(l, s, side) ==
  CASE side = "left" -> 2 * s
    [] side = "right" -> 2 * s + 1
    [] side = "mono" -> s + l.nb_coupled_streams

TakenBy(l, s, side) == {c \in ChannelsOf(l) : l.mapping[c] = Decoded(l, s, side)}

(* left_channel, right_channel and mono_channel with prev = -1: the first  *)
(* channel that takes this side, or -1.                                    *)
NoChannel == -1
FirstChannel(l, s, side) ==
  LET taken == TakenBy(l, s, side)
  IN IF taken = {} THEN NoChannel ELSE CHOOSE c \in taken : \A d \in taken : c <= d

(* The input channel each side of stream s is coded from.                  *)
Gather(l, s) == [side \in Sides(l, s) |-> FirstChannel(l, s, side)]

(* output after a side of stream s, carrying signal, was written to every  *)
(* channel that takes it: the loops over left_channel(s, prev) and so on.  *)
RemuxSide(l, s, side, signal, output) ==
  [c \in ChannelsOf(l) |-> IF c \in TakenBy(l, s, side) THEN signal ELSE output[c]]

Remux(l, s, signals, output) ==
  IF IsCoupled(l, s)
  THEN RemuxSide(l, s, "right", signals["right"],
                 RemuxSide(l, s, "left", signals["left"], output))
  ELSE RemuxSide(l, s, "mono", signals["mono"], output)

(* Every channel takes a decoded channel, and no two the same one.         *)
WellFormed(l) ==
  /\ {l.nb_channels, l.nb_streams, l.nb_coupled_streams} \subseteq Nat
  /\ l.nb_coupled_streams <= l.nb_streams
  /\ l.nb_streams + l.nb_coupled_streams <= 255
  /\ \A c \in ChannelsOf(l) : l.mapping[c] \in 0 .. l.nb_streams + l.nb_coupled_streams - 1
  /\ \A c, d \in ChannelsOf(l) : l.mapping[c] = l.mapping[d] => c = d

(* Channels mapped to 255 are silenced.                                    *)
Silence == -2
Silenced(l, output) ==
  [c \in ChannelsOf(l) |-> IF l.mapping[c] = 255 THEN Silence ELSE output[c]]
================================================================================

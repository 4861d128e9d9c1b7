-------------------------------- MODULE OpusLink --------------------------------
(***************************************************************************)
(* An OpusEncoder and an OpusDecoder on a link that may lose packets.  The *)
(* decoder must follow every reset, redundant frame and switch of the      *)
(* encoder from the packets alone (the comment "encoder must mirror both   *)
(* or the streams desync", src/src/lib.rs, at the mode-transition resets). *)
(***************************************************************************)
EXTENDS OpusDecoder

CONSTANTS
  Channels,    \* of both ends
  Inputs,      \* what the application encodes: see OpusEncoder
  Losses       \* whether packets may be lost: a subset of BOOLEAN

VARIABLES enc, packet,
  lossy        \* whether this link loses packets

link_vars == <<enc, packet, dec, aux, fec, lossy>>

(* Inputs that are requests to an encoder with these channels, of packets  *)
(* with a frame, and in which redundancy always fits.                      *)
InputsFit ==
  /\ Channels \in {1, 2}
  /\ \A in \in Inputs :
       /\ in.mode \in {"silk", "hybrid", "celt"} /\ in.long \in BOOLEAN /\ in.fits = TRUE
       /\ in.ch \in 1 .. Channels
       /\ in.empty \in Seq(BOOLEAN) /\ in.empty # <<>>

Enc == INSTANCE OpusEncoder

(* A new encoder, and a new decoder without FEC.                           *)
LinkInit ==
  /\ Enc!Init
  /\ dec = New(Channels) /\ aux = New(2) /\ fec = NoFec
  /\ lossy \in Losses

(* Numbers are reused once no codec state refers to them: a state at each  *)
(* end of each codec, so four are in use at most.                          *)
States == {enc.celt_enc, enc.silk_enc, dec.celt_dec, dec.silk_dec} \ {Fresh, Other}
Unused == CHOOSE n \in 0 .. 4 : \A t \in States : t[1] # n

(* TOC-only frames (DTX) damage the stream as losses do, and count as one. *)
Send ==
  /\ packet = Enc!NoPacket
  /\ \E in \in Inputs :
       /\ lossy \/ \A i \in DOMAIN in.empty : ~in.empty[i]
       /\ Enc!Encode(in, Unused)
  /\ dec' = Clear(dec)
  /\ UNCHANGED <<aux, fec, lossy>>

Deliver ==
  /\ packet # Enc!NoPacket /\ packet' = Enc!NoPacket
  /\ Decode(packet)
  /\ UNCHANGED <<enc, lossy>>

Drop ==
  /\ packet # Enc!NoPacket /\ packet' = Enc!NoPacket
  /\ lossy /\ Lose
  /\ UNCHANGED <<enc, lossy>>

LinkNext == Send \/ Deliver \/ Drop

LinkSpec == LinkInit /\ [][LinkNext]_link_vars

----------------------------------------------------------------------------
Follows(c) == c.frame.intra \/ c.at = c.frame.ref

(* With no packet lost, each CELT frame, redundant or not, is decoded from *)
(* the state it was predicted from, unless coded without prediction.       *)
CeltInSync == ~lossy => \A k \in DOMAIN dec.calls :
  dec.calls[k].op = "celt" => Follows(dec.calls[k])

IsSilk(c) == c.op = "silk" /\ c.what = "normal"

(* With no packet lost, each SILK frame is decoded from the state it was   *)
(* predicted from (the resets of SILK on both sides, lib.rs:1414 and       *)
(* lib.rs:2900).                                                           *)
SilkInSync == ~lossy => \A k \in DOMAIN dec.calls :
  IsSilk(dec.calls[k]) => Follows(dec.calls[k])

(* What the code keeps of it: with no packet lost, SILK gets out of step   *)
(* only at the first frame after CELT, which is decoded from the reset     *)
(* state its packet calls for; a change of rate ends that.                 *)
AfterCelt(calls, k) ==
  /\ dec.prev_mode = "celt" /\ calls[k].at = Fresh
  /\ \A j \in 1 .. k - 1 : ~IsSilk(calls[j])
Strays(calls, k) ==
  calls[k].frame.ref # Fresh /\ (calls[k].at = Other \/ AfterCelt(calls, k))
SilkStraysAfterCelt ==
  [][Deliver /\ ~lossy => \A k \in DOMAIN dec'.calls :
       IsSilk(dec'.calls[k]) => Follows(dec'.calls[k]) \/ Strays(dec'.calls, k)]_link_vars

(* After a packet arrives, whatever was lost before it, the decoder will   *)
(* see the same mode changes as the encoder: its next reset is the         *)
(* encoder's next reset.                                                   *)
SeenMode == IF dec.prev_redundancy THEN "celt" ELSE dec.prev_mode
ModesMirror == [][Deliver => SeenMode' = enc.prev_enc_mode]_link_vars

(* A CELT state made anew ends the damage of earlier losses: when a packet *)
(* brings one, the decoder is where the encoder is after it.               *)
Renews(p) ==
  LET f == p.frames[Len(p.frames)] IN f.red = "to_celt" \/ (f.red # "empty" /\ f.celt.intra)
Renewed == [][Deliver /\ Renews(packet) => dec'.celt_dec = enc.celt_enc]_link_vars

(* Both: what a loss leaves behind ends with the next packet that can end it. *)
Resyncs == ModesMirror /\ Renewed

(* With no packet lost, on a switch away from CELT exactly one fade starts *)
(* the first frame.                                                        *)
FadesOnce ==
  [][Deliver /\ ~lossy /\ dec.prev_mode = "celt" /\ packet.mode # "celt"
     => \E k \in DOMAIN dec'.calls : StartFades(dec'.calls) = {k}]_link_vars
================================================================================

------------------------------ MODULE OpusDecoder ------------------------------
(***************************************************************************)
(* OpusDecoder (src/src/lib.rs): which codec decodes, conceals or is reset *)
(* on each packet, in which order, and how the two codecs are faded into   *)
(* one another.  A codec's state is a token: the token of the frame it has *)
(* last decoded, Fresh after a reset, Other when it no longer follows a    *)
(* stream.  Each call into a codec, resampler or fade is appended to       *)
(* `calls`, which holds the calls of the last operation only.              *)
(*                                                                         *)
(* A packet is [mode, bw, ch, frames]; a frame is [red, silk, celt, rc]:   *)
(* red says whether a redundant 5 ms CELT frame rides along and at which   *)
(* end ("none", "to_silk", "to_celt"), or that the payload is "empty"; the *)
(* rest are the coded frames, [ref, intra, id]: the encoder state a frame  *)
(* was predicted from, whether it uses that state, and the state after it. *)
(***************************************************************************)
EXTENDS Integers, Sequences

CONSTANTS
  Uses,         \* how the decoder is used: [channels, fec], a set of them
  Packets(_),   \* the packets that arrive at a decoder with these channels
  Fresh, Other

ASSUME DecoderAssumption ==
  Uses \subseteq [channels : {1, 2}, fec : BOOLEAN] /\ Fresh # Other

VARIABLES
  dec,        \* the decoder
  aux,        \* the decoder of stereo packets in a mono decoder
  fec         \* the packet whose FEC was decoded last and which comes next,
              \* or NoFec if the application never calls decode_fec

vars == <<dec, aux, fec>>

Modes == {"silk", "hybrid", "celt"}
Reds == {"none", "to_silk", "to_celt", "empty"}

(* A packet that parses has a frame.                                       *)
ASSUME PacketsAssumption ==
  \A channels \in {1, 2} : \A p \in Packets(channels) :
    /\ p.mode \in Modes /\ p.ch \in {1, 2}
    /\ Len(p.frames) \in Nat \ {0}
    /\ \A i \in 1 .. Len(p.frames) : p.frames[i].red \in Reds

NoPacket == [mode |-> "none"]
NoFec == [mode |-> "off"]

Rate(mode, bw) ==
  CASE mode # "hybrid" /\ bw = "NB" -> 8
    [] mode # "hybrid" /\ bw = "MB" -> 12
    [] OTHER -> 16

(* Rates are in kHz; 0 is a resampler (or rate) not set up yet.  stale is  *)
(* no field of the code: it says a CELT packet came since SILK's last reset *)
New(channels) ==
  [channels |-> channels, prev_mode |-> "none", prev_redundancy |-> FALSE,
   first_frame_redundancy |-> FALSE, transition_pending |-> FALSE,
   transition_pcm |-> FALSE, bandwidth |-> "auto", prev_internal_rate |-> 0,
   silk_resampler |-> 0, silk_resampler_r |-> 0,
   n_channels_internal |-> channels, fs_khz |-> 16, silk_dec |-> Fresh,
   celt_dec |-> Fresh, stale |-> FALSE, calls |-> <<>>]

Call(d, c) == [d EXCEPT !.calls = Append(@, c)]

----------------------------------------------------------------------------
(* The codecs.  A frame that needs a state the codec is not in leaves it   *)
(* in no state of the stream.                                              *)
After(at, f) == IF f.intra \/ at = f.ref THEN f.id ELSE Other

RunCelt(d, i, what, f) ==
  [Call(d, [op |-> "celt", i |-> i, what |-> what, at |-> d.celt_dec, frame |-> f])
     EXCEPT !.celt_dec = After(d.celt_dec, f)]

ResetCelt(d) == [d EXCEPT !.celt_dec = Fresh]

ConcealCelt(d) ==
  [Call(d, [op |-> "conceal_lost", at |-> d.celt_dec]) EXCEPT !.celt_dec = Other]

(* silk_decoder_set_fs drops the history when the internal rate changes.   *)
SetFs(d, rate) ==
  [d EXCEPT !.fs_khz = rate, !.silk_dec = IF d.fs_khz = rate THEN @ ELSE Fresh]

RunSilk(d, what, f) ==
  [Call(d, [op |-> "silk", what |-> what, at |-> d.silk_dec, frame |-> f,
            stale |-> d.stale])
     EXCEPT !.silk_dec = IF what = "normal" THEN After(d.silk_dec, f) ELSE Other]

(* The left resampler always runs, the right one on a stereo output.       *)
Resample(d, rate, right) ==
  Call(d, [op |-> "resample", rate |-> rate, left |-> d.silk_resampler,
           right |-> IF right THEN d.silk_resampler_r ELSE rate])

(* Slip: the right resampler is left at its old rate. *)
InitResamplersLeft(d, rate) ==
  IF rate = d.prev_internal_rate THEN d
  ELSE [d EXCEPT !.silk_resampler = rate, !.prev_internal_rate = rate]

(* Both resamplers restart with the internal rate when a packet decodes.   *)
InitResamplers(d, rate) ==
  IF rate = d.prev_internal_rate THEN d
  ELSE [d EXCEPT !.silk_resampler = rate, !.silk_resampler_r = rate,
                 !.prev_internal_rate = rate]

(* Concealment and FEC restart the left one only.                          *)
InitLeft(d, rate) ==
  IF rate = d.prev_internal_rate THEN d
  ELSE [d EXCEPT !.silk_resampler = rate, !.prev_internal_rate = rate]

----------------------------------------------------------------------------
(* Packet loss.                                                            *)
Lost == [ref |-> Other, intra |-> FALSE, id |-> Other]

ConcealSilk(d, rate) ==
  Resample(RunSilk(SetFs(InitLeft(d, rate), rate), "lost", Lost), rate, d.channels = 2)

PlcMode(d) == IF d.prev_redundancy THEN "celt" ELSE d.prev_mode

(* decode_plc: every chunk conceals in the same mode, so one stands for    *)
(* all of them.                                                            *)
Conceal(d) ==
  LET mode == PlcMode(d)
      silk == IF mode \in {"silk", "hybrid"} THEN ConcealSilk(d, Rate(mode, d.bandwidth)) ELSE d
      both == IF mode \in {"celt", "hybrid"} THEN ConcealCelt(silk) ELSE silk
  IN IF d.prev_mode = "none" THEN d
     ELSE [both EXCEPT !.prev_mode = mode, !.prev_redundancy = FALSE]

(* decode_fec with a SILK or hybrid packet of one frame; any other packet  *)
(* is concealed.                                                           *)
HasFec(p) == p.mode # "celt" /\ Len(p.frames) = 1

Lbrr(d, p, rate) ==
  Resample(RunSilk(SetFs(InitLeft([d EXCEPT !.n_channels_internal = 1], rate), rate),
                   "lbrr", Lost), rate, FALSE)

DecodeFec(d, p) ==
  IF HasFec(p) THEN [Lbrr(d, p, Rate(p.mode, p.bw)) EXCEPT !.prev_mode = p.mode]
  ELSE Conceal(d)

----------------------------------------------------------------------------
(* decode: what happens before the mode's own arm.                         *)

(* Slip: the redundant frame of the last packet is forgotten. *)
TransitionAlways(d, p) ==
  IF d.prev_mode = "none" THEN d
  ELSE IF p.mode = "celt" /\ d.prev_mode # "celt"
  THEN [Conceal(d) EXCEPT !.transition_pcm = TRUE]
  ELSE [d EXCEPT !.transition_pending = p.mode # "celt" /\ d.prev_mode = "celt"]

(* Entering CELT conceals in the old mode now; leaving it waits until the  *)
(* first frame is known to carry no redundancy.                            *)
Transition(d, p) ==
  IF d.prev_mode = "none" THEN d
  ELSE IF p.mode = "celt" /\ d.prev_mode # "celt" /\ ~d.prev_redundancy
  THEN [Conceal(d) EXCEPT !.transition_pcm = TRUE]
  ELSE [d EXCEPT !.transition_pending = p.mode # "celt" /\ d.prev_mode = "celt"]

(* Slip: only a SILK packet resets SILK, not a hybrid one. *)
LeaveCeltForSilk(d, p) ==
  IF p.mode = "silk" /\ d.prev_mode = "celt"
  THEN [d EXCEPT !.silk_dec = Fresh, !.prev_internal_rate = 0, !.stale = FALSE]
  ELSE d

LeaveCelt(d, p) ==
  IF p.mode # "celt" /\ d.prev_mode = "celt"
  THEN [d EXCEPT !.silk_dec = Fresh, !.prev_internal_rate = 0, !.stale = FALSE]
  ELSE d

Prepare(d, p) ==
  [LeaveCelt(Transition(d, p), p) EXCEPT
     !.first_frame_redundancy = FALSE, !.bandwidth = p.bw]

(* The stereo switch of the SILK and hybrid arms.                          *)
SwitchChannels(d, p) ==
  [d EXCEPT !.n_channels_internal = p.ch,
            !.silk_resampler_r =
               IF d.channels = 2 /\ p.ch = 2 /\ d.n_channels_internal = 1
               THEN d.silk_resampler ELSE @]

(* Slip: CELT is concealed before the redundancy is known. *)
RunTransitionPlcEager(d, i, f) ==
  LET due == d.transition_pending /\ i = 1
  IN [(IF due THEN ConcealCelt(d) ELSE d) EXCEPT
        !.transition_pending = FALSE, !.transition_pcm = due \/ @]

(* run_transition_plc: take() clears the flag whatever it does.            *)
RunTransitionPlc(d, i, f) ==
  LET due == d.transition_pending /\ i = 1 /\ f.red \in {"none", "empty"}
  IN [(IF due THEN ConcealCelt(d) ELSE d) EXCEPT
        !.transition_pending = FALSE, !.transition_pcm = due \/ @]

Fade(d, i, at) == Call(d, [op |-> "fade", i |-> i, at |-> at])

DecodeRedundantCelt(d, i, f, which) ==
  IF f.red # which THEN d
  ELSE RunCelt(IF which = "to_celt" THEN ResetCelt(d) ELSE d, i, which, f.rc)

(* Slip: the fade at the start of the frame is missing. *)
RedundancyFadeEnd(d, i, f) ==
  IF f.red = "to_celt" THEN Fade(d, i, "end") ELSE d

RedundancyFade(d, i, f) ==
  CASE f.red = "to_silk" -> Fade(d, i, "start")
    [] f.red = "to_celt" -> Fade(d, i, "end")
    [] OTHER -> d

Redundancy(d, i, f) ==
  [RedundancyFade(d, i, f) EXCEPT
     !.prev_redundancy = f.red = "to_celt",
     !.first_frame_redundancy = IF i = 1 THEN f.red \in {"to_silk", "to_celt"} ELSE @]

(* The two-byte silence frame that lets the MDCT of a hybrid frame fade.   *)
Silence == [ref |-> Other, intra |-> TRUE, id |-> Other]
HybridFadeOut(d, i, prev_mode_frame, f) ==
  IF prev_mode_frame = "hybrid" /\ ~(f.red = "to_silk" /\ d.prev_redundancy)
  THEN RunCelt(d, i, "silence", Silence) ELSE d

SilkLayer(d, p, f) ==
  Resample(RunSilk(SetFs(d, Rate(p.mode, p.bw)), "normal", f.silk),
           Rate(p.mode, p.bw), d.channels = 2)

SilkFrame(d, p, i) ==
  LET f == p.frames[i]
      pm == IF i = 1 THEN d.prev_mode ELSE "silk"
  IN Redundancy(DecodeRedundantCelt(HybridFadeOut(DecodeRedundantCelt(
       RunTransitionPlc(SilkLayer(d, p, f), i, f), i, f, "to_silk"), i, pm, f),
       i, f, "to_celt"), i, f)

(* The CELT layer of a hybrid or CELT frame is reset on a mode change the  *)
(* redundant frame has not prepared.                                       *)
ResetOnSwitch(d, mode) ==
  IF d.prev_mode \notin {"none", mode} /\ ~d.prev_redundancy THEN ResetCelt(d) ELSE d

HybridFrame(d, p, i) ==
  LET f == p.frames[i]
      high(x) == RunCelt(IF i = 1 THEN ResetOnSwitch(x, "hybrid") ELSE x, i, "main", f.celt)
  IN Redundancy(DecodeRedundantCelt(high(DecodeRedundantCelt(
       RunTransitionPlc(SilkLayer(d, p, f), i, f), i, f, "to_silk")), i, f, "to_celt"),
       i, f)

CeltFrame(d, p, i) == [RunCelt(d, i, "main", p.frames[i].celt) EXCEPT !.stale = TRUE]

Frame(d, p, i) ==
  CASE p.mode = "silk" -> SilkFrame(d, p, i)
    [] p.mode = "hybrid" -> HybridFrame(d, p, i)
    [] p.mode = "celt" -> CeltFrame(d, p, i)

(* The arm's head, then its frames.                                        *)
Arm(d, p) ==
  IF p.mode = "celt" THEN [ResetOnSwitch(d, "celt") EXCEPT !.prev_redundancy = FALSE]
  ELSE SwitchChannels(InitResamplers(d, Rate(p.mode, p.bw)), p)

Frames(d, p) ==
  LET upto[i \in 0 .. Len(p.frames)] == IF i = 0 THEN d ELSE Frame(upto[i - 1], p, i)
  IN upto[Len(p.frames)]

(* The cross-fade from the concealed switch, unless redundancy made it.    *)
TransitionFade(d, p) ==
  IF d.transition_pcm /\ ~(p.mode # "celt" /\ d.first_frame_redundancy)
  THEN Fade(d, 1, "transition") ELSE d

Finish(d, p) ==
  [TransitionFade(d, p) EXCEPT
     !.prev_mode = p.mode, !.transition_pending = FALSE, !.transition_pcm = FALSE]

DecodePrimary(d, p) == Finish(Frames(Arm(Prepare(d, p), p), p), p)

----------------------------------------------------------------------------
Init ==
  \E use \in Uses :
    dec = New(use.channels) /\ aux = New(2) /\ fec = IF use.fec THEN NoPacket ELSE NoFec

Clear(d) == [d EXCEPT !.calls = <<>>]

(* A stereo packet in a mono decoder goes to aux, which is created by the  *)
(* first of them; mono packets in a stereo decoder go to the decoder.      *)
Decode(p) ==
  /\ fec \in {NoFec, NoPacket, p}
  /\ fec' = IF fec = NoFec THEN NoFec ELSE NoPacket
  /\ IF dec.channels = 1 /\ p.ch = 2
     THEN /\ aux' \in {DecodePrimary(Clear(aux), p)}
          /\ dec' = [Clear(dec) EXCEPT !.prev_mode = p.mode]
     ELSE dec' \in {DecodePrimary(Clear(dec), p)} /\ aux' = Clear(aux)

(* decode with no packet: decode_plc on the decoder itself.                *)
Lose ==
  /\ fec \in {NoFec, NoPacket}
  /\ dec' \in {Conceal(Clear(dec))}
  /\ aux' = Clear(aux)
  /\ UNCHANGED fec

(* decode_fec(p) for the lost packet before p; p is decoded next.          *)
Fec(p) ==
  /\ fec = NoPacket
  /\ dec' \in {DecodeFec(Clear(dec), p)}
  /\ aux' = Clear(aux)
  /\ fec' = p

(* decode fails for want of room after the seeding test only: nothing but  *)
(* prev_used_aux, which a mono or stereo decoder never acts on, changes.   *)
Next == (\E p \in Packets(dec.channels) : Decode(p) \/ Fec(p)) \/ Lose

Spec == Init /\ [][Next]_vars

----------------------------------------------------------------------------
Rates == {8, 12, 16}
Has(calls, Test(_)) == \E k \in DOMAIN calls : Test(calls[k])
Decoders == {dec, aux}

(* Every field has its type, and between operations nothing of a switch is *)
(* left half done.                                                         *)
DecoderOK(d) ==
  /\ d.prev_mode \in Modes \cup {"none"}
  /\ d.prev_internal_rate \in Rates \cup {0}
  /\ d.n_channels_internal \in {1, 2} /\ d.fs_khz \in Rates
  /\ ~d.transition_pending /\ ~d.transition_pcm
TypeOK ==
  /\ DecoderOK(dec) /\ DecoderOK(aux)
  /\ fec \in Packets(dec.channels) \cup {NoPacket, NoFec}

(* No SILK frame is decoded on a state carried across a run of CELT        *)
(* packets: leaving CELT resets SILK before the first of them.             *)
SilkFreshAfterCelt ==
  \A d \in Decoders : ~Has(d.calls, LAMBDA c : c.op = "silk" /\ c.what = "normal" /\ c.stale)

(* Without decode_fec, and where the channels of the stream do not switch  *)
(* between two decoders, that is so.                                       *)
SilkFreshWithoutFec ==
  /\ TypeOK
  /\ fec = NoFec /\ dec.channels = 2 => SilkFreshAfterCelt

(* A resampler only ever runs at the internal rate it was set up for.  The *)
(* right one matters even while packets are mono: it runs along.  (FEC     *)
(* sets up the left one alone.)                                            *)
ResamplersMatch ==
  fec = NoFec => \A d \in Decoders :
    ~Has(d.calls, LAMBDA c : c.op = "resample" /\ (c.left # c.rate \/ c.right # c.rate))

StartFades(calls) ==
  {k \in DOMAIN calls : calls[k].op = "fade" /\ calls[k].i = 1 /\ calls[k].at # "end"}

(* A packet on the other side of CELT from the last one is faded in once,  *)
(* from concealment or from its own redundant frame, never both; it is not *)
(* faded in again when the last packet ended in a redundant CELT frame.    *)
Smoothed(d, e) ==
  LET decodes == Has(e.calls, LAMBDA c : \/ c.op = "celt" /\ c.what = "main"
                                         \/ c.op = "silk" /\ c.what = "normal")
      enters == d.prev_mode \notin {"none", "celt"} /\ e.prev_mode = "celt"
      leaves == d.prev_mode = "celt" /\ e.prev_mode # "celt"
      faded == StartFades(e.calls)
  IN decodes => /\ \A j, k \in faded : j = k
                /\ leaves => (faded # {} \/ e.first_frame_redundancy)
                /\ enters => (faded = {}) = d.prev_redundancy
SwitchSmoothed == [][Smoothed(dec, dec') /\ Smoothed(aux, aux')]_vars

(* A CELT state kept for a frame reaches that frame untouched: the         *)
(* redundant frame that fades CELT out gets the state the last CELT packet *)
(* left, whatever is concealed or reset in the same packet, and the first  *)
(* CELT packet after a redundant frame gets the state that frame made.     *)
Continues(d, e) ==
  \A k \in DOMAIN e.calls :
    LET c == e.calls[k] IN
    (/\ c.op = "celt" /\ c.i = 1
     /\ \/ c.what = "to_silk" /\ d.prev_mode = "celt"
        \/ c.what = "main" /\ e.prev_mode = "celt" /\ d.prev_redundancy)
    => c.at = d.celt_dec
CeltHandedOver == [][Continues(dec, dec') /\ Continues(aux, aux')]_vars
================================================================================

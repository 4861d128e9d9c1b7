------------------------------ MODULE OpusEncoder ------------------------------
(***************************************************************************)
(* OpusEncoder (src/src/lib.rs): how a mode decision becomes a packet, one *)
(* frame or several.  Modelled are the transition redundancy, the codec    *)
(* resets that mirror the decoder's, and what each coded frame was         *)
(* predicted from; the decision itself (bit rate, analysis) is an input.   *)
(* Packets, frames and tokens are those of OpusDecoder.                    *)
(***************************************************************************)
EXTENDS Integers, Sequences

CONSTANTS
  Inputs,    \* the frames the application may ask for, with the decision
  Fresh, Other

(* An input is [mode, bw, long, ch, empty, fits]: the mode and bandwidth   *)
(* decided; whether it lasts 10 ms or more; channels; for each frame of    *)
(* the packet, whether it is coded as a TOC alone (DTX, a tiny buffer);    *)
(* and whether a redundant frame fits in.                                  *)
VARIABLES enc, packet

vars == <<enc, packet>>

NoPacket == [mode |-> "none"]
Lost == [ref |-> Other, intra |-> FALSE, id |-> Other]

New ==
  [prev_enc_mode |-> "none", celt_enc |-> Fresh, prediction_off |-> FALSE,
   silk_enc |-> Fresh, fs_khz |-> 0]

Rate(mode, bw) ==
  CASE mode = "silk" /\ bw = "NB" -> 8 [] mode = "silk" /\ bw = "MB" -> 12 [] OTHER -> 16

(* The state a frame of the packet numbered n leaves a coder in; i counts  *)
(* frames from the last.                                                   *)
Token(n, part, i) == <<n, part, i>>

(* A switch to CELT stays one more packet in SILK or hybrid, as its        *)
(* bandwidth says, and ends it with redundancy; under 10 ms it is direct.  *)
ToCelt(e, in) ==
  in.long /\ in.mode = "celt" /\ e.prev_enc_mode \notin {"none", "celt"}
CodedMode(e, in) ==
  IF ~ToCelt(e, in) THEN in.mode
  ELSE IF in.bw \in {"SWB", "FB"} THEN "hybrid" ELSE "silk"

----------------------------------------------------------------------------
(* One frame.  c is [mode, bw, to_celt, fits, empty, n, i].                *)
Switched(e, c) == e.prev_enc_mode \notin {"none", c.mode}
FromCelt(e, c) == e.prev_enc_mode = "celt" /\ c.mode # "celt"

(* The redundancy that is coded: of a CELT frame there is none.            *)
Red(e, c) ==
  IF c.mode = "celt" \/ ~c.fits THEN "none"
  ELSE IF c.to_celt THEN "to_celt"
  ELSE IF FromCelt(e, c) THEN "to_silk" ELSE "none"

(* Slip: the renewed CELT encoder keeps predicting. *)
TransitionResetsPredicting(e, c) ==
  LET renew == Switched(e, c) /\ c.mode # "silk"
  IN [e EXCEPT !.celt_enc = IF renew THEN Token(c.n, "prefill", c.i) ELSE @,
               !.prediction_off = FALSE]

(* The CELT encoder is made anew and prefilled, its next frame codes no    *)
(* prediction.  After CELT, SILK only gets new resamplers and a prefilled  *)
(* input buffer: silk_initialized leads to SilkSetup.                      *)
TransitionResets(e, c) ==
  LET renew == Switched(e, c) /\ c.mode # "silk"
  IN [e EXCEPT !.celt_enc = IF renew THEN Token(c.n, "prefill", c.i) ELSE @,
               !.prediction_off = renew]

(* Slip: SILK starts again on every change of mode. *)
SilkSetupOnSwitch(e, c) ==
  LET rate == Rate(c.mode, c.bw)
  IN IF c.mode = "celt" \/ (e.fs_khz = rate /\ ~Switched(e, c)) THEN e
     ELSE [e EXCEPT !.silk_enc = Fresh, !.fs_khz = rate]

(* silk_setup_fs resets the coder's history when the rate changes, and     *)
(* only then.                                                              *)
SilkSetup(e, c) ==
  LET rate == Rate(c.mode, c.bw)
  IN IF c.mode = "celt" \/ e.fs_khz = rate THEN e
     ELSE [e EXCEPT !.silk_enc = Fresh, !.fs_khz = rate]

Coded(ref, intra, id) == [ref |-> ref, intra |-> intra, id |-> id]

SilkPart(e, c) ==
  IF c.mode = "celt" THEN Lost ELSE Coded(e.silk_enc, FALSE, Token(c.n, "silk", c.i))
CeltPart(e, c) ==
  IF c.mode = "silk" THEN Lost
  ELSE Coded(e.celt_enc, e.prediction_off, Token(c.n, "celt", c.i))

(* The redundant frame into SILK goes on from the old CELT encoder; the    *)
(* one into CELT comes from a fresh one.                                   *)
RedundantPart(old, c, red) ==
  CASE red = "to_silk" -> Coded(old.celt_enc, old.prediction_off, Token(c.n, "rc", c.i))
    [] red = "to_celt" -> Coded(Token(c.n, "prefill", c.i), TRUE, Token(c.n, "rc", c.i))
    [] OTHER -> Lost

(* Slip: the mode coded, though the packet hands over to CELT. *)
NextPrevModeCoded(c) == c.mode

NextPrevMode(c) == IF c.to_celt THEN "celt" ELSE c.mode

(* After the frame: a fresh encoder of redundancy becomes the CELT encoder. *)
Advance(e, c, red) ==
  [e EXCEPT !.silk_enc = IF c.mode = "celt" THEN @ ELSE Token(c.n, "silk", c.i),
            !.celt_enc = IF red = "to_celt" THEN Token(c.n, "rc", c.i)
                         ELSE IF c.mode = "silk" THEN @ ELSE Token(c.n, "celt", c.i),
            !.prediction_off = @ /\ red # "to_celt",
            !.prev_enc_mode = NextPrevMode(c)]

EmptyFrame == [red |-> "empty", silk |-> Lost, celt |-> Lost, rc |-> Lost]

(* A TOC-only frame leaves after the resets and codes nothing.             *)
EncodeFrame(s, old, e, c, red) ==
  IF c.empty
  THEN [enc |-> [e EXCEPT !.prev_enc_mode = c.mode], frames |-> Append(s, EmptyFrame)]
  ELSE [enc |-> Advance(SilkSetup(e, c), c, red),
        frames |-> Append(s, [red |-> red, silk |-> SilkPart(SilkSetup(e, c), c),
                              celt |-> CeltPart(e, c),
                              rc |-> RedundantPart(old, c, red)])]

(* encode, or encode_multiframe: the frames of a packet share the decision *)
(* and only the last one asks for the switch.                              *)
EncodePacket(e, in, n) ==
  LET last == Len(in.empty)
      code(i) == [mode |-> CodedMode(e, in), bw |-> in.bw, fits |-> in.fits,
                  to_celt |-> i = last /\ ToCelt(e, in), empty |-> in.empty[i],
                  n |-> n, i |-> last - i]
      step(r, c) == EncodeFrame(r.frames, r.enc, TransitionResets(r.enc, c), c, Red(r.enc, c))
      upto[i \in 0 .. last] ==
        IF i = 0 THEN [enc |-> e, frames |-> <<>>] ELSE step(upto[i - 1], code(i))
  IN upto[last]

----------------------------------------------------------------------------
Init == enc = New /\ packet = NoPacket

(* n numbers the packet among those whose states are still in use.         *)
Encode(in, n) ==
  \E r \in {EncodePacket(enc, in, n)} :
    /\ enc' = r.enc
    /\ packet' = [mode |-> CodedMode(enc, in), bw |-> in.bw, ch |-> in.ch, frames |-> r.frames]
================================================================================

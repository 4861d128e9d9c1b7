----------------------------- MODULE MCOpusDecoder -----------------------------
(* Instance of OpusDecoder: every packet of one or two frames, with every  *)
(* place for a redundant frame, two bandwidths of each mode, and empty     *)
(* payloads.                                                               *)
EXTENDS OpusDecoder

CONSTANTS
  StreamChannels,   \* channels of the packets that arrive
  Recoveries        \* the application calls decode_fec: a subset of BOOLEAN

Coded(id) == [ref |-> Other, intra |-> TRUE, id |-> id]
MCFrame(red) ==
  IF red = "empty" THEN [red |-> red, silk |-> Lost, celt |-> Lost, rc |-> Lost]
  ELSE [red |-> red, silk |-> Coded("silk"), celt |-> Coded("main"), rc |-> Coded("rc")]

MCReds(mode) ==
  IF mode = "celt" THEN {"none", "empty"} ELSE {"none", "to_silk", "to_celt", "empty"}
(* bandwidth_from_toc reads the narrowest CELT configuration as MB.        *)
MCBandwidths(mode) ==
  CASE mode = "silk" -> {"NB", "WB"} [] mode = "hybrid" -> {"FB"} [] OTHER -> {"MB", "FB"}
MCFrames(mode, n) == [1 .. n -> {MCFrame(r) : r \in MCReds(mode)}]

MCPacketsOf(n, narrow) ==
  UNION {[mode : {m}, bw : MCBandwidths(m) \ narrow, ch : StreamChannels, frames : MCFrames(m, n)] :
           m \in Modes}

(* A stereo decoder gets packets of one frame, and of two in the wider     *)
(* bandwidth, a mono decoder, with its second one for stereo packets, of   *)
(* one.                                                                    *)
MCOneFrame == MCPacketsOf(1, {})
MCTwoFrames == MCOneFrame \cup MCPacketsOf(2, {"NB", "MB"})
MCPackets(channels) == IF channels = 2 THEN MCTwoFrames ELSE MCOneFrame

MCUses == [channels : {2}, fec : Recoveries] \cup [channels : {1}, fec : {FALSE}]
================================================================================

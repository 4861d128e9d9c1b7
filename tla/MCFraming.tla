------------------------------- MODULE MCFraming -------------------------------
(***************************************************************************)
(* The two users of packet framing for TLC: a behaviour is a repacketizer  *)
(* in one of its environments, or a multistream encoder and decoder.       *)
(***************************************************************************)
EXTENDS MCRepacketizer, Multistream

(* Multistream packets of one to three frames, empty ones and both sides   *)
(* of the two-byte size included.                                          *)
MCPayloads == {<<0>>, <<3>>, <<252>>, <<3, 3>>, <<252, 3>>, <<251, 0, 3>>}
MCToc == 72      \* SILK wideband, 20 ms, mono

RepacketizerIdle ==
  /\ setting = "none" /\ toc = 0 /\ framesize = 0 /\ frames = <<>>
  /\ packet = NoPacket /\ sent = <<>> /\ form = "none"

MultistreamIdle ==
  /\ layout = [nb_streams |-> 0] /\ call = "idle" /\ coded = <<>> /\ gathered = <<>> /\ out = <<>>
  /\ pos = 0 /\ played = <<>> /\ output = <<>>

FramingInit ==
  \/ Init /\ MultistreamIdle
  \/ MSInit /\ RepacketizerIdle

FramingNext ==
  \/ setting # "none" /\ Next /\ UNCHANGED ms_vars
  \/ call # "idle" /\ MSNext /\ UNCHANGED vars

FramingSpec == FramingInit /\ [][FramingNext]_<<vars, ms_vars>>
================================================================================

-------------------------------- MODULE MCCodec --------------------------------
(***************************************************************************)
(* The decoder for TLC, in two surroundings: alone, fed any packets of one *)
(* or two frames (MCOpusDecoder), or at the end of a link whose other end  *)
(* is the encoder (OpusLink).                                              *)
(***************************************************************************)
EXTENDS MCOpusDecoder, OpusLink

CONSTANTS
  Fits,      \* whether redundancy may fit, or not: a subset of BOOLEAN
  Empties    \* whether frames may be TOC-only

(* Every mode, long and short CELT frames, two SILK bandwidths.            *)
Decisions ==
  {<<"silk", "NB", TRUE>>, <<"silk", "WB", TRUE>>, <<"hybrid", "FB", TRUE>>,
   <<"celt", "WB", TRUE>>, <<"celt", "FB", TRUE>>, <<"celt", "FB", FALSE>>}

(* Packets of one frame, coded or not, and of two coded frames.            *)
EmptySeqs(long) == {<<e>> : e \in Empties} \cup IF long THEN {<<FALSE, FALSE>>} ELSE {}

MCInputs ==
  UNION {{[mode |-> t[1], bw |-> t[2], long |-> t[3], ch |-> 1, empty |-> s, fits |-> f] :
           s \in EmptySeqs(t[3]), f \in Fits} : t \in Decisions}

(* The inputs here are of the kind the proofs about the link are for.      *)
ASSUME LinkAssumption == Fits = {TRUE} => InputsFit

Unlinked == [prev_enc_mode |-> "unlinked"]
NoLink == enc = Unlinked /\ packet = Enc!NoPacket /\ lossy = TRUE

CodecInit ==
  \/ Init /\ NoLink
  \/ LinkInit

CodecNext ==
  \/ enc = Unlinked /\ Next /\ UNCHANGED <<enc, packet, lossy>>
  \/ enc # Unlinked /\ LinkNext

CodecSpec == CodecInit /\ [][CodecNext]_<<vars, link_vars>>
================================================================================

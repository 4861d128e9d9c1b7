----------------------------- MODULE MCFrameCoding -----------------------------
(* The three coders of a frame, each in behaviours of its own: packets of   *)
(* the range coder, clips of CELT frames, talks of SILK packets.  The two   *)
(* that are not played stay as they are created, their actions off (turn    *)
(* and silk_turn are "idle").                                               *)
EXTENDS MCRangeCoder, MCCeltFrame, MCSilkFrame

CodingVars == <<vars, cvars, silk_vars>>

NoClipPlayed ==
    /\ tape = NoFrame /\ spool = 0 /\ turn = "idle"
    /\ encst = NewCeltEncoder /\ decst = NewCeltDecoder
    /\ rcod = NoCoder /\ work = NoFrame /\ pairing = <<>>

NoPacketCoded ==
    /\ enc = EncInit(0, 0) /\ log = <<>> /\ trial = None /\ kept = None /\ puts = 0 /\ shrinks = 0
    /\ packet = <<>> /\ end = [form |-> "open", told |-> 0, buried |-> FALSE]
    /\ dec = NewDecoder(<<>>) /\ got = <<>>

NoTalkHeard ==
    /\ silk_talk = <<>> /\ silk_at = [packet |-> 1, frame |-> 0] /\ silk_turn = "idle"
    /\ silk_enc = NewSilkEncoder /\ silk_dec = NewSilkDecoder
    /\ silk_rc = NoRc /\ silk_loop = <<>> /\ silk_heard = <<>> /\ silk_mail = NoMail

CodingInit ==
    \/ Init /\ NoClipPlayed /\ NoTalkHeard
    \/ CeltFrameInit /\ NoPacketCoded /\ NoTalkHeard
    \/ SilkFrameInit /\ NoPacketCoded /\ NoClipPlayed

CodingNext ==
    \/ turn = "idle" /\ silk_turn = "idle" /\ Next /\ UNCHANGED <<cvars, silk_vars>>
    \/ turn # "idle" /\ CeltFrameNext /\ UNCHANGED <<vars, silk_vars>>
    \/ silk_turn # "idle" /\ SilkFrameNext /\ UNCHANGED <<vars, cvars>>

CodingSpec == CodingInit /\ [][CodingNext]_CodingVars
=============================================================================

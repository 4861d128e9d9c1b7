------------------------------ MODULE OpusControl ------------------------------
(***************************************************************************)
(* How OpusEncoder::encode decides what to code: the mode, the bandwidth,  *)
(* the division of a long packet into frames, and whether a frame is left  *)
(* out by discontinuous transmission (lib.rs).  The rate arithmetic, the   *)
(* thresholds and their hysteresis are those of the code; the samples are  *)
(* reduced to what the analysis says of them.  OpusEncoder.tla models what *)
(* the codecs do with a decision.                                          *)
(* Durations are in half milliseconds, bandwidths are numbered 1 to 5.     *)
(***************************************************************************)
EXTENDS Integers, Sequences, FiniteSetsExt

CONSTANTS
  Kinds,       \* what an encoder is made for: [fs, channels, app]
  Calls(_),    \* calls of a stream: [set, half, quietFrom, sound, room, repeat]
  Warmup       \* analysis_warmup: analysed frames before the verdict counts

(* A request is for one of the frame sizes, by an application whose        *)
(* settings the setters accept.                                            *)
ASSUME KindsAssumption ==
  \A st \in Kinds : st.channels \in {1, 2} /\ st.fs \in {8000, 12000, 16000, 24000, 48000}
ASSUME CallsAssumption ==
  \A st \in Kinds : \A c \in Calls(st) :
    /\ c.half \in {5, 10, 20, 40, 80, 120, 160, 200, 240}
    /\ c.quietFrom \in Nat \ {0}
    /\ c.sound.bw \in 0 .. 5
    /\ c.set.bitrate \in Int /\ c.set.maxBw \in 1 .. 5 /\ c.set.forceBw \in 0 .. 5
    /\ c.set.dtx \in BOOLEAN

VARIABLES
  stream,      \* the stream of this encoder, chosen once
  enc,         \* the encoder's decision state
  call,        \* the call the application repeats from now on, or NoCall
  packet,      \* the frames of its packet
  gap,         \* duration since the last coded frame ended (history)
  quiet        \* duration of the inactive frames up to now (history)

control_vars == <<stream, enc, call, packet, gap, quiet>>

NB == 1
MB == 2
WB == 3
SWB == 4
FB == 5

Rate(half) == 2000 \div half
Quot(a, b) == IF a < 0 THEN -((-a) \div b) ELSE a \div b
Least(a, b) == IF a < b THEN a ELSE b
Most(a, b) == IF a < b THEN b ELSE a

--------------------------------------------------------------------------------
(* Rates, thresholds and the bandwidth walk.                               *)

EquivRate(s, channels, rate) ==
  LET short == s.bitrate - (40 * channels + 20) * Most(rate - 50, 0)
      paced == IF s.cbr THEN short - Quot(short, 12) ELSE short
      equiv == Quot(paced * (90 + s.complexity), 100)
  IN  equiv - Quot(equiv * s.loss, 12 * s.loss + 20)

VoiceEst(st, s, voice) ==
  CASE s.signal = "voice" -> 127
    [] s.signal = "music" -> 0
    [] s.signal = "auto" /\ voice >= 0 ->
         Least((voice * 327) \div 256, IF st.app = "audio" THEN 115 ELSE 127)
    [] OTHER -> [voip |-> 115, audio |-> 48, lowdelay |-> 0][st.app]

(* The user's value for music, moved towards the one for voice.            *)
Blend(music, voice, v) == music + (v * v * (voice - music)) \div 16384

ModeThreshold(st, prev, v) ==
  IF st.app = "lowdelay" THEN 0
  ELSE Blend(10000, IF st.channels = 1 THEN 64000 ELSE 44000, v)
       + (IF st.app = "voip" THEN 8000 ELSE 0)
       + (CASE prev = "none" -> 0 [] prev = "celt" -> -4000 [] OTHER -> 4000)

SelectMode(st, prev, v, equiv, rate) ==
  IF \/ st.app = "lowdelay"
     \/ rate > 100
     \/ st.fs >= 24000 /\ equiv >= ModeThreshold(st, prev, v)
  THEN "celt" ELSE "silk"

VoiceThreshold == <<0, 9000, 9000, 13500, 14000>>
MusicThreshold == <<0, 9000, 9000, 11000, 12000>>
Hysteresis == <<0, 700, 700, 1000, 2000>>

Affords(e, v, equiv, bw) ==
  LET threshold == Blend(MusicThreshold[bw], VoiceThreshold[bw], v)
      margin == CASE e.first -> 0
                  [] ~e.first /\ e.auto >= bw -> -Hysteresis[bw]
                  [] OTHER -> Hysteresis[bw]
  IN  equiv >= threshold + margin

WalkDown(e, v, equiv) ==
  LET bw == Max({NB} \cup {b \in MB .. FB : Affords(e, v, equiv, b)})
  IN  IF bw = MB THEN WB ELSE bw

NyquistCap(fs) ==
  CASE fs <= 8000 -> NB [] fs = 12000 -> MB [] fs = 16000 -> WB
    [] fs = 24000 -> SWB [] OTHER -> FB

DetectedCap(st, s, mode, det, equiv) ==
  IF det = 0 \/ s.forceBw # 0 \/ mode = "celt" THEN FB
  ELSE Most(det, CASE equiv <= 30000 * st.channels -> WB
                   [] equiv > 44000 * st.channels -> FB
                   [] OTHER -> SWB)

(* Slip: the user's bandwidth is applied after every cap. *)
BandwidthForcedLast(st, s, mode, det, equiv, auto) ==
  IF s.forceBw # 0 THEN s.forceBw
  ELSE Min({auto, s.maxBw, NyquistCap(st.fs), DetectedCap(st, s, mode, det, equiv)})

Bandwidth(st, s, mode, det, equiv, auto) ==
  LET asked == IF s.forceBw # 0 THEN s.forceBw ELSE Least(auto, s.maxBw)
      safe == IF mode # "celt" /\ s.cbr /\ s.bitrate < 15000 THEN WB ELSE FB
      bw == Min({asked, safe, NyquistCap(st.fs), DetectedCap(st, s, mode, det, equiv)})
  IN  IF mode = "celt" /\ bw = MB THEN WB ELSE bw

(* Slip: SILK keeps a bandwidth it cannot signal. *)
ReconcileNothing(st, s, mode, bw) == [mode |-> mode, bw |-> bw]

(* SILK above wideband is hybrid, and stereo hybrid above 28 kb/s is coded *)
(* as fullband CELT.                                                       *)
Reconcile(st, s, mode, bw) ==
  CASE mode = "silk" /\ bw >= SWB /\ st.channels = 2 /\ s.bitrate > 28000 ->
         [mode |-> "celt", bw |-> FB]
    [] mode = "silk" /\ bw >= SWB /\ (st.channels = 1 \/ s.bitrate <= 28000) ->
         [mode |-> "hybrid", bw |-> bw]
    [] OTHER -> [mode |-> mode, bw |-> bw]

--------------------------------------------------------------------------------
(* One frame.  x: [half, silent, sound, room, lock, handOver]; lock is the *)
(* packet's decision, for a frame of a multi-frame packet, or None.        *)

None == [mode |-> "none", bw |-> 0]

Analysed(st, s, x) ==
  x.lock = None /\ s.complexity >= 7 /\ st.fs >= 16000 /\ x.sound.valid

(* Slip: the two sides of the classifier's hysteresis are swapped. *)
HearSwapped(e, x, analysed) ==
  LET frames == IF analysed THEN Least(e.frames + 1, Warmup) ELSE e.frames
      trusted == analysed /\ frames >= Warmup
      music == CASE e.prev = "none" -> x.sound.music
                 [] e.prev = "celt" -> x.sound.musicMin
                 [] OTHER -> x.sound.musicMax
  IN  [enc |-> [e EXCEPT !.frames = frames, !.voice = IF trusted THEN 100 - music ELSE -1],
       det |-> IF trusted THEN x.sound.bw ELSE 0]

(* The analysis' part: voice_ratio, analysis_frames, detected_bandwidth.   *)
Hear(e, x, analysed) ==
  LET frames == IF analysed THEN Least(e.frames + 1, Warmup) ELSE e.frames
      trusted == analysed /\ frames >= Warmup
      music == CASE e.prev = "none" -> x.sound.music
                 [] e.prev = "celt" -> x.sound.musicMax
                 [] OTHER -> x.sound.musicMin
      voice == CASE trusted -> 100 - music
                 [] ~trusted /\ x.silent -> e.voice
                 [] OTHER -> -1
  IN  [enc |-> [e EXCEPT !.frames = frames, !.voice = voice],
       det |-> IF trusted THEN x.sound.bw ELSE 0]

(* The mode and bandwidth asked for, and the walk's new state.             *)
Walked(st, s, e, det, mode, v, equiv) ==
  LET auto == WalkDown(e, v, equiv)
      pick == Reconcile(st, s, mode, Bandwidth(st, s, mode, det, equiv, auto))
  IN  [enc |-> [e EXCEPT !.auto = auto, !.first = FALSE],
       mode |-> pick.mode, bw |-> pick.bw]

Select(st, s, e, det, rate, v, equiv) ==
  Walked(st, s, e, det, SelectMode(st, e.prev, v, equiv, rate), v, equiv)

(* A switch to CELT is put off by one packet, which hands over.            *)
HandOver(d, x) ==
  IF x.lock # None
  THEN [enc |-> d.enc, mode |-> x.lock.mode, bw |-> x.lock.bw, toCelt |-> x.handOver]
  ELSE IF d.mode = "celt" /\ d.enc.prev \in {"silk", "hybrid"} /\ x.half >= 20
  THEN [enc |-> d.enc, mode |-> IF d.bw >= SWB THEN "hybrid" ELSE "silk",
        bw |-> d.bw, toCelt |-> TRUE]
  ELSE [enc |-> d.enc, mode |-> d.mode, bw |-> d.bw, toCelt |-> FALSE]

Heard(st, s, x, h) ==
  HandOver(Select(st, s, h.enc, h.det, Rate(x.half), VoiceEst(st, s, h.enc.voice),
                  EquivRate(s, st.channels, Rate(x.half))), x)

Decide(st, s, e, x) == Heard(st, s, x, Hear(e, x, Analysed(st, s, x)))

--------------------------------------------------------------------------------
(* The TOC configuration written, and read back by the decoder.            *)

(* The doublings of the frame rate that reach 400.                         *)
Doubled == <<1, 2, 4, 8, 16, 32, 64>>
Period(rate) ==
  CHOOSE p \in 0 .. 6 : rate * Doubled[p + 1] >= 400 /\ (p > 0 => rate * Doubled[p] < 400)

GenToc(mode, rate, bw) ==
  CASE mode = "silk" -> ((bw - NB) * 4 + (Period(rate) - 2)) % 32
    [] mode = "celt" -> 16 + ((Most(bw - MB, 0) * 4 + Period(rate)) % 16)
    [] mode = "hybrid" -> (IF bw = SWB THEN 12 ELSE 14) + (IF rate < 100 THEN 1 ELSE 0)

ModeFromToc(toc) == CASE toc >= 16 -> "celt" [] toc \in 12 .. 15 -> "hybrid" [] OTHER -> "silk"

BandwidthFromToc(toc) ==
  CASE ModeFromToc(toc) = "silk" -> NB + toc \div 4
    [] ModeFromToc(toc) = "hybrid" -> IF toc < 14 THEN SWB ELSE FB
    [] ModeFromToc(toc) = "celt" -> MB + (toc - 16) \div 4

HalfFromToc(toc) ==
  CASE ModeFromToc(toc) = "silk" -> <<20, 40, 80, 120>>[(toc % 4) + 1]
    [] ModeFromToc(toc) = "hybrid" -> <<20, 40>>[(toc % 2) + 1]
    [] ModeFromToc(toc) = "celt" -> <<5, 10, 20, 40>>[(toc % 4) + 1]

--------------------------------------------------------------------------------
(* Coding a frame, or leaving it out.                                      *)

Sizes == [silk |-> {20, 40, 80, 120}, hybrid |-> {20, 40}, celt |-> {5, 10, 20, 40}]

Hangover == 400        \* NB_SPEECH_FRAMES_BEFORE_DTX, in half ms
Refresh == 1200        \* and MAX_CONSECUTIVE_DTX more
QuietCap == 401        \* bound on the history variable quiet

Active(x, analysed) == ~x.silent /\ (analysed => x.sound.active)

(* Slip: activity does not end the count of inactive frames. *)
IdleKept(s, e, x, analysed) ==
  LET idle == e.idle + (IF Active(x, analysed) THEN 0 ELSE x.half)
  IN  IF ~s.dtx THEN 0 ELSE IF idle > Refresh THEN Hangover ELSE idle

(* nb_no_activity_ms_q1 after the frame.                                   *)
Idle(s, e, x, analysed) ==
  LET idle == e.idle + x.half
  IN  IF Active(x, analysed) \/ ~s.dtx THEN 0
      ELSE IF idle > Refresh THEN Hangover ELSE idle

LeftOut(s, e, x, analysed) ==
  s.dtx /\ ~Active(x, analysed) /\ e.idle + x.half \in Hangover + 1 .. Refresh

Kind(s, d, x, analysed) ==
  CASE x.half \notin Sizes[d.mode] -> "refused"
    [] x.half \in Sizes[d.mode] /\ ~x.room -> "tiny"
    [] x.half \in Sizes[d.mode] /\ x.room /\ LeftOut(s, d.enc, x, analysed) -> "dtx"
    [] OTHER -> "coded"

NextEnc(s, d, x, analysed, kind) ==
  CASE kind = "refused" -> d.enc
    [] kind = "tiny" -> [d.enc EXCEPT !.prev = d.mode]
    [] kind = "dtx" -> [d.enc EXCEPT !.prev = d.mode, !.idle = Idle(s, d.enc, x, analysed)]
    [] kind = "coded" ->
         [d.enc EXCEPT !.prev = IF d.toCelt THEN "celt" ELSE d.mode,
                       !.idle = Idle(s, d.enc, x, analysed)]

(* r: the encoder so far, its frames, and the two histories.               *)
Coded(s, r, d, x, analysed, kind) ==
  [enc |-> NextEnc(s, d, x, analysed, kind),
   frames |-> Append(r.frames, [mode |-> d.mode, bw |-> d.bw, half |-> x.half, kind |-> kind,
                                toc |-> GenToc(d.mode, Rate(x.half), d.bw)]),
   gap |-> CASE kind = "coded" -> 0 [] kind = "dtx" -> r.gap + x.half [] OTHER -> r.gap,
   quiet |-> CASE kind \in {"refused", "tiny"} -> r.quiet
               [] kind \in {"coded", "dtx"} /\ Active(x, analysed) -> 0
               [] OTHER -> Least(r.quiet + x.half, QuietCap)]

CodeFrame(st, s, r, d, x) == Coded(s, r, d, x, Analysed(st, s, x), Kind(s, d, x, Analysed(st, s, x)))

SubHalf(mode, half) ==
  CASE mode = "silk" /\ half = 160 -> 80
    [] mode = "silk" /\ half = 240 -> 120
    [] OTHER -> 40

(* Frame i of n of a packet decided as d; an error ends the packet.        *)
SubFrame(st, c, r, d, i, n) ==
  LET x == [half |-> SubHalf(d.mode, c.half), silent |-> i >= c.quietFrom, sound |-> c.sound,
            room |-> c.room, lock |-> [mode |-> d.mode, bw |-> d.bw],
            handOver |-> d.toCelt /\ i = n]
  IN  IF \E k \in DOMAIN r.frames : r.frames[k].kind = "refused" THEN r
      ELSE CodeFrame(st, c.set, r, Decide(st, c.set, r.enc, x), x)

EncodeMultiframe(st, c, r, d) ==
  LET n == c.half \div SubHalf(d.mode, c.half)
      upTo[i \in 0 .. n] == IF i = 0 THEN r
                          ELSE CHOOSE q \in {SubFrame(st, c, p, d, i, n) : p \in {upTo[i - 1]}} : TRUE
  IN  upTo[n]

Decided(st, c, r, d, x) ==
  IF (c.half > 40 /\ d.mode # "silk") \/ c.half > 120
  THEN EncodeMultiframe(st, c, [r EXCEPT !.enc = d.enc], d)
  ELSE CodeFrame(st, c.set, r, d, x)

Called(st, c, r, x) == Decided(st, c, r, Decide(st, c.set, r.enc, x), x)

Serve(st, c, r) ==
  Called(st, c, r, [half |-> c.half, silent |-> c.quietFrom = 1, sound |-> c.sound,
                    room |-> c.room, lock |-> None, handOver |-> FALSE])

--------------------------------------------------------------------------------
NoCall == [half |-> 0]

ControlInit ==
  /\ stream \in Kinds
  /\ enc = [prev |-> "none", auto |-> 0, first |-> TRUE, voice |-> -1, frames |-> 0, idle |-> 0]
  /\ call = NoCall
  /\ packet = [half |-> 0, bitrate |-> 0, frames |-> <<>>, limit |-> FB]
  /\ gap = 0
  /\ quiet = 0

(* A call of encode.  A call with repeat is the only one from then on: the *)
(* settings stay, and the signal is steady.                                *)
EncodeCall ==
  \E c \in (IF call = NoCall THEN Calls(stream) ELSE {call}) :
  \E r \in {Serve(stream, c, [enc |-> enc, frames |-> <<>>, gap |-> gap, quiet |-> quiet])} :
    /\ enc' = r.enc
    /\ packet' = [half |-> c.half, bitrate |-> c.set.bitrate, frames |-> r.frames,
                  limit |-> IF c.set.forceBw # 0 THEN c.set.forceBw ELSE c.set.maxBw]
    /\ gap' = r.gap
    /\ quiet' = r.quiet
    /\ call' = IF c.repeat THEN c ELSE NoCall
    /\ UNCHANGED stream

ControlNext == EncodeCall

ControlSpec == ControlInit /\ [][ControlNext]_control_vars

--------------------------------------------------------------------------------
(* What the TOC says is what was coded: the decoder reads back the mode,   *)
(* the duration and, up to the narrowest CELT configuration, the bandwidth *)
(* of every frame, and all frames of a packet share one configuration.     *)
Signalled ==
  \A k \in DOMAIN packet.frames : LET f == packet.frames[k] IN
    /\ ModeFromToc(f.toc) = f.mode
    /\ HalfFromToc(f.toc) = f.half
    /\ BandwidthFromToc(f.toc) = IF f.mode = "celt" THEN Most(f.bw, MB) ELSE f.bw
    /\ f.toc = packet.frames[1].toc

(* Every legal duration is coded in full, whatever was decided before: the *)
(* frames of the packet add up to the duration asked for, none is refused  *)
(* and the packet has no more than six.                                    *)
WholeRequest ==
  /\ Len(packet.frames) <= 6
  /\ \A k \in DOMAIN packet.frames : packet.frames[k].kind # "refused"
  /\ packet.frames # <<>> => packet.half = Len(packet.frames) * packet.frames[1].half

(* A request is coded whole, under a TOC that says how. *)
RequestCoded == Signalled /\ WholeRequest

(* While nothing is said, a frame is coded at least every 400 ms, counted  *)
(* to the frame that crosses them, for the decoder's comfort noise.        *)
RefreshInTime ==
  gap < 800 + Max({120} \cup {packet.frames[k].half : k \in DOMAIN packet.frames})

(* A frame is left out only after more than 200 ms of frames without       *)
(* activity, across frame sizes and packets of several frames.             *)
HangoverKept ==
  \A k \in DOMAIN packet.frames : packet.frames[k].kind = "dtx" => quiet = QuietCap

(* Pauses start no sooner and last no longer than the decoder expects.     *)
PausesBounded == RefreshInTime /\ HangoverKept

(* Hysteresis settles: under one setting and a steady signal, the mode and *)
(* the bandwidth coded stop changing, though each choice depends on the    *)
(* one before, through the thresholds and through the hand-over packets.   *)
Choice == IF packet.frames = <<>> THEN None
          ELSE [mode |-> packet.frames[1].mode, bw |-> packet.frames[1].bw]
Settles == <>[](call # NoCall) => <>[][Choice' = Choice]_control_vars

(* However modes, hand-overs and packets of several frames override one    *)
(* another, no frame is coded wider than the input's Nyquist frequency or  *)
(* the application's limit, with the exceptions the code states: CELT has  *)
(* no mediumband, and stereo hybrid above 28 kb/s becomes fullband CELT.   *)
CapsKept ==
  LET cap == Least(NyquistCap(stream.fs), packet.limit)
  IN  \A k \in DOMAIN packet.frames :
        \/ packet.frames[k].bw <= IF cap = MB THEN WB ELSE cap
        \/ stream.channels = 2 /\ packet.bitrate > 28000 /\ packet.frames[k].bw = FB
================================================================================

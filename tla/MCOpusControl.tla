----------------------------- MODULE MCOpusControl -----------------------------
(* Instance of OpusControl.  Every stream gets the durations 2.5 to 120 ms *)
(* at bit rates on both sides of the thresholds that matter to it, with    *)
(* signals on both sides of the classifier's hysteresis.                   *)
EXTENDS OpusControl

CONSTANTS
  Fs, Layouts, Apps,     \* sampling rates, channel counts, applications
  Bitrates,              \* on both sides of the thresholds
  Halves                 \* durations, in half milliseconds

MCKinds == [fs : Fs, channels : Layouts, app : Apps]

Setting(bitrate, dtx) ==
  [bitrate |-> bitrate, cbr |-> FALSE, complexity |-> 9, loss |-> 0, signal |-> "auto",
   dtx |-> dtx, maxBw |-> FB, forceBw |-> 0]

(* What the analysis may say: nothing, speech, music, and between them a   *)
(* signal whose two hysteresis probabilities differ.                       *)
Unsure == [valid |-> FALSE, music |-> 0, musicMin |-> 0, musicMax |-> 0, bw |-> 0, active |-> TRUE]
Quietly == {Unsure, [Unsure EXCEPT !.valid = TRUE, !.bw = WB, !.active = FALSE]}
Sounds ==
  Quietly \cup
  {[Unsure EXCEPT !.valid = TRUE, !.music = 50, !.musicMin = 30, !.musicMax = 90, !.bw = SWB],
   [Unsure EXCEPT !.valid = TRUE, !.music = 99, !.musicMin = 95, !.musicMax = 99, !.bw = FB]}

(* Settings the application changes between on one stream.                 *)
Settings(st) ==
  {Setting(b, FALSE) : b \in Bitrates}
  \cup {[Setting(12000, FALSE) EXCEPT !.cbr = TRUE, !.complexity = 5, !.loss = 20],
        [Setting(32000, FALSE) EXCEPT !.forceBw = MB],
        [Setting(24000, FALSE) EXCEPT !.forceBw = FB],
        [Setting(32000, FALSE) EXCEPT !.maxBw = SWB, !.signal = "voice"]}

(* Every duration with every sound; a small buffer, for one frame and for  *)
(* several; and one call of each setting and signal to be repeated.        *)
Talk(st) ==
  [set : Settings(st), half : Halves, quietFrom : {9}, sound : Sounds, room : {TRUE}, repeat : {FALSE}]
  \cup [set : {Setting(24000, FALSE)}, half : {40, 240}, quietFrom : {9}, sound : {Unsure},
        room : {FALSE}, repeat : {FALSE}]
  \cup [set : Settings(st), half : {40, 80}, quietFrom : {9}, sound : Sounds, room : {TRUE},
        repeat : {TRUE}]

(* Transmission with gaps: packets that are silent, end in silence, or are *)
(* heard.                                                                  *)
Pauses(halves) ==
  [set : {Setting(b, TRUE) : b \in Bitrates}, half : halves, quietFrom : {1, 2, 9},
   sound : Quietly, room : {TRUE}, repeat : {FALSE}]
  \cup [set : {Setting(24000, TRUE)}, half : halves, quietFrom : {1}, sound : {Unsure},
        room : {TRUE}, repeat : {TRUE}]

MCCalls(st) ==
  CASE st.app = "voip" -> Pauses(IF st.fs = 48000 THEN {40, 80} ELSE {40, 120, 160})
    [] st.app = "audio" -> Talk(st)
================================================================================

------------------------------ MODULE AnalysisRing ------------------------------
(***************************************************************************)
(* The encoder's tonality analysis (src/src/analysis.rs) as the encoder    *)
(* drives it (src/src/lib.rs:971-990, 862-910): a frame is cut into calls  *)
(* of at most 20 ms, windows of 30 ms that overlap by 10 are analysed as   *)
(* they fill up and land in a ring of DETECT_SIZE results, and each frame  *)
(* reads its verdict out of the ring.  What a window sounds like is opaque:*)
(* a result is the window it judges.                                       *)
(*                                                                         *)
(* Time is counted in 2.5 ms, 60 samples at the analysis rate of 24 kHz:   *)
(* every frame length and buffer level is a multiple of it.                *)
(***************************************************************************)
EXTENDS Integers

CONSTANTS
  Durations,   \* the frame lengths in use
  Sounds,      \* what the windows may sound like, a period of it
  Horizon      \* bound: how long the analysis runs without a reset

ANALYSIS_BUF_SIZE == 12
Overlap_len       == 4
Hop               == ANALYSIS_BUF_SIZE - Overlap_len
DETECT_SIZE       == 100
Slots             == 0 .. DETECT_SIZE - 1

Legal == {1, 2, 4, 8, 16, 24, 32, 40, 48}     \* 2.5 to 120 ms
ASSUME DurationsAssumption == Durations \subseteq Legal
ASSUME SoundsAssumption ==
  /\ Horizon \in Nat
  /\ \A s \in Sounds : s \in [0 .. 6 -> {"sound", "silent", "nan"}]

VARIABLES
  sounds,          \* what is heard: the windows' sounds repeat every seven
  initialized, mem_fill, write_pos, read_pos, read_subframe, info,
  in_hand,         \* the length of the frame being analysed, 0 between calls
  pcm_len,         \* how much of it is still to be analysed
  sub_frames,      \* sub-frames of a packet still to be encoded
  elapsed,         \* history: how much was analysed since the last reset
  reading          \* history: what the last frame's verdict was made of

ring_vars == <<sounds, initialized, mem_fill, write_pos, read_pos, read_subframe, info,
               in_hand, pcm_len, sub_frames, elapsed, reading>>

Unheard   == [valid |-> FALSE, window |-> -1]
NoReading == [pos |-> -1, valid |-> FALSE, ahead |-> 0, behind |-> 0, music |-> 0, begin |-> 0]

RingInit ==
  /\ sounds \in Sounds
  /\ initialized = FALSE
  /\ mem_fill = 0 /\ write_pos = 0 /\ read_pos = 0 /\ read_subframe = 0
  /\ info = [p \in Slots |-> Unheard]
  /\ in_hand = 0 /\ pcm_len = 0 /\ sub_frames = 0
  /\ elapsed = 0 /\ reading = NoReading

(***************************************************************************)
(* tonality_analysis on the next 20 ms of the frame, or what is left of it *)
(***************************************************************************)
NextSlot(p) == (p + 1) % DETECT_SIZE
PrevSlot(p) == (p + DETECT_SIZE - 1) % DETECT_SIZE

SoundIn(w) == sounds[w % 7]

(* Silence repeats the last result; a NaN leaves one that is not valid.    *)
Judged(w, p) ==
  CASE SoundIn(w) = "silent" -> info[PrevSlot(p)]
    [] SoundIn(w) = "nan"    -> [info[p] EXCEPT !.valid = FALSE]
    [] OTHER              -> [valid |-> TRUE, window |-> w]

Full(fill, len) == fill + len >= ANALYSIS_BUF_SIZE

(* What is left of the call starts the next window, after the overlap.     *)
Refill(fill, len) == Overlap_len + (len - (ANALYSIS_BUF_SIZE - fill))

LesserLen(a, b) == IF a < b THEN a ELSE b

TonalityAnalysis ==
  LET len  == LesserLen(Hop, pcm_len)
      fill == IF initialized THEN mem_fill ELSE Overlap_len
  IN /\ pcm_len > 0
     /\ pcm_len' = pcm_len - len
     /\ initialized' = TRUE
     /\ elapsed' = elapsed + len
     /\ IF Full(fill, len)
        THEN /\ mem_fill' = Refill(fill, len)
             /\ write_pos' = NextSlot(write_pos)
             /\ info' = [info EXCEPT ![write_pos] = Judged(elapsed \div Hop, write_pos)]
        ELSE /\ mem_fill' = fill + len
             /\ UNCHANGED <<write_pos, info>>
     /\ UNCHANGED <<sounds, read_pos, read_subframe, in_hand, sub_frames, reading>>

(***************************************************************************)
(* tonality_get_info for a frame of len.                                   *)
(***************************************************************************)
(* Slip: it moves a window short when a window just ends. *)
AdvanceLate(len) ==
  LET sum == read_subframe + len
  IN /\ read_subframe' = IF sum % Hop = 0 THEN Hop ELSE sum % Hop
     /\ read_pos' = (read_pos + (IF sum % Hop = 0 THEN (sum \div Hop) - 1 ELSE sum \div Hop)) % DETECT_SIZE

(* The reader moves on by whole windows.                                   *)
Advance(len) ==
  LET sum == read_subframe + len
  IN /\ read_subframe' = sum % Hop
     /\ read_pos' = (read_pos + sum \div Hop) % DETECT_SIZE

(* A frame of more than 20 ms is judged by its second window; a window     *)
(* that is not there yet, by the one before.                               *)
Judge(len) ==
  LET p == IF len > Hop /\ read_pos # write_pos THEN NextSlot(read_pos) ELSE read_pos
  IN IF p = write_pos THEN PrevSlot(p) ELSE p

(* From p: how many results follow up to the writer, and how many of these *)
(* and of the older ones the bandwidth, and the music verdict, are made of.*)
(* A result that is not valid is handed on alone.                          *)
Newer(p) == (write_pos - NextSlot(p)) % DETECT_SIZE

Read(p, begin) ==
  LET ahead == LesserLen(3, Newer(p))
  IN IF info[p].valid
     THEN [pos |-> p, valid |-> TRUE, ahead |-> ahead,
           behind |-> LesserLen(6 - ahead, DETECT_SIZE - 1 - Newer(p)), music |-> Newer(p), begin |-> begin]
     ELSE [pos |-> p, valid |-> FALSE, ahead |-> 0, behind |-> 0, music |-> 0, begin |-> begin]

(* How many sub-frames encode_multiframe codes, 0 for a packet of one: all *)
(* modes have frames of 20 ms, SILK also of 40 and 60.                     *)
Splits(len) ==
  {n \in {len \div 8} : len > 8} \cup {n \in {2} : len \in {32, 48}} \cup {n \in {0} : len <= 24}

GetInfo ==
  /\ in_hand > 0 /\ pcm_len = 0
  /\ reading' = Read(Judge(in_hand), elapsed - in_hand)
  /\ Advance(in_hand)
  /\ in_hand' = 0
  /\ sub_frames' \in Splits(in_hand)
  /\ UNCHANGED <<sounds, initialized, mem_fill, write_pos, info, pcm_len, elapsed>>

(***************************************************************************)
(* encode                                                                  *)
(***************************************************************************)
Reset ==
  /\ initialized' = FALSE
  /\ mem_fill' = 0 /\ write_pos' = 0 /\ read_pos' = 0 /\ read_subframe' = 0
  /\ info' = [p \in Slots |-> Unheard]
  /\ elapsed' = 0 /\ reading' = NoReading

ResetIfInitialized ==
  IF initialized THEN Reset
  ELSE UNCHANGED <<initialized, mem_fill, write_pos, read_pos, read_subframe, info, elapsed, reading>>

Between == in_hand = 0 /\ sub_frames = 0

(* A frame at a complexity that analyses, run_analysis begins.             *)
EncodeAnalysed ==
  /\ Between
  /\ \E len \in Durations :
       /\ elapsed + len <= Horizon
       /\ in_hand' = len /\ pcm_len' = len
  /\ reading' = NoReading
  /\ UNCHANGED <<sounds, initialized, mem_fill, write_pos, read_pos, read_subframe, info,
                 sub_frames, elapsed>>

(* A frame at a complexity below 7.                                        *)
EncodePlain ==
  /\ Between
  /\ ResetIfInitialized
  /\ UNCHANGED <<sounds, in_hand, pcm_len, sub_frames>>

(* A sub-frame: mf_lock is set, so that it is not analysed.  One that      *)
(* fails is the last.                                                      *)
EncodeSubFrame ==
  /\ sub_frames > 0
  /\ sub_frames' \in {sub_frames - 1, 0}
  /\ ResetIfInitialized
  /\ UNCHANGED <<sounds, in_hand, pcm_len>>

RingNext == EncodeAnalysed \/ TonalityAnalysis \/ GetInfo \/ EncodePlain \/ EncodeSubFrame

RingSpec == RingInit /\ [][RingNext]_ring_vars

---------------------------------------------------------------------------------
(* The windows that have ended, and the first to end after a moment.       *)
Windows == elapsed \div Hop
FirstAfter(moment) == moment \div Hop

(* Writer and reader are where the audio says, however it was cut into     *)
(* calls and frames.                                                       *)
Consumed == elapsed - (in_hand - pcm_len)

WriterInStep ==
  /\ write_pos = Windows % DETECT_SIZE
  /\ mem_fill = IF initialized THEN Overlap_len + (elapsed % Hop) ELSE 0

ReaderInStep ==
  /\ read_pos = (Consumed \div Hop) % DETECT_SIZE
  /\ read_subframe = Consumed % Hop

(* A frame is judged by a window that ended during it, or, if none did, by *)
(* the last one before; everything else it reads ahead are later windows   *)
(* that have been analysed.  So for every mix of frame lengths.            *)
VerdictOfFrame ==
  reading # NoReading =>
    \E w \in -1 .. Windows - 1 :
      /\ FirstAfter(reading.begin) < Windows => w >= FirstAfter(reading.begin)
      /\ FirstAfter(reading.begin) >= Windows => w = Windows - 1
      /\ reading.pos = w % DETECT_SIZE
      /\ reading.valid => w + reading.music = Windows - 1
      /\ reading.ahead <= reading.music /\ reading.ahead + reading.behind <= 6

(* The ring holds the results of the last windows, each in its place:      *)
(* silence the result before it, bad input none.                           *)
ResultOf(w) ==
  CASE SoundIn(w) = "silent" -> info[w % DETECT_SIZE] = info[(w - 1) % DETECT_SIZE]
    [] SoundIn(w) = "nan"    -> ~ info[w % DETECT_SIZE].valid
    [] OTHER              -> info[w % DETECT_SIZE] = [valid |-> TRUE, window |-> w]

ResultsPlaced ==
  \A w \in 0 .. Windows - 1 : w > Windows - DETECT_SIZE => ResultOf(w)

(* Both: the verdict of every frame is the analysis of that frame's sound. *)
AnalysisInStep == VerdictOfFrame /\ ResultsPlaced
=================================================================================

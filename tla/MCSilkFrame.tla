----------------------------- MODULE MCSilkFrame -----------------------------
(* Instance of SilkFrame: talks of voiced and other frames at each rate and *)
(* packet length, with copies, losses and frames that are hard to fit.      *)
EXTENDS SilkFrame

Vowel ==
    [activity |-> 2, voiced |-> TRUE, offset |-> 1, levels |-> <<30, 33, 28, 29>>, mags |-> <<4, 2, 9, 1>>, stubborn |-> {2},
     nlsf |-> <<5, 0, 3, -4, 1, 6, 0, -7, 2, 0, 1, 0, 4, 0, -1, 0, 2>>, interp |-> 2,
     lag |-> 60, contour |-> 9, per |-> 1, scale |-> 1, strained |-> FALSE]
Glide == [Vowel EXCEPT !.lag = 71, !.levels = <<20, 63, 24, 25>>]
Slide == [Vowel EXCEPT !.lag = 62, !.per = 0]
Leap == [Vowel EXCEPT !.lag = 120, !.contour = 1, !.per = 2, !.levels = <<50, 51, 40, 52>>, !.mags = <<20, 3, 0, 5>>]
Hiss == [Vowel EXCEPT !.voiced = FALSE, !.levels = <<12, 9, 9, 10>>, !.mags = <<1, 1, 0, 3>>, !.nlsf[1] = 3]
Murmur == [Hiss EXCEPT !.activity = 1]
Pause == [Hiss EXCEPT !.activity = 0, !.offset = 0, !.mags = <<0, 0, 0, 1>>, !.levels = <<2, 1, 1, 1>>]
Brief(u) == [u EXCEPT !.contour = 2]
Hard(u) == [u EXCEPT !.strained = TRUE]

Say(fs, ms, frames) ==
    [fs |-> fs, ms |-> ms, fec |-> FALSE, loss |-> 0, cbr |-> FALSE, max |-> 800, lbrr_bits |-> 0, frames |-> frames]
Copied(w) == [w EXCEPT !.fec = TRUE, !.loss = 10, !.lbrr_bits = 220]
Roomy(w) == [w EXCEPT !.max = 1400]
Tight(w) == [w EXCEPT !.max = 320]
Cbr(w) == [w EXCEPT !.cbr = TRUE]
Talk(channels, losses, fec, words) == [channels |-> channels, losses |-> losses, fec |-> fec, words |-> words]

(* Copies, losses and recoveries; a silence, so that copies have gaps.      *)
Recoveries ==
    {Talk(1, TRUE, TRUE, <<Copied(Say(16, 20, <<a>>)), Copied(Say(16, 20, <<b>>)), Copied(Say(16, 20, <<Glide>>))>>) :
        a \in {Vowel, Hiss}, b \in {Leap, Hard(Leap), Pause}}
    \cup {Talk(1, TRUE, TRUE, <<Copied(Say(8, 10, <<Brief(Vowel)>>)), Copied(Say(8, 10, <<Brief(Glide)>>))>>)}

(* Packets of several frames, where a frame builds on the one before.       *)
Sentences ==
    {Talk(1, TRUE, FALSE, <<Roomy(Copied(Say(fs, 60, <<Vowel, b, Glide>>))), Roomy(Copied(Say(fs, 60, <<Vowel, Glide, Slide>>)))>>) :
        fs \in {8, 12}, b \in {Pause, Murmur, Slide}}
    \cup {Talk(1, FALSE, FALSE, <<Say(16, 40, <<Vowel, Hard(Glide)>>), Cbr(Say(16, 40, <<Leap, Vowel>>))>>)}

(* Two channels, and a section of copies too large for its packet.          *)
Duets ==
    {Talk(2, TRUE, FALSE, <<Roomy(Copied(Say(16, 40, <<Vowel, Leap>>))), Roomy(Copied(Say(16, 40, <<Glide, b>>))), Copied(Say(16, 20, <<Hiss>>))>>) :
        b \in {Glide, Pause}}
    \cup {Talk(1, FALSE, FALSE, <<Copied(Say(16, 20, <<Vowel>>)), Tight(Copied(Say(16, 20, <<Hard(Glide)>>))), Say(16, 20, <<Vowel>>)>>)}

(* Rates and lengths change from packet to packet.                          *)
Changes ==
    {Talk(1, FALSE, FALSE, <<Say(16, 20, <<Vowel>>), Say(fs, ms, SubSeq(<<Brief(Glide), Glide, Hiss>>, 1, FramesIn(ms))), Say(16, 20, <<Vowel>>)>>) :
        fs \in {8, 16}, ms \in {10, 60}}

MCTalks == Recoveries \cup Sentences \cup Duets \cup Changes

(* A packet shorter than the one whose copies it carries.                   *)
StaleCopies == {Talk(1, FALSE, FALSE, <<Copied(Say(16, 20, <<Hiss>>)), Copied(Say(16, 20, <<[Vowel EXCEPT !.contour = c]>>)),
                                       Copied(Say(16, 10, <<Brief(Vowel)>>))>>) : c \in {2, 20}}
=============================================================================

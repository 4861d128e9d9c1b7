--------------------------- MODULE OpusDecoderProofs ---------------------------
(***************************************************************************)
(* Proofs about OpusDecoder, for every set of uses and of packets.  A      *)
(* packet may have any number of frames: Frames is unfolded by induction   *)
(* over them.  A decoder record is compared with another field by field    *)
(* (Same); what the properties ask of the log of calls is collected in one *)
(* predicate of a call (Good), so that each operator of the model needs    *)
(* one lemma: the fields it may change, and that its calls are good.       *)
(***************************************************************************)
EXTENDS OpusDecoder, DataInduction

(* The fields of a decoder; a decoder is a record of them.                 *)
Fields ==
  {"channels", "prev_mode", "prev_redundancy", "first_frame_redundancy", "transition_pending",
   "transition_pcm", "bandwidth", "prev_internal_rate", "silk_resampler", "silk_resampler_r",
   "n_channels_internal", "fs_khz", "silk_dec", "celt_dec", "stale", "calls"}
IsDec(d) == d = [x \in Fields |-> d[x]]

(* e is d but for the fields X. *)
Same(d, e, X) == IsDec(e) /\ \A x \in Fields \ X : e[x] = d[x]

(***************************************************************************)
(* The log of calls.                                                       *)
(***************************************************************************)
(* The fade that begins a packet, and a call that decodes the audio of     *)
(* one.                                                                    *)
StartFade(c) == c.op = "fade" /\ c.i = 1 /\ c.at # "end"
Decoding(c) == (c.op = "celt" /\ c.what = "main") \/ (c.op = "silk" /\ c.what = "normal")

(* x: [match, fresh, quiet, to_silk, main, at]: what is asked of the calls. *)
Good(c, x) ==
  /\ x.quiet => c.op # "celt" /\ ~Decoding(c)
  /\ x.match /\ c.op = "resample" => c.left = c.rate /\ c.right = c.rate
  /\ x.fresh /\ c.op = "silk" /\ c.what = "normal" => ~c.stale
  /\ c.op = "celt" /\ c.i = 1 /\ ((c.what = "to_silk" /\ x.to_silk) \/ (c.what = "main" /\ x.main))
       => c.at = x.at
Sound(calls, x) == Log(calls) /\ \A k \in DOMAIN calls : Good(calls[k], x)

(* One more good call keeps a log sound, and adds a start fade exactly     *)
(* when it is one.                                                         *)
LEMMA Logged ==
  ASSUME NEW calls, NEW x, Sound(calls, x), NEW c, Good(c, x)
  PROVE  /\ Sound(Append(calls, c), x)
         /\ ~StartFade(c) => StartFades(Append(calls, c)) = StartFades(calls)
         /\ StartFade(c) => StartFades(Append(calls, c)) = StartFades(calls) \cup {Len(calls) + 1}
<1>1. Log(calls)
  BY DEF Sound
<1>2. Sound(Append(calls, c), x)
  BY <1>1, AppendLog DEF Sound
<1> DEFINE k == Len(calls) + 1
<1>3. /\ DOMAIN Append(calls, c) = (DOMAIN calls) \cup {k}
      /\ \A j \in DOMAIN calls : Append(calls, c)[j] = calls[j]
      /\ Append(calls, c)[k] = c
      /\ k \notin DOMAIN calls
  BY <1>1, AppendLog
<1> HIDE DEF k
<1>4. ~StartFade(c) => StartFades(Append(calls, c)) = StartFades(calls)
  BY <1>3 DEF StartFades, StartFade
<1>5. StartFade(c) => StartFades(Append(calls, c)) = StartFades(calls) \cup {k}
  BY <1>3 DEF StartFades, StartFade
<1> QED
  BY <1>2, <1>4, <1>5 DEF k

(* e is d but for the fields X and sound calls that start no fade.         *)
Runs(d, e, X, x) ==
  /\ Same(d, e, X \cup {"calls"})
  /\ Sound(e.calls, x) /\ StartFades(e.calls) = StartFades(d.calls)

(***************************************************************************)
(* One lemma per operator of the model.                                    *)
(***************************************************************************)
(* Running the CELT decoder changes the CELT state alone and logs the      *)
(* state it ran from, which is the one asked for where one is.             *)
LEMMA RunCeltRuns ==
  ASSUME NEW d, IsDec(d), NEW x, Sound(d.calls, x), ~x.quiet, NEW i, NEW what, NEW f,
         i = 1 /\ ((what = "to_silk" /\ x.to_silk) \/ (what = "main" /\ x.main))
           => d.celt_dec = x.at
  PROVE  Runs(d, RunCelt(d, i, what, f), {"celt_dec"}, x)
<1> DEFINE e == RunCelt(d, i, what, f)
           c == [op |-> "celt", i |-> i, what |-> what, at |-> d.celt_dec, frame |-> f]
<1>1. Same(d, e, {"celt_dec", "calls"}) /\ e.calls = Append(d.calls, c)
  BY DEF IsDec, Same, RunCelt, Call, Fields
<1>2. Good(c, x) /\ ~StartFade(c)
  BY DEF Good, StartFade, Decoding
<1> HIDE DEF c, e
<1> QED
  BY <1>1, <1>2, Logged DEF Runs, e

(* Concealment by CELT (decode_lost) changes the CELT state alone; no      *)
(* decoding is logged.                                                     *)
LEMMA ConcealCeltRuns ==
  ASSUME NEW d, IsDec(d), NEW x, Sound(d.calls, x)
  PROVE  Runs(d, ConcealCelt(d), {"celt_dec"}, x)
<1> DEFINE e == ConcealCelt(d)
           c == [op |-> "conceal_lost", at |-> d.celt_dec]
<1>1. Same(d, e, {"celt_dec", "calls"}) /\ e.calls = Append(d.calls, c)
  BY DEF IsDec, Same, ConcealCelt, Call, Fields
<1>2. Good(c, x) /\ ~StartFade(c)
  BY DEF Good, StartFade, Decoding
<1> HIDE DEF c, e
<1> QED
  BY <1>1, <1>2, Logged DEF Runs, e

(* SILK at a rate, and its resamplers.                                     *)
LEMMA SilkRuns ==
  ASSUME NEW d, IsDec(d), NEW x, Sound(d.calls, x), NEW rate, NEW what, NEW f, NEW right \in BOOLEAN,
         x.fresh /\ what = "normal" => ~d.stale, x.quiet => what # "normal",
         x.match => d.silk_resampler = rate /\ (right => d.silk_resampler_r = rate)
  PROVE  LET e == Resample(RunSilk(SetFs(d, rate), what, f), rate, right) IN
         Runs(d, e, {"silk_dec", "fs_khz"}, x) /\ e.fs_khz = rate
<1> DEFINE a == SetFs(d, rate)
           b == RunSilk(a, what, f)
           e == Resample(b, rate, right)
           silk == [op |-> "silk", what |-> what, at |-> a.silk_dec, frame |-> f,
                    stale |-> a.stale]
           resample == [op |-> "resample", rate |-> rate, left |-> b.silk_resampler,
                        right |-> IF right THEN b.silk_resampler_r ELSE rate]
<1>1. Same(d, a, {"silk_dec", "fs_khz"}) /\ a.fs_khz = rate
  BY DEF IsDec, Same, SetFs, Fields
<1> HIDE DEF a
<1>2. Same(a, b, {"calls", "silk_dec"}) /\ b.calls = Append(a.calls, silk)
  BY <1>1 DEF IsDec, Same, RunSilk, Call, Fields
<1> HIDE DEF b
<1>3. Same(b, e, {"calls"}) /\ e.calls = Append(b.calls, resample)
  BY <1>2 DEF IsDec, Same, Resample, Call, Fields
<1> HIDE DEF e
<1>4. Same(d, e, {"silk_dec", "fs_khz", "calls"}) /\ e.fs_khz = rate
  BY <1>1, <1>2, <1>3 DEF Same, Fields
<1>5. /\ a.stale = d.stale /\ a.calls = d.calls
      /\ b.silk_resampler = d.silk_resampler /\ b.silk_resampler_r = d.silk_resampler_r
  BY <1>1, <1>2 DEF Same, Fields
<1>6. Good(silk, x) /\ ~StartFade(silk)
  BY <1>5 DEF Good, StartFade, Decoding
<1>7. Good(resample, x) /\ ~StartFade(resample)
  BY <1>5 DEF Good, StartFade, Decoding
<1> HIDE DEF silk, resample
<1>8. Sound(b.calls, x) /\ StartFades(b.calls) = StartFades(d.calls)
  BY <1>2, <1>5, <1>6, Logged
<1>9. Sound(e.calls, x) /\ StartFades(e.calls) = StartFades(d.calls)
  BY <1>3, <1>7, <1>8, Logged
<1> QED
  BY <1>4, <1>9 DEF Runs, a, b, e

(* A reset of the CELT decoder touches nothing else.                       *)
LEMMA ResetCeltIs ==
  ASSUME NEW d, IsDec(d)
  PROVE  Same(d, ResetCelt(d), {"celt_dec"})
  BY DEF IsDec, Same, ResetCelt, Fields

(* The concealment a transition still owes is run in the first frame,      *)
(* unless the frame brings redundancy.                                     *)
Due(d, i, f) == d.transition_pending /\ i = 1 /\ f.red \in {"none", "empty"}

PlcEffect(d, e, i, f, x) ==
  /\ Runs(d, e, {"celt_dec", "transition_pending", "transition_pcm"}, x)
  /\ ~e.transition_pending
  /\ e.transition_pcm \in BOOLEAN
  /\ e.transition_pcm <=> (Due(d, i, f) \/ d.transition_pcm)
  /\ ~Due(d, i, f) => e.celt_dec = d.celt_dec

(* After frame 1 nothing is owed any more; the packet is faded from        *)
(* concealment exactly if that was run now or before the frames; CELT is   *)
(* untouched when nothing was due.                                         *)
LEMMA RunTransitionPlcRuns ==
  ASSUME NEW d, IsDec(d), NEW x, Sound(d.calls, x), NEW i, NEW f, d.transition_pcm \in BOOLEAN
  PROVE  PlcEffect(d, RunTransitionPlc(d, i, f), i, f, x)
<1> DEFINE due == Due(d, i, f)
           a == IF due THEN ConcealCelt(d) ELSE d
           e == RunTransitionPlc(d, i, f)
<1>1. Runs(d, a, {"celt_dec"}, x) /\ (~due => a = d)
  BY ConcealCeltRuns DEF Runs, Same
<1>2. e = [a EXCEPT !.transition_pending = FALSE, !.transition_pcm = due \/ @]
  BY DEF RunTransitionPlc, Due
<1>3. due \in BOOLEAN
  BY DEF Due
<1> HIDE DEF a, due, e
<1>4. IsDec(a) /\ a.transition_pcm = d.transition_pcm
  BY <1>1 DEF Runs, Same, Fields
<1>5. /\ Same(a, e, {"transition_pending", "transition_pcm"})
      /\ e.transition_pending = FALSE /\ e.transition_pcm = (due \/ d.transition_pcm)
  BY <1>2, <1>4 DEF IsDec, Same, Fields
<1>6. e.calls = a.calls /\ e.celt_dec = a.celt_dec
  BY <1>5 DEF Same, Fields
<1>7. Runs(d, e, {"celt_dec", "transition_pending", "transition_pcm"}, x)
  BY <1>1, <1>5, <1>6 DEF Runs, Same, Fields
<1>8. e.transition_pcm \in BOOLEAN /\ (e.transition_pcm <=> (due \/ d.transition_pcm))
  BY <1>3, <1>5
<1> QED
  BY <1>1, <1>5, <1>6, <1>7, <1>8 DEF e, due, PlcEffect

(* The redundant frame is decoded where its kind says or not at all:       *)
(* before the SILK frame's CELT part from the state CELT was in, after it  *)
(* from a reset one.                                                       *)
LEMMA DecodeRedundantRuns ==
  ASSUME NEW d, IsDec(d), NEW x, Sound(d.calls, x), ~x.quiet, NEW i, NEW f, NEW which \in {"to_silk", "to_celt"},
         which = "to_silk" /\ f.red = which /\ i = 1 /\ x.to_silk => d.celt_dec = x.at
  PROVE  Runs(d, DecodeRedundantCelt(d, i, f, which), {"celt_dec"}, x)
<1>1. CASE f.red # which
  BY <1>1 DEF DecodeRedundantCelt, Runs, Same
<1>2. CASE f.red = which /\ which = "to_silk"
  BY <1>2, RunCeltRuns DEF DecodeRedundantCelt
<1>3. CASE f.red = which /\ which = "to_celt"
  <2> DEFINE a == ResetCelt(d)
  <2>1. Same(d, a, {"celt_dec"})
    BY ResetCeltIs
  <2>2. IsDec(a) /\ a.calls = d.calls
    BY <2>1 DEF Same, Fields
  <2> HIDE DEF a
  <2>3. Runs(a, RunCelt(a, i, which, f.rc), {"celt_dec"}, x)
    BY <1>3, <2>2, RunCeltRuns
  <2>4. DecodeRedundantCelt(d, i, f, which) = RunCelt(a, i, which, f.rc)
    BY <1>3 DEF DecodeRedundantCelt, a
  <2> QED
    BY <2>1, <2>2, <2>3, <2>4 DEF Runs, Same, Fields
<1> QED
  BY <1>1, <1>2, <1>3

(* The frame of silence that fades CELT out on the way from hybrid to SILK *)
(* touches CELT alone and starts no fade.                                  *)
LEMMA HybridFadeOutRuns ==
  ASSUME NEW d, IsDec(d), NEW x, Sound(d.calls, x), ~x.quiet, NEW i, NEW pm, NEW f
  PROVE  Runs(d, HybridFadeOut(d, i, pm, f), {"celt_dec"}, x)
<1>1. Runs(d, d, {"celt_dec"}, x)
  BY DEF Runs, Same
<1>2. Runs(d, RunCelt(d, i, "silence", Silence), {"celt_dec"}, x)
  BY RunCeltRuns
<1> QED
  BY <1>1, <1>2 DEF HybridFadeOut

(* The fade of a redundant frame: it starts frame 1 if it leads to SILK.   *)
StartsWith(i, f) == i = 1 /\ f.red = "to_silk"

(* What the fade over a redundant frame leaves: the flags of the packet,   *)
(* and one more start fade exactly if it leads to SILK in frame 1.         *)
FadeEffect(d, e, i, f, x) ==
  /\ Same(d, e, {"calls", "prev_redundancy", "first_frame_redundancy"})
  /\ e.prev_redundancy \in BOOLEAN
  /\ i = 1 => (e.first_frame_redundancy <=> f.red \in {"to_silk", "to_celt"})
  /\ i # 1 => e.first_frame_redundancy = d.first_frame_redundancy
  /\ Sound(e.calls, x)
  /\ StartsWith(i, f) => \E k : StartFades(e.calls) = StartFades(d.calls) \cup {k}
  /\ ~StartsWith(i, f) => StartFades(e.calls) = StartFades(d.calls)

(* That is what the tail of a frame does about its redundancy.             *)
LEMMA RedundancyIs ==
  ASSUME NEW d, IsDec(d), NEW x, Sound(d.calls, x), NEW i, NEW f
  PROVE  FadeEffect(d, Redundancy(d, i, f), i, f, x)
<1> DEFINE a == RedundancyFade(d, i, f)
           e == Redundancy(d, i, f)
           c == [op |-> "fade", i |-> i, at |-> IF f.red = "to_silk" THEN "start" ELSE "end"]
<1>1. a = IF f.red \in {"to_silk", "to_celt"} THEN [d EXCEPT !.calls = Append(d.calls, c)] ELSE d
  BY DEF RedundancyFade, Fade, Call
<1>2. Good(c, x) /\ (StartFade(c) <=> StartsWith(i, f))
  BY DEF Good, StartFade, StartsWith, Decoding
<1> HIDE DEF a, c
<1>3. Same(d, a, {"calls"})
  BY <1>1 DEF IsDec, Same, Fields
<1>4. a.calls = IF f.red \in {"to_silk", "to_celt"} THEN Append(d.calls, c) ELSE d.calls
  BY <1>1 DEF IsDec, Fields
<1>5. /\ Sound(a.calls, x)
      /\ StartsWith(i, f) => \E k : StartFades(a.calls) = StartFades(d.calls) \cup {k}
      /\ ~StartsWith(i, f) => StartFades(a.calls) = StartFades(d.calls)
  <2>1. /\ Sound(Append(d.calls, c), x)
        /\ StartFade(c) => StartFades(Append(d.calls, c)) = StartFades(d.calls) \cup {Len(d.calls) + 1}
        /\ ~StartFade(c) => StartFades(Append(d.calls, c)) = StartFades(d.calls)
    BY <1>2, Logged
  <2>2. CASE f.red \in {"to_silk", "to_celt"}
    BY <1>2, <1>4, <2>1, <2>2
  <2>3. CASE f.red \notin {"to_silk", "to_celt"}
    BY <1>4, <2>3 DEF StartsWith
  <2> QED
    BY <2>2, <2>3
<1>6. /\ Same(a, e, {"prev_redundancy", "first_frame_redundancy"})
      /\ e.prev_redundancy = (f.red = "to_celt")
      /\ e.first_frame_redundancy =
              IF i = 1 THEN f.red \in {"to_silk", "to_celt"} ELSE a.first_frame_redundancy
  BY <1>3 DEF IsDec, Same, Redundancy, Fields, a
<1> HIDE DEF e
<1>7. e.calls = a.calls /\ a.first_frame_redundancy = d.first_frame_redundancy
  BY <1>3, <1>6 DEF Same, Fields
<1>8. Same(d, e, {"calls", "prev_redundancy", "first_frame_redundancy"})
  BY <1>3, <1>6 DEF Same, Fields
<1>9. /\ e.prev_redundancy \in BOOLEAN
      /\ i = 1 => (e.first_frame_redundancy <=> f.red \in {"to_silk", "to_celt"})
      /\ i # 1 => e.first_frame_redundancy = d.first_frame_redundancy
  BY <1>6, <1>7
<1> QED
  BY <1>5, <1>7, <1>8, <1>9 DEF e, FadeEffect

(***************************************************************************)
(* A frame.                                                                *)
(***************************************************************************)
FrameFields == {"prev_redundancy", "first_frame_redundancy", "transition_pending",
                "transition_pcm", "fs_khz", "silk_dec", "celt_dec", "stale", "calls"}

(* SILK's internal rate is a rate, never 0.                                *)
LEMMA RateIs ==
  ASSUME NEW mode, NEW bw
  PROVE  Rate(mode, bw) \in Rates /\ Rate(mode, bw) # 0
  BY DEF Rate, Rates

(* What SILK needs of the decoder to decode a frame of p.                  *)
SilkReady(d, p, x) ==
  /\ x.fresh => ~d.stale
  /\ x.match => /\ d.silk_resampler = Rate(p.mode, p.bw)
                /\ d.channels = 2 => d.silk_resampler_r = Rate(p.mode, p.bw)

(* The SILK layer of a frame runs soundly on a decoder that is ready for   *)
(* it.                                                                     *)
LEMMA SilkLayerRuns ==
  ASSUME NEW d, IsDec(d), NEW x, Sound(d.calls, x), ~x.quiet, NEW p, NEW f, SilkReady(d, p, x)
  PROVE  /\ Runs(d, SilkLayer(d, p, f), {"silk_dec", "fs_khz"}, x)
         /\ SilkLayer(d, p, f).fs_khz \in Rates
<1> DEFINE right == d.channels = 2
           rate == Rate(p.mode, p.bw)
<1>1. right \in BOOLEAN
  OBVIOUS
<1>2. x.match => d.silk_resampler = rate /\ (right => d.silk_resampler_r = rate)
  BY DEF SilkReady
<1>3. x.fresh => ~d.stale
  BY DEF SilkReady
<1>4. SilkLayer(d, p, f) = Resample(RunSilk(SetFs(d, rate), "normal", f.silk), rate, right)
  BY DEF SilkLayer
<1>5. rate \in Rates
  BY RateIs
<1> HIDE DEF right, rate
<1> QED
  BY <1>1, <1>2, <1>3, <1>4, <1>5, SilkRuns

(* A frame of SILK or hybrid.                                              *)
SilkEffect(d, e, p, i, x) ==
  LET f == p.frames[i] IN
  /\ Same(d, e, FrameFields \ {"stale"})
  /\ Sound(e.calls, x)
  /\ e.fs_khz \in Rates /\ e.prev_redundancy \in BOOLEAN
  /\ ~e.transition_pending
  /\ e.transition_pcm \in BOOLEAN
  /\ e.transition_pcm <=> (Due(d, i, f) \/ d.transition_pcm)
  /\ i = 1 => (e.first_frame_redundancy <=> f.red \in {"to_silk", "to_celt"})
  /\ i # 1 => e.first_frame_redundancy = d.first_frame_redundancy
  /\ StartsWith(i, f) => \E k : StartFades(e.calls) = StartFades(d.calls) \cup {k}
  /\ ~StartsWith(i, f) => StartFades(e.calls) = StartFades(d.calls)

(* The head of such a frame, up to where redundancy may be decoded.        *)
HeadEffect(d, e, i, f, x) ==
  /\ Runs(d, e, {"silk_dec", "fs_khz", "celt_dec", "transition_pending", "transition_pcm"}, x)
  /\ e.fs_khz \in Rates
  /\ ~e.transition_pending
  /\ e.transition_pcm \in BOOLEAN
  /\ e.transition_pcm <=> (Due(d, i, f) \/ d.transition_pcm)

(* The head of a SILK or hybrid frame: SILK layer, the concealment that is *)
(* owed, redundancy that leads from CELT.                                  *)
LEMMA HeadRuns ==
  ASSUME NEW d, IsDec(d), NEW x, Sound(d.calls, x), ~x.quiet, NEW p, NEW i, SilkReady(d, p, x),
         d.transition_pcm \in BOOLEAN,
         i = 1 /\ x.to_silk => d.celt_dec = x.at,
         NEW f
  PROVE  HeadEffect(d, DecodeRedundantCelt(RunTransitionPlc(SilkLayer(d, p, f), i, f), i, f, "to_silk"),
                    i, f, x)
<1> DEFINE d1 == SilkLayer(d, p, f)
           d2 == RunTransitionPlc(d1, i, f)
           d3 == DecodeRedundantCelt(d2, i, f, "to_silk")
<1>1. Runs(d, d1, {"silk_dec", "fs_khz"}, x) /\ d1.fs_khz \in Rates
  BY SilkLayerRuns
<1> HIDE DEF d1
<1>2. /\ IsDec(d1) /\ Sound(d1.calls, x) /\ d1.transition_pcm = d.transition_pcm
      /\ d1.transition_pending = d.transition_pending /\ d1.celt_dec = d.celt_dec
  BY <1>1 DEF Runs, Same, Fields
<1>3. PlcEffect(d1, d2, i, f, x)
  BY <1>2, RunTransitionPlcRuns
<1> HIDE DEF d2
<1>4. Due(d1, i, f) <=> Due(d, i, f)
  BY <1>2 DEF Due
<1>5. IsDec(d2) /\ Sound(d2.calls, x) /\ (~Due(d, i, f) => d2.celt_dec = d.celt_dec)
  BY <1>2, <1>3, <1>4 DEF PlcEffect, Runs, Same
<1>6. Runs(d2, d3, {"celt_dec"}, x)
  <2>1. f.red = "to_silk" => ~Due(d, i, f)
    BY DEF Due
  <2>2. f.red = "to_silk" /\ i = 1 /\ x.to_silk => d2.celt_dec = x.at
    BY <1>5, <2>1
  <2> QED
    BY <1>5, <2>2, DecodeRedundantRuns
<1> HIDE DEF d3
<1>7. /\ Same(d, d3, {"silk_dec", "fs_khz", "celt_dec", "transition_pending", "transition_pcm", "calls"})
      /\ d3.fs_khz = d1.fs_khz /\ d3.transition_pcm = d2.transition_pcm
      /\ d3.transition_pending = d2.transition_pending
  BY <1>1, <1>3, <1>6 DEF PlcEffect, Runs, Same, Fields
<1>8. Sound(d3.calls, x) /\ StartFades(d3.calls) = StartFades(d.calls)
  BY <1>1, <1>3, <1>6 DEF PlcEffect, Runs
<1>9. d3.transition_pcm \in BOOLEAN /\ (d3.transition_pcm <=> (Due(d, i, f) \/ d.transition_pcm))
      /\ ~d3.transition_pending
  BY <1>2, <1>3, <1>4, <1>7 DEF PlcEffect
<1> QED
  BY <1>1, <1>7, <1>8, <1>9 DEF HeadEffect, Runs, d1, d2, d3

(* Its tail: what is left after the CELT layer or the fade out of one.     *)
LEMMA TailRuns ==
  ASSUME NEW d, NEW d3, NEW d4, NEW x, NEW p, NEW i,
         ~x.quiet, HeadEffect(d, d3, i, p.frames[i], x), Runs(d3, d4, {"celt_dec"}, x)
  PROVE  SilkEffect(d, Redundancy(DecodeRedundantCelt(d4, i, p.frames[i], "to_celt"), i, p.frames[i]),
                    p, i, x)
<1> DEFINE f == p.frames[i]
           d5 == DecodeRedundantCelt(d4, i, f, "to_celt")
           e == Redundancy(d5, i, f)
<1> HIDE DEF f
<1>1. IsDec(d4) /\ Sound(d4.calls, x)
  BY DEF Runs, Same
<1>2. Runs(d4, d5, {"celt_dec"}, x)
  BY <1>1, DecodeRedundantRuns
<1> HIDE DEF d5
<1>3. IsDec(d5) /\ Sound(d5.calls, x)
  BY <1>2 DEF Runs, Same
<1>4. FadeEffect(d5, e, i, f, x)
  BY <1>3, RedundancyIs
<1> HIDE DEF e
<1>5. HeadEffect(d, d3, i, f, x)
  BY DEF f
<1>6. /\ Same(d, d5, {"silk_dec", "fs_khz", "celt_dec", "transition_pending", "transition_pcm", "calls"})
      /\ d5.fs_khz = d3.fs_khz /\ d5.transition_pcm = d3.transition_pcm
      /\ d5.transition_pending = d3.transition_pending
      /\ StartFades(d5.calls) = StartFades(d.calls)
  BY <1>2, <1>5 DEF HeadEffect, Runs, Same, Fields
<1>7. /\ Same(d, e, FrameFields \ {"stale"})
      /\ e.fs_khz = d3.fs_khz /\ e.transition_pcm = d3.transition_pcm
      /\ e.transition_pending = d3.transition_pending
      /\ d5.first_frame_redundancy = d.first_frame_redundancy
  BY <1>4, <1>6 DEF FadeEffect, Same, Fields, FrameFields
<1>8. SilkEffect(d, e, p, i, x)
  BY <1>4, <1>5, <1>6, <1>7 DEF SilkEffect, HeadEffect, FadeEffect, f
<1> QED
  BY <1>8 DEF e, d5, f

(* A SILK frame has that effect.                                           *)
LEMMA SilkFrameRuns ==
  ASSUME NEW d, IsDec(d), NEW x, Sound(d.calls, x), ~x.quiet, NEW p, NEW i, SilkReady(d, p, x),
         d.transition_pcm \in BOOLEAN,
         i = 1 /\ x.to_silk => d.celt_dec = x.at
  PROVE  SilkEffect(d, SilkFrame(d, p, i), p, i, x)
<1> DEFINE f == p.frames[i]
           pm == IF i = 1 THEN d.prev_mode ELSE "silk"
           d3 == DecodeRedundantCelt(RunTransitionPlc(SilkLayer(d, p, f), i, f), i, f, "to_silk")
           d4 == HybridFadeOut(d3, i, pm, f)
<1>1. HeadEffect(d, d3, i, f, x)
  BY HeadRuns
<1>2. IsDec(d3) /\ Sound(d3.calls, x)
  BY <1>1 DEF HeadEffect, Runs, Same
<1>3. Runs(d3, d4, {"celt_dec"}, x)
  <2> HIDE DEF d3
  <2> QED
    BY <1>2, HybridFadeOutRuns
<1>4. SilkFrame(d, p, i) = Redundancy(DecodeRedundantCelt(d4, i, f, "to_celt"), i, f)
  BY DEF SilkFrame
<1> HIDE DEF d3, d4
<1> QED
  BY <1>1, <1>3, <1>4, TailRuns

(* A hybrid frame's CELT layer.                                            *)
LEMMA ResetOnSwitchIs ==
  ASSUME NEW d, IsDec(d), NEW mode
  PROVE  /\ Same(d, ResetOnSwitch(d, mode), {"celt_dec"})
         /\ d.prev_redundancy => ResetOnSwitch(d, mode) = d
  BY ResetCeltIs DEF ResetOnSwitch, Same

(* A hybrid frame has the same effect: its CELT layer runs after the head, *)
(* from a state no call asks about.                                        *)
LEMMA HybridFrameRuns ==
  ASSUME NEW d, IsDec(d), NEW x, Sound(d.calls, x), ~x.quiet, NEW p, NEW i, SilkReady(d, p, x),
         d.transition_pcm \in BOOLEAN,
         i = 1 /\ x.to_silk => d.celt_dec = x.at, ~x.main
  PROVE  SilkEffect(d, HybridFrame(d, p, i), p, i, x)
<1> DEFINE f == p.frames[i]
           d3 == DecodeRedundantCelt(RunTransitionPlc(SilkLayer(d, p, f), i, f), i, f, "to_silk")
           r3 == IF i = 1 THEN ResetOnSwitch(d3, "hybrid") ELSE d3
           d4 == RunCelt(r3, i, "main", f.celt)
<1>1. HeadEffect(d, d3, i, f, x)
  BY HeadRuns
<1>2. IsDec(d3) /\ Sound(d3.calls, x)
  BY <1>1 DEF HeadEffect, Runs, Same
<1>3. HybridFrame(d, p, i) = Redundancy(DecodeRedundantCelt(d4, i, f, "to_celt"), i, f)
  BY DEF HybridFrame
<1> HIDE DEF d3
<1>4. Same(d3, r3, {"celt_dec"})
  BY <1>2, ResetOnSwitchIs DEF Same
<1> HIDE DEF r3
<1>5. IsDec(r3) /\ r3.calls = d3.calls
  BY <1>4 DEF Same, Fields
<1>6. Runs(r3, d4, {"celt_dec"}, x)
  BY <1>2, <1>5, RunCeltRuns
<1> HIDE DEF d4
<1>7. Runs(d3, d4, {"celt_dec"}, x)
  BY <1>4, <1>5, <1>6 DEF Runs, Same, Fields
<1> QED
  BY <1>1, <1>3, <1>7, TailRuns

(* A CELT frame touches CELT, and leaves SILK behind it.                   *)
LEMMA CeltFrameRuns ==
  ASSUME NEW d, IsDec(d), NEW x, Sound(d.calls, x), ~x.quiet, NEW p, NEW i,
         i = 1 /\ x.main => d.celt_dec = x.at
  PROVE  Runs(d, CeltFrame(d, p, i), {"celt_dec", "stale"}, x)
<1> DEFINE a == RunCelt(d, i, "main", p.frames[i].celt)
           e == CeltFrame(d, p, i)
<1>1. Runs(d, a, {"celt_dec"}, x)
  BY RunCeltRuns
<1>2. e = [a EXCEPT !.stale = TRUE]
  BY DEF CeltFrame
<1> HIDE DEF a, e
<1>3. Same(a, e, {"stale"})
  BY <1>1, <1>2 DEF Runs, Same, IsDec, Fields
<1>4. e.calls = a.calls
  BY <1>3 DEF Same, Fields
<1> QED
  BY <1>1, <1>3, <1>4 DEF Runs, Same, Fields, e

(***************************************************************************)
(* The frames of a packet, one after the other.                            *)
(***************************************************************************)
(* The decoder before the first frame of p.                                *)
Armed(a, p, x) ==
  /\ IsDec(a) /\ Sound(a.calls, x) /\ ~x.quiet
  /\ a.fs_khz \in Rates /\ a.prev_redundancy \in BOOLEAN /\ a.transition_pcm \in BOOLEAN
  /\ p.mode \in Modes
  /\ p.mode # "celt" => /\ SilkReady(a, p, x) /\ ~x.main
                        /\ x.to_silk => a.celt_dec = x.at
  /\ p.mode = "celt" /\ x.main => a.celt_dec = x.at

(* The decoder u after j frames of p.                                      *)
Loop(a, p, x, j, u) ==
  /\ Same(a, u, FrameFields)
  /\ Sound(u.calls, x)
  /\ u.fs_khz \in Rates /\ u.prev_redundancy \in BOOLEAN /\ u.transition_pcm \in BOOLEAN
  /\ j = 0 => u = a
  /\ p.mode = "celt" =>
       /\ u.transition_pending = a.transition_pending
       /\ u.transition_pcm = a.transition_pcm
       /\ StartFades(u.calls) = StartFades(a.calls)
  /\ p.mode # "celt" => u.stale = a.stale
  /\ p.mode # "celt" /\ j # 0 => LET f == p.frames[1] IN
       /\ ~u.transition_pending
       /\ u.transition_pcm <=> (Due(a, 1, f) \/ a.transition_pcm)
       /\ u.first_frame_redundancy <=> f.red \in {"to_silk", "to_celt"}
       /\ StartsWith(1, f) => \E k : StartFades(u.calls) = StartFades(a.calls) \cup {k}
       /\ ~StartsWith(1, f) => StartFades(u.calls) = StartFades(a.calls)

(* One turn of the loop over the frames keeps its invariant: frames after  *)
(* the first owe no concealment, fade nothing at the start and leave the   *)
(* first frame's flags alone.                                              *)
LEMMA FrameLoops ==
  ASSUME NEW a, NEW p, NEW x, Armed(a, p, x), NEW j \in Nat \ {0}, NEW u, Loop(a, p, x, j - 1, u)
  PROVE  Loop(a, p, x, j, Frame(u, p, j))
<1> DEFINE e == Frame(u, p, j)
<1>1. /\ IsDec(u) /\ Sound(u.calls, x) /\ ~x.quiet /\ u.transition_pcm \in BOOLEAN
      /\ j = 1 => u = a
  BY DEF Loop, Same, Armed
<1>2. CASE p.mode = "celt"
  <2>1. Runs(u, CeltFrame(u, p, j), {"celt_dec", "stale"}, x)
    BY <1>1, <1>2, CeltFrameRuns DEF Armed
  <2>2. e = CeltFrame(u, p, j)
    BY <1>2 DEF Frame
  <2> HIDE DEF e
  <2>3. Same(u, e, {"celt_dec", "stale", "calls"}) /\ Sound(e.calls, x)
        /\ StartFades(e.calls) = StartFades(u.calls)
    BY <2>1, <2>2 DEF Runs
  <2>4. Same(a, e, FrameFields)
    BY <2>3 DEF Same, Fields, FrameFields, Loop
  <2>5. /\ e.transition_pending = u.transition_pending /\ e.transition_pcm = u.transition_pcm
        /\ e.prev_redundancy = u.prev_redundancy /\ e.fs_khz = u.fs_khz
    BY <2>3 DEF Same, Fields
  <2> QED
    BY <1>2, <2>3, <2>4, <2>5 DEF Loop, e
<1>3. CASE p.mode # "celt"
  <2>1. SilkReady(u, p, x) /\ (j = 1 /\ x.to_silk => u.celt_dec = x.at) /\ ~x.main
    <3>1. Same(a, u, FrameFields) /\ u.stale = a.stale /\ SilkReady(a, p, x)
      BY <1>3 DEF Loop, Armed
    <3>2. SilkReady(u, p, x)
      BY <3>1 DEF SilkReady, Same, Fields, FrameFields
    <3> QED
      BY <1>1, <1>3, <3>2 DEF Armed
  <2>2. SilkEffect(u, e, p, j, x)
    BY <1>1, <1>3, <2>1, SilkFrameRuns, HybridFrameRuns DEF Frame, Armed, Modes
  <2> HIDE DEF e
  <2>3. Same(a, e, FrameFields) /\ e.stale = u.stale
    BY <2>2 DEF SilkEffect, Loop, Same, Fields, FrameFields
  <2> DEFINE f == p.frames[1]
  <2>4. CASE j = 1
    <3>1. /\ e.transition_pcm <=> (Due(a, 1, f) \/ a.transition_pcm)
          /\ e.first_frame_redundancy <=> f.red \in {"to_silk", "to_celt"}
          /\ StartsWith(1, f) => \E k : StartFades(e.calls) = StartFades(a.calls) \cup {k}
          /\ ~StartsWith(1, f) => StartFades(e.calls) = StartFades(a.calls)
      BY <1>1, <2>2, <2>4 DEF SilkEffect
    <3> QED
      BY <1>3, <2>2, <2>3, <2>4, <3>1 DEF Loop, SilkEffect, e
  <2>5. CASE j # 1
    <3>1. j - 1 # 0 /\ ~StartsWith(j, p.frames[j]) /\ ~Due(u, j, p.frames[j])
      BY <2>5 DEF StartsWith, Due
    <3>2. /\ e.transition_pcm <=> u.transition_pcm
          /\ e.first_frame_redundancy = u.first_frame_redundancy
          /\ StartFades(e.calls) = StartFades(u.calls)
      BY <2>2, <2>5, <3>1 DEF SilkEffect
    <3> QED
      BY <1>3, <2>2, <2>3, <3>1, <3>2 DEF Loop, SilkEffect, e
  <2> QED
    BY <2>4, <2>5
<1> QED
  BY <1>2, <1>3

(* f is the function that Frames defines for n frames.                     *)
Unfolds(f, a, p, n) == f = [i \in 0 .. n |-> IF i = 0 THEN a ELSE Frame(f[i - 1], p, i)]

(* The recursive function that Frames defines exists for every number of   *)
(* frames.                                                                 *)
LEMMA FramesUnfold ==
  ASSUME NEW a, NEW p
  PROVE  \A n \in Nat : \E f : Unfolds(f, a, p, n)
<1> DEFINE T == {n \in Nat : \E f : Unfolds(f, a, p, n)}
<1>1. 0 \in T
  <2> DEFINE g == [i \in 0 .. 0 |-> a]
  <2>1. Unfolds(g, a, p, 0)
    BY DEF Unfolds
  <2> QED
    BY <2>1
<1>2. ASSUME NEW n \in Nat, n \in T
      PROVE  n + 1 \in T
  <2>1. PICK f : Unfolds(f, a, p, n)
    BY <1>2
  <2> DEFINE g == [i \in 0 .. n + 1 |-> IF i = n + 1 THEN Frame(f[n], p, i) ELSE f[i]]
  <2>2. ASSUME NEW i \in 0 .. n + 1
        PROVE  g[i] = IF i = 0 THEN a ELSE Frame(g[i - 1], p, i)
    <3>1. CASE i = n + 1
      BY <3>1
    <3>2. CASE i = 0
      BY <3>2, <2>1 DEF Unfolds
    <3>3. CASE i \in 1 .. n
      <4>1. i - 1 \in 0 .. n + 1 /\ g[i - 1] = f[i - 1] /\ g[i] = f[i]
        BY <3>3
      <4> QED
        BY <4>1, <3>3, <2>1 DEF Unfolds
    <3> QED
      BY <3>1, <3>2, <3>3
  <2>3. Unfolds(g, a, p, n + 1)
    BY <2>2 DEF Unfolds
  <2> HIDE DEF g
  <2> QED
    BY <2>3
<1> HIDE DEF T
<1>3. T = Nat
  <2>1. T \in SUBSET Nat
    BY DEF T
  <2> QED
    BY <1>1, <1>2, <2>1, NatSetInduction
<1> QED
  BY <1>3 DEF T

(* The invariant holds after the last frame, however many there are.       *)
LEMMA FramesLoop ==
  ASSUME NEW a, NEW p, NEW x, Armed(a, p, x), Len(p.frames) \in Nat
  PROVE  Loop(a, p, x, Len(p.frames), Frames(a, p))
<1> DEFINE n == Len(p.frames)
           upto[i \in 0 .. n] == IF i = 0 THEN a ELSE Frame(upto[i - 1], p, i)
<1>1. Unfolds(upto, a, p, n)
  BY FramesUnfold DEF Unfolds
<1>2. Frames(a, p) = upto[n]
  BY DEF Frames
<1> HIDE DEF upto
<1> DEFINE T == {i \in Nat : i <= n => Loop(a, p, x, i, upto[i])}
<1>3. 0 \in T
  <2>1. upto[0] = a
    BY <1>1 DEF Unfolds
  <2>2. Loop(a, p, x, 0, a)
    BY DEF Armed, Loop, Same
  <2> QED
    BY <2>1, <2>2
<1>4. ASSUME NEW i \in Nat, i \in T
      PROVE  i + 1 \in T
  <2>1. SUFFICES ASSUME i + 1 <= n PROVE Loop(a, p, x, i + 1, upto[i + 1])
    OBVIOUS
  <2>2. Loop(a, p, x, i, upto[i])
    BY <1>4, <2>1
  <2>3. upto[i + 1] = Frame(upto[i], p, i + 1)
    BY <1>1, <2>1 DEF Unfolds
  <2>4. (i + 1) - 1 = i /\ i + 1 \in Nat \ {0}
    OBVIOUS
  <2> QED
    BY <2>2, <2>3, <2>4, FrameLoops
<1> HIDE DEF T
<1>5. T = Nat
  <2>1. T \in SUBSET Nat
    BY DEF T
  <2> QED
    BY <1>3, <1>4, <2>1, NatSetInduction
<1> QED
  BY <1>2, <1>5 DEF T

(***************************************************************************)
(* Between operations.                                                     *)
(***************************************************************************)
(* A decoder well formed.                                                  *)
Formed(d) ==
  /\ IsDec(d) /\ DecoderOK(d)
  /\ d.prev_redundancy \in BOOLEAN /\ d.transition_pcm \in BOOLEAN /\ d.channels \in {1, 2}

(* Without decode_fec: both resamplers run at the rate they are set up     *)
(* for, that rate is the one concealment will ask for, and CELT is behind  *)
(* SILK's last reset only while CELT is the last mode.                     *)
Restarted(d) ==
  d.prev_internal_rate # 0 =>
    /\ d.silk_resampler = d.prev_internal_rate
    /\ d.channels = 2 => d.silk_resampler_r = d.prev_internal_rate
Tuned(d) ==
  /\ Restarted(d)
  /\ d.channels = 2 /\ d.prev_mode \in {"silk", "hybrid"} =>
       d.prev_internal_rate = Rate(d.prev_mode, d.bandwidth)
  /\ d.channels = 2 /\ d.stale => d.prev_mode = "celt"

(* init_left sets the left resampler up for a rate, unless it is at it.    *)
LEMMA InitLeftIs ==
  ASSUME NEW d, IsDec(d), NEW rate, rate # 0
  PROVE  LET e == InitLeft(d, rate) IN
         /\ Same(d, e, {"silk_resampler", "prev_internal_rate"})
         /\ e.prev_internal_rate = rate
         /\ Restarted(d) => e.silk_resampler = rate
         /\ rate = d.prev_internal_rate => e = d
  BY DEF IsDec, Same, InitLeft, Fields, Restarted

ConcealFields == {"silk_resampler", "prev_internal_rate", "silk_dec", "fs_khz", "celt_dec", "calls"}

(* SILK's part of the concealment.                                         *)
SilkConcealed(d, e, x) ==
  /\ Same(d, e, ConcealFields)
  /\ Sound(e.calls, x) /\ StartFades(e.calls) = StartFades(d.calls)
  /\ e.fs_khz \in Rates /\ e.prev_internal_rate \in Rates \cup {0}
  /\ Tuned(d) => Tuned(e)

(* Concealment by SILK runs at the rate of the last packet: no resampler   *)
(* is left at another.                                                     *)
LEMMA ConcealSilkRuns ==
  ASSUME NEW d, Formed(d), NEW x, Sound(d.calls, x), x.match => Tuned(d),
         d.prev_mode \in {"silk", "hybrid"}
  PROVE  SilkConcealed(d, ConcealSilk(d, Rate(d.prev_mode, d.bandwidth)), x)
<1> DEFINE rate == Rate(d.prev_mode, d.bandwidth)
           right == d.channels = 2
           a == InitLeft(d, rate)
           e == Resample(RunSilk(SetFs(a, rate), "lost", Lost), rate, right)
<1>1. rate \in Rates /\ rate # 0
  BY RateIs
<1>2. ConcealSilk(d, rate) = e
  BY DEF ConcealSilk
<1>3. /\ Same(d, a, {"silk_resampler", "prev_internal_rate"})
      /\ a.prev_internal_rate = rate
      /\ Restarted(d) => a.silk_resampler = rate
      /\ rate = d.prev_internal_rate => a = d
  BY <1>1, InitLeftIs DEF Formed
<1>4. Tuned(d) => a.silk_resampler = rate /\ (right => d.prev_internal_rate = rate /\ d.silk_resampler_r = rate)
  BY <1>1, <1>3 DEF Tuned, Restarted
<1> HIDE DEF rate, a
<1>5. /\ IsDec(a) /\ a.calls = d.calls /\ a.channels = d.channels /\ a.prev_mode = d.prev_mode
      /\ a.bandwidth = d.bandwidth /\ a.stale = d.stale /\ a.silk_resampler_r = d.silk_resampler_r
  BY <1>3 DEF Same, Fields
<1>6. right \in BOOLEAN
  OBVIOUS
<1>7. x.match => a.silk_resampler = rate /\ (right => a.silk_resampler_r = rate)
  BY <1>4, <1>5
<1> HIDE DEF right
<1>8. Runs(a, e, {"silk_dec", "fs_khz"}, x) /\ e.fs_khz = rate
  BY <1>5, <1>6, <1>7, SilkRuns
<1> HIDE DEF e
<1>9. Same(d, e, ConcealFields)
  BY <1>3, <1>8 DEF Runs, Same, ConcealFields
<1>10. /\ e.channels = d.channels /\ e.prev_mode = d.prev_mode /\ e.bandwidth = d.bandwidth
       /\ e.stale = d.stale /\ e.prev_internal_rate = rate
       /\ e.silk_resampler = a.silk_resampler /\ e.silk_resampler_r = d.silk_resampler_r
  BY <1>3, <1>5, <1>8 DEF Runs, Same, Fields
<1>11. Tuned(d) => Tuned(e)
  BY <1>4, <1>10 DEF Tuned, Restarted, right, rate
<1> QED
  BY <1>1, <1>2, <1>5, <1>8, <1>9, <1>10, <1>11 DEF SilkConcealed, Runs, rate

(* The whole concealment.                                                  *)
Concealed(d, e, x) ==
  /\ Same(d, e, ConcealFields \cup {"prev_mode", "prev_redundancy"})
  /\ Sound(e.calls, x) /\ StartFades(e.calls) = StartFades(d.calls)
  /\ Formed(e)
  /\ Tuned(d) => Tuned(e)
  /\ ~d.prev_redundancy => e.prev_mode = d.prev_mode /\ ~e.prev_redundancy

(* decode_lost conceals with whatever decoded last, and keeps the decoder  *)
(* well formed and tuned.                                                  *)
LEMMA ConcealRuns ==
  ASSUME NEW d, Formed(d), NEW x, Sound(d.calls, x), x.match => Tuned(d)
  PROVE  Concealed(d, Conceal(d), x)
<1> DEFINE mode == PlcMode(d)
           silk == IF mode \in {"silk", "hybrid"} THEN ConcealSilk(d, Rate(mode, d.bandwidth)) ELSE d
           both == IF mode \in {"celt", "hybrid"} THEN ConcealCelt(silk) ELSE silk
           e == Conceal(d)
<1>1. CASE d.prev_mode = "none"
  <2>1. e = d
    BY <1>1 DEF Conceal
  <2> QED
    BY <1>1, <2>1 DEF Concealed, Same, Formed
<1>2. CASE d.prev_mode # "none"
  <2>1. e = [both EXCEPT !.prev_mode = mode, !.prev_redundancy = FALSE]
    BY <1>2 DEF Conceal
  <2>2. /\ mode \in Modes
        /\ mode = IF d.prev_redundancy THEN "celt" ELSE d.prev_mode
        /\ mode \in {"silk", "hybrid"} => mode = d.prev_mode
    BY <1>2 DEF PlcMode, Formed, DecoderOK, Modes
  <2> HIDE DEF mode, e
  <2>3. SilkConcealed(d, silk, x)
    <3>1. CASE mode \in {"silk", "hybrid"}
      BY <2>2, <3>1, ConcealSilkRuns
    <3>2. CASE mode \notin {"silk", "hybrid"}
      BY <3>2 DEF SilkConcealed, Same, Formed, DecoderOK
    <3> QED
      BY <3>1, <3>2
  <2> HIDE DEF silk
  <2>4. Runs(silk, both, {"celt_dec"}, x)
    <3>1. IsDec(silk) /\ Sound(silk.calls, x)
      BY <2>3 DEF SilkConcealed, Same
    <3> QED
      BY <3>1, ConcealCeltRuns DEF Runs, Same
  <2> HIDE DEF both
  <2>5. /\ Same(both, e, {"prev_mode", "prev_redundancy"})
        /\ e.prev_mode = mode /\ e.prev_redundancy = FALSE
    BY <2>1, <2>4 DEF Runs, IsDec, Same, Fields
  <2>6. Same(d, e, ConcealFields \cup {"prev_mode", "prev_redundancy"})
    BY <2>3, <2>4, <2>5 DEF SilkConcealed, Runs, Same, ConcealFields, Fields
  <2>7. /\ e.calls = both.calls /\ e.fs_khz = silk.fs_khz
        /\ e.prev_internal_rate = silk.prev_internal_rate
        /\ e.silk_resampler = silk.silk_resampler
        /\ silk.channels = d.channels /\ silk.prev_mode = d.prev_mode /\ silk.bandwidth = d.bandwidth
        /\ silk.stale = d.stale /\ silk.silk_resampler_r = d.silk_resampler_r
    BY <2>3, <2>4, <2>5 DEF SilkConcealed, Runs, Same, ConcealFields, Fields
  <2>8. /\ e.channels = d.channels /\ e.bandwidth = d.bandwidth /\ e.stale = d.stale
        /\ e.silk_resampler_r = d.silk_resampler_r /\ e.n_channels_internal = d.n_channels_internal
        /\ e.transition_pcm = d.transition_pcm /\ e.transition_pending = d.transition_pending
    BY <2>6 DEF Same, ConcealFields, Fields
  <2>9. Formed(e)
    <3>1. IsDec(e) /\ e.fs_khz \in Rates /\ e.prev_internal_rate \in Rates \cup {0}
      BY <2>3, <2>6, <2>7 DEF SilkConcealed, Same
    <3>2. e.prev_mode \in Modes \cup {"none"} /\ e.prev_redundancy \in BOOLEAN
      BY <2>2, <2>5
    <3> QED
      BY <2>8, <3>1, <3>2 DEF Formed, DecoderOK
  <2>10. Tuned(d) => Tuned(e)
    <3>1. SUFFICES ASSUME Tuned(d) PROVE Tuned(e)
      OBVIOUS
    <3>2. Tuned(silk)
      BY <2>3, <3>1 DEF SilkConcealed
    <3>3. Restarted(e)
      BY <2>7, <2>8, <3>2 DEF Tuned, Restarted
    <3>4. e.prev_mode \in {"silk", "hybrid"} => e.prev_mode = d.prev_mode
      BY <2>2, <2>5
    <3>5. e.channels = 2 /\ e.prev_mode \in {"silk", "hybrid"} =>
             e.prev_internal_rate = Rate(e.prev_mode, e.bandwidth)
      BY <2>7, <2>8, <3>2, <3>4 DEF Tuned
    <3>6. e.channels = 2 /\ e.stale => e.prev_mode = "celt"
      BY <2>2, <2>5, <2>8, <3>1 DEF Tuned
    <3> QED
      BY <3>3, <3>5, <3>6 DEF Tuned
  <2>11. Sound(e.calls, x) /\ StartFades(e.calls) = StartFades(d.calls)
    BY <2>3, <2>4, <2>7 DEF SilkConcealed, Runs
  <2> QED
    <3>1. ~d.prev_redundancy => e.prev_mode = d.prev_mode /\ ~e.prev_redundancy
      BY <2>2, <2>5
    <3> QED
      BY <2>6, <2>9, <2>10, <2>11, <3>1 DEF Concealed, e
<1> QED
  BY <1>1, <1>2

(***************************************************************************)
(* A packet.                                                               *)
(***************************************************************************)
(* What is asked of the calls of decode(p) on d, nofec or not.             *)
Asked(d, p, nofec) ==
  [match |-> nofec, fresh |-> nofec /\ d.channels = 2, quiet |-> FALSE,
   to_silk |-> d.prev_mode = "celt", main |-> p.mode = "celt" /\ d.prev_redundancy,
   at |-> d.celt_dec]

(* A packet that enters CELT from SILK without redundancy, and one that    *)
(* leaves CELT.                                                            *)
Enters(d, p) == p.mode = "celt" /\ d.prev_mode \in {"silk", "hybrid"} /\ ~d.prev_redundancy
Leaves(d, p) == p.mode # "celt" /\ d.prev_mode = "celt"

PreparedFields == ConcealFields \cup {"prev_redundancy", "first_frame_redundancy", "bandwidth",
                                     "transition_pcm", "transition_pending", "stale"}

(* What the head of decode() does about a change of mode.                  *)
TransitionEffect(d, e, p, x) ==
  /\ Same(d, e, ConcealFields \cup {"prev_mode", "prev_redundancy", "transition_pcm", "transition_pending"})
  /\ e.prev_mode = d.prev_mode
  /\ Sound(e.calls, x) /\ StartFades(e.calls) = StartFades(d.calls)
  /\ e.fs_khz \in Rates /\ e.prev_internal_rate \in Rates \cup {0}
  /\ e.prev_redundancy \in BOOLEAN /\ (e.prev_redundancy <=> d.prev_redundancy)
  /\ e.transition_pcm \in BOOLEAN /\ (e.transition_pcm <=> Enters(d, p))
  /\ e.transition_pending <=> Leaves(d, p)
  /\ ~Enters(d, p) => e.celt_dec = d.celt_dec
  /\ Tuned(d) => Restarted(e)

(* On the way to CELT concealment is run at once; on the way from it, it   *)
(* is owed to the first frame, and CELT is left as it was.                 *)
LEMMA TransitionRuns ==
  ASSUME NEW d, Formed(d), NEW x, Sound(d.calls, x), x.match => Tuned(d), NEW p, p.mode \in Modes
  PROVE  TransitionEffect(d, Transition(d, p), p, x)
<1> DEFINE e == Transition(d, p)
<1>1. CASE d.prev_mode = "none"
  BY <1>1 DEF Transition, TransitionEffect, Formed, DecoderOK, Same, Enters, Leaves, Tuned
<1>2. CASE d.prev_mode # "none" /\ Enters(d, p)
  <2> DEFINE c == Conceal(d)
  <2>1. Concealed(d, c, x)
    BY ConcealRuns
  <2>2. e = [c EXCEPT !.transition_pcm = TRUE]
    BY <1>2 DEF Transition, Enters
  <2> HIDE DEF c, e
  <2>3. Same(c, e, {"transition_pcm"}) /\ e.transition_pcm = TRUE
    BY <2>1, <2>2 DEF Concealed, Same, IsDec, Fields
  <2>4. Same(d, e, ConcealFields \cup {"prev_mode", "prev_redundancy", "transition_pcm", "transition_pending"})
    BY <2>1, <2>3 DEF Concealed, Same, ConcealFields
  <2>5. /\ e.prev_mode = c.prev_mode /\ e.prev_redundancy = c.prev_redundancy /\ e.calls = c.calls
        /\ e.fs_khz = c.fs_khz /\ e.prev_internal_rate = c.prev_internal_rate
        /\ e.transition_pending = c.transition_pending /\ e.silk_resampler = c.silk_resampler
        /\ e.silk_resampler_r = c.silk_resampler_r /\ e.channels = c.channels
    BY <2>3 DEF Same, Fields
  <2>6. Tuned(d) => Restarted(e)
    BY <2>1, <2>5 DEF Concealed, Tuned, Restarted
  <2>7. ~e.transition_pending /\ ~Leaves(d, p) /\ ~e.prev_redundancy /\ ~d.prev_redundancy
        /\ e.prev_mode = d.prev_mode
    BY <1>2, <2>1, <2>5 DEF Concealed, Formed, DecoderOK, Leaves, Enters
  <2>8. e.fs_khz \in Rates /\ e.prev_internal_rate \in Rates \cup {0} /\ e.prev_redundancy \in BOOLEAN
    BY <2>1, <2>5 DEF Concealed, Formed, DecoderOK
  <2>9. Sound(e.calls, x) /\ StartFades(e.calls) = StartFades(d.calls)
    BY <2>1, <2>5 DEF Concealed
  <2> QED
    BY <1>2, <2>3, <2>4, <2>6, <2>7, <2>8, <2>9 DEF TransitionEffect, e
<1>3. CASE d.prev_mode # "none" /\ ~Enters(d, p)
  <2>1. e = [d EXCEPT !.transition_pending = Leaves(d, p)]
    BY <1>3 DEF Transition, Enters, Leaves, Formed, DecoderOK, Modes
  <2> HIDE DEF e
  <2>2. Same(d, e, {"transition_pending"}) /\ e.transition_pending = Leaves(d, p)
    BY <2>1 DEF Formed, Same, IsDec, Fields
  <2>3. /\ e.prev_mode = d.prev_mode /\ e.prev_redundancy = d.prev_redundancy /\ e.calls = d.calls
        /\ e.fs_khz = d.fs_khz /\ e.prev_internal_rate = d.prev_internal_rate
        /\ e.transition_pcm = d.transition_pcm /\ e.silk_resampler = d.silk_resampler
        /\ e.silk_resampler_r = d.silk_resampler_r /\ e.channels = d.channels
        /\ e.celt_dec = d.celt_dec
    BY <2>2 DEF Same, Fields
  <2>4. Same(d, e, ConcealFields \cup {"prev_mode", "prev_redundancy", "transition_pcm", "transition_pending"})
    BY <2>2 DEF Same
  <2>5. Tuned(d) => Restarted(e)
    BY <2>3 DEF Tuned, Restarted
  <2>6. ~e.transition_pcm /\ e.fs_khz \in Rates /\ e.prev_internal_rate \in Rates \cup {0}
        /\ e.prev_redundancy \in BOOLEAN /\ e.transition_pcm \in BOOLEAN
    BY <2>3 DEF Formed, DecoderOK
  <2> QED
    BY <1>3, <2>2, <2>3, <2>4, <2>5, <2>6 DEF TransitionEffect, e
<1> QED
  BY <1>1, <1>2, <1>3

(* Then SILK is reset after CELT.                                          *)
PrepareEffect(d, e, p, x) ==
  /\ Same(d, e, PreparedFields)
  /\ Sound(e.calls, x) /\ StartFades(e.calls) = StartFades(d.calls)
  /\ e.fs_khz \in Rates /\ e.prev_internal_rate \in Rates \cup {0}
  /\ e.prev_redundancy \in BOOLEAN /\ (e.prev_redundancy <=> d.prev_redundancy)
  /\ e.transition_pcm \in BOOLEAN /\ (e.transition_pcm <=> Enters(d, p))
  /\ e.transition_pending <=> Leaves(d, p)
  /\ ~Enters(d, p) => e.celt_dec = d.celt_dec
  /\ e.bandwidth = p.bw /\ ~e.first_frame_redundancy
  /\ Tuned(d) => Restarted(e)
  /\ Tuned(d) /\ d.channels = 2 /\ p.mode # "celt" => ~e.stale

(* After the head of decode(), SILK is not behind CELT for a packet that   *)
(* has SILK in it.                                                         *)
LEMMA PrepareRuns ==
  ASSUME NEW d, Formed(d), NEW x, Sound(d.calls, x), x.match => Tuned(d), NEW p, p.mode \in Modes
  PROVE  PrepareEffect(d, Prepare(d, p), p, x)
<1> DEFINE a == Transition(d, p)
           b == LeaveCelt(a, p)
           e == Prepare(d, p)
<1>1. TransitionEffect(d, a, p, x)
  BY TransitionRuns
<1> HIDE DEF a
<1>2. /\ IsDec(a) /\ a.prev_mode = d.prev_mode /\ a.stale = d.stale /\ a.channels = d.channels
  BY <1>1 DEF TransitionEffect, Same, Fields, ConcealFields
<1>3. /\ Same(a, b, {"silk_dec", "prev_internal_rate", "stale"})
      /\ Leaves(d, p) => b.prev_internal_rate = 0 /\ ~b.stale
      /\ ~Leaves(d, p) => b = a
  BY <1>2 DEF LeaveCelt, IsDec, Same, Fields, Leaves
<1>4. e = [b EXCEPT !.first_frame_redundancy = FALSE, !.bandwidth = p.bw]
  BY DEF Prepare, a
<1> HIDE DEF b, e
<1>5. /\ Same(b, e, {"first_frame_redundancy", "bandwidth"})
      /\ e.bandwidth = p.bw /\ e.first_frame_redundancy = FALSE
  BY <1>3, <1>4 DEF IsDec, Same, Fields
<1>6. /\ e.calls = a.calls /\ e.fs_khz = a.fs_khz /\ e.prev_redundancy = a.prev_redundancy
      /\ e.transition_pcm = a.transition_pcm /\ e.transition_pending = a.transition_pending
      /\ e.celt_dec = a.celt_dec /\ e.prev_internal_rate = b.prev_internal_rate /\ e.stale = b.stale
      /\ e.channels = a.channels /\ e.silk_resampler = a.silk_resampler
      /\ e.silk_resampler_r = a.silk_resampler_r
  BY <1>3, <1>5 DEF Same, Fields
<1>7. Same(d, e, PreparedFields)
  BY <1>1, <1>2, <1>3, <1>5 DEF TransitionEffect, Same, PreparedFields, ConcealFields, Fields
<1>8. e.prev_internal_rate \in Rates \cup {0} /\ (Tuned(d) => Restarted(e))
  BY <1>1, <1>3, <1>6 DEF TransitionEffect, Restarted
<1>9. Tuned(d) /\ d.channels = 2 /\ p.mode # "celt" => ~e.stale
  BY <1>2, <1>3, <1>6 DEF Tuned, Leaves
<1> QED
  BY <1>1, <1>5, <1>6, <1>7, <1>8, <1>9 DEF TransitionEffect, PrepareEffect, e

(* The arm's head for SILK and hybrid: both resamplers at the packet's     *)
(* rate.                                                                   *)
ArmFields == {"silk_resampler", "silk_resampler_r", "prev_internal_rate", "n_channels_internal"}

(* The head of the SILK and hybrid arms sets both resamplers up for the    *)
(* packet's rate.                                                          *)
LEMMA SilkArmIs ==
  ASSUME NEW d, IsDec(d), NEW p, p.mode # "celt"
  PROVE  LET e == Arm(d, p) IN
         /\ Same(d, e, ArmFields)
         /\ e.prev_internal_rate = Rate(p.mode, p.bw)
         /\ e.n_channels_internal = p.ch
         /\ Restarted(d) => /\ e.silk_resampler = Rate(p.mode, p.bw)
                            /\ d.channels = 2 => e.silk_resampler_r = Rate(p.mode, p.bw)
<1> DEFINE rate == Rate(p.mode, p.bw)
           a == InitResamplers(d, rate)
           e == SwitchChannels(a, p)
<1>1. Arm(d, p) = e
  BY DEF Arm
<1>2. rate # 0
  BY RateIs
<1> HIDE DEF rate
<1>3. /\ Same(d, a, {"silk_resampler", "silk_resampler_r", "prev_internal_rate"})
      /\ a.prev_internal_rate = rate
      /\ Restarted(d) => a.silk_resampler = rate /\ (d.channels = 2 => a.silk_resampler_r = rate)
  BY <1>2 DEF InitResamplers, IsDec, Same, Fields, Restarted
<1> HIDE DEF a
<1>4. /\ Same(a, e, {"n_channels_internal", "silk_resampler_r"})
      /\ e.n_channels_internal = p.ch
      /\ e.silk_resampler_r \in {a.silk_resampler_r, a.silk_resampler}
  BY <1>3 DEF SwitchChannels, IsDec, Same, Fields
<1> HIDE DEF e
<1>5. Same(d, e, ArmFields) /\ e.silk_resampler = a.silk_resampler
      /\ e.prev_internal_rate = a.prev_internal_rate
  BY <1>3, <1>4 DEF Same, ArmFields, Fields
<1>6. Restarted(d) => e.silk_resampler = rate /\ (d.channels = 2 => e.silk_resampler_r = rate)
  BY <1>3, <1>4, <1>5
<1> QED
  BY <1>1, <1>3, <1>4, <1>5, <1>6 DEF rate

(* The head of the CELT arm resets CELT after another mode, unless         *)
(* redundancy came before.                                                 *)
LEMMA CeltArmIs ==
  ASSUME NEW d, IsDec(d), NEW p, p.mode = "celt"
  PROVE  LET e == Arm(d, p) IN
         /\ Same(d, e, {"celt_dec", "prev_redundancy"})
         /\ e.prev_redundancy = FALSE
         /\ d.prev_redundancy => e.celt_dec = d.celt_dec
<1> DEFINE a == ResetOnSwitch(d, "celt")
           e == Arm(d, p)
<1>1. Same(d, a, {"celt_dec"}) /\ (d.prev_redundancy => a = d)
  BY ResetOnSwitchIs
<1>2. e = [a EXCEPT !.prev_redundancy = FALSE]
  BY DEF Arm
<1> HIDE DEF a, e
<1>3. Same(a, e, {"prev_redundancy"}) /\ e.prev_redundancy = FALSE
  BY <1>1, <1>2 DEF Same, IsDec, Fields
<1>4. e.celt_dec = a.celt_dec
  BY <1>3 DEF Same, Fields
<1> QED
  BY <1>1, <1>3, <1>4 DEF Same, e

(* The decoder when the frames of p begin.                                 *)
ArmedEffect(d, e, p, x) ==
  /\ Same(d, e, PreparedFields \cup ArmFields)
  /\ Armed(e, p, x) /\ StartFades(e.calls) = StartFades(d.calls)
  /\ e.prev_internal_rate \in Rates \cup {0} /\ e.n_channels_internal \in {1, 2}
  /\ e.transition_pcm <=> Enters(d, p)
  /\ e.transition_pending <=> Leaves(d, p)
  /\ e.bandwidth = p.bw
  /\ Tuned(d) => Restarted(e)
  /\ Tuned(d) /\ d.channels = 2 /\ p.mode # "celt" => ~e.stale
  /\ p.mode # "celt" => e.prev_internal_rate = Rate(p.mode, p.bw)

(* What PacketsAssumption says of a packet.                                *)
PacketOK(p) ==
  /\ p.mode \in Modes /\ p.ch \in {1, 2}
  /\ Len(p.frames) \in Nat \ {0}
  /\ \A i \in 1 .. Len(p.frames) : p.frames[i].red \in Reds

(* When the frames begin, the decoder is ready for them.                   *)
LEMMA ArmRuns ==
  ASSUME NEW d, Formed(d), NEW nofec \in BOOLEAN, nofec => Tuned(d), NEW p, PacketOK(p),
         Sound(d.calls, Asked(d, p, nofec))
  PROVE  ArmedEffect(d, Arm(Prepare(d, p), p), p, Asked(d, p, nofec))
<1> DEFINE x == Asked(d, p, nofec)
           g == Prepare(d, p)
           e == Arm(g, p)
<1>1. /\ ~x.quiet /\ x.match = nofec /\ x.fresh = (nofec /\ d.channels = 2)
      /\ x.to_silk = (d.prev_mode = "celt") /\ x.main = (p.mode = "celt" /\ d.prev_redundancy)
      /\ x.at = d.celt_dec
  BY DEF Asked
<1> HIDE DEF x
<1>2. p.mode \in Modes /\ Sound(d.calls, x)
  BY DEF PacketOK, x
<1>3. PrepareEffect(d, g, p, x)
  BY <1>1, <1>2, PrepareRuns
<1> HIDE DEF g
<1>4. /\ IsDec(g) /\ g.channels = d.channels /\ g.n_channels_internal = d.n_channels_internal
  BY <1>3 DEF PrepareEffect, Same, Fields, PreparedFields, ConcealFields
<1>5. CASE p.mode = "celt"
  <2>1. /\ Same(g, e, {"celt_dec", "prev_redundancy"})
        /\ e.prev_redundancy = FALSE
        /\ g.prev_redundancy => e.celt_dec = g.celt_dec
    BY <1>4, <1>5, CeltArmIs
  <2> HIDE DEF e
  <2>2. /\ e.calls = g.calls /\ e.fs_khz = g.fs_khz /\ e.transition_pcm = g.transition_pcm
        /\ e.transition_pending = g.transition_pending /\ e.prev_internal_rate = g.prev_internal_rate
        /\ e.n_channels_internal = g.n_channels_internal /\ e.bandwidth = g.bandwidth
        /\ e.channels = g.channels /\ e.silk_resampler = g.silk_resampler
        /\ e.silk_resampler_r = g.silk_resampler_r
    BY <2>1 DEF Same, Fields
  <2>3. Same(d, e, PreparedFields \cup ArmFields)
    BY <1>3, <2>1 DEF PrepareEffect, Same, PreparedFields, ConcealFields, Fields
  <2>4. x.main => e.celt_dec = x.at
    BY <1>1, <1>3, <2>1 DEF PrepareEffect, Enters
  <2>5. Armed(e, p, x)
    BY <1>1, <1>2, <1>3, <1>5, <2>1, <2>2, <2>4 DEF Armed, PrepareEffect, Same
  <2>6. Tuned(d) => Restarted(e)
    BY <1>3, <2>2 DEF PrepareEffect, Restarted
  <2>7. e.n_channels_internal \in {1, 2}
    BY <1>4, <2>2 DEF Formed, DecoderOK
  <2> QED
    BY <1>3, <1>5, <2>2, <2>3, <2>5, <2>6, <2>7 DEF ArmedEffect, PrepareEffect, e, g, x
<1>6. CASE p.mode # "celt"
  <2>1. /\ Same(g, e, ArmFields)
        /\ e.prev_internal_rate = Rate(p.mode, p.bw)
        /\ e.n_channels_internal = p.ch
        /\ Restarted(g) => /\ e.silk_resampler = Rate(p.mode, p.bw)
                           /\ g.channels = 2 => e.silk_resampler_r = Rate(p.mode, p.bw)
    BY <1>4, <1>6, SilkArmIs
  <2> HIDE DEF e
  <2>2. /\ e.calls = g.calls /\ e.fs_khz = g.fs_khz /\ e.transition_pcm = g.transition_pcm
        /\ e.transition_pending = g.transition_pending /\ e.bandwidth = g.bandwidth
        /\ e.channels = g.channels /\ e.celt_dec = g.celt_dec /\ e.stale = g.stale
        /\ e.prev_redundancy = g.prev_redundancy
    BY <2>1 DEF Same, Fields, ArmFields
  <2>3. Same(d, e, PreparedFields \cup ArmFields)
    BY <1>3, <2>1 DEF PrepareEffect, Same
  <2>4. Tuned(d) => SilkReady(e, p, x)
    BY <1>1, <1>3, <1>4, <1>6, <2>1, <2>2 DEF PrepareEffect, SilkReady
  <2>5. SilkReady(e, p, x)
    BY <1>1, <2>4 DEF SilkReady
  <2>6. ~x.main /\ (x.to_silk => e.celt_dec = x.at)
    BY <1>1, <1>3, <1>6, <2>2 DEF PrepareEffect, Enters
  <2>7. Armed(e, p, x)
    BY <1>1, <1>2, <1>3, <1>6, <2>1, <2>2, <2>5, <2>6 DEF Armed, PrepareEffect, Same
  <2>8. Tuned(d) => Restarted(e)
    BY <1>3, <1>4, <2>1, <2>2 DEF PrepareEffect, Restarted
  <2>9. e.n_channels_internal \in {1, 2} /\ e.prev_internal_rate \in Rates
    BY <2>1, RateIs DEF PacketOK
  <2> QED
    BY <1>3, <1>6, <2>1, <2>2, <2>3, <2>7, <2>8, <2>9 DEF ArmedEffect, PrepareEffect, e, g, x
<1> QED
  BY <1>5, <1>6

(* What decode(p) makes of the decoder d, whose calls are cleared.         *)
DecodedEffect(d, e, p, nofec) ==
  /\ Formed(e) /\ e.channels = d.channels /\ e.prev_mode = p.mode
  /\ nofec => Tuned(e)
  /\ Sound(e.calls, Asked(d, p, nofec))
  /\ \A j, k \in StartFades(e.calls) : j = k
  /\ Leaves(d, p) => StartFades(e.calls) # {} \/ e.first_frame_redundancy
  /\ p.mode = "celt" => (StartFades(e.calls) # {} <=> Enters(d, p))

(* A packet decoded: the decoder is well formed and tuned, the calls       *)
(* sound; at most one fade starts it, on the way from CELT one does or the *)
(* first frame had redundancy, and into CELT exactly if concealment was    *)
(* run.                                                                    *)
LEMMA DecodePrimaryRuns ==
  ASSUME NEW d, Formed(d), NEW nofec \in BOOLEAN, nofec => Tuned(d), NEW p, PacketOK(p),
         Sound(d.calls, Asked(d, p, nofec)), StartFades(d.calls) = {}
  PROVE  DecodedEffect(d, DecodePrimary(d, p), p, nofec)
<1> DEFINE x == Asked(d, p, nofec)
           a == Arm(Prepare(d, p), p)
           n == Len(p.frames)
           u == Frames(a, p)
           t == TransitionFade(u, p)
           e == Finish(u, p)
           fading == u.transition_pcm /\ ~(p.mode # "celt" /\ u.first_frame_redundancy)
           c == [op |-> "fade", i |-> 1, at |-> "transition"]
<1>0. DecodePrimary(d, p) = e
  BY DEF DecodePrimary
<1>1. ArmedEffect(d, a, p, x)
  BY ArmRuns
<1> HIDE DEF a, x
<1>2. n \in Nat /\ n # 0 /\ p.mode \in Modes /\ p.frames[1].red \in Reds
  BY DEF PacketOK
<1>3. Loop(a, p, x, n, u)
  BY <1>1, <1>2, FramesLoop DEF ArmedEffect
<1> HIDE DEF u, n
<1>4. /\ IsDec(u) /\ Sound(u.calls, x)
      /\ u.channels = d.channels /\ u.prev_internal_rate = a.prev_internal_rate
      /\ u.bandwidth = a.bandwidth /\ u.silk_resampler = a.silk_resampler
      /\ u.silk_resampler_r = a.silk_resampler_r /\ u.n_channels_internal = a.n_channels_internal
      /\ a.channels = d.channels
  BY <1>1, <1>3 DEF ArmedEffect, Loop, Same, Fields, FrameFields, PreparedFields, ArmFields,
                    ConcealFields
<1>5. Good(c, x) /\ StartFade(c)
  BY DEF Good, StartFade, Decoding
<1>6. t = IF fading THEN [u EXCEPT !.calls = Append(u.calls, c)] ELSE u
  BY DEF TransitionFade, Fade, Call
<1>7. e = [t EXCEPT !.prev_mode = p.mode, !.transition_pending = FALSE, !.transition_pcm = FALSE]
  BY DEF Finish
<1> HIDE DEF t, c, e
<1>8. /\ Same(u, t, {"calls"})
      /\ fading => t.calls = Append(u.calls, c)
      /\ ~fading => t.calls = u.calls
  BY <1>4, <1>6 DEF IsDec, Same, Fields
<1>9. /\ Sound(t.calls, x)
      /\ fading => StartFades(t.calls) = StartFades(u.calls) \cup {Len(u.calls) + 1}
      /\ ~fading => StartFades(t.calls) = StartFades(u.calls)
  <2>1. /\ Sound(Append(u.calls, c), x)
        /\ StartFades(Append(u.calls, c)) = StartFades(u.calls) \cup {Len(u.calls) + 1}
    BY <1>4, <1>5, Logged
  <2> HIDE DEF fading
  <2> QED
    BY <1>4, <1>8, <2>1
<1>10. /\ Same(t, e, {"prev_mode", "transition_pending", "transition_pcm"})
       /\ e.prev_mode = p.mode /\ e.transition_pending = FALSE /\ e.transition_pcm = FALSE
  BY <1>7, <1>8 DEF Same, IsDec, Fields
<1>11. /\ e.calls = t.calls /\ e.channels = u.channels /\ e.prev_internal_rate = u.prev_internal_rate
       /\ e.bandwidth = u.bandwidth /\ e.silk_resampler = u.silk_resampler
       /\ e.silk_resampler_r = u.silk_resampler_r /\ e.n_channels_internal = u.n_channels_internal
       /\ e.fs_khz = u.fs_khz /\ e.prev_redundancy = u.prev_redundancy /\ e.stale = u.stale
       /\ e.first_frame_redundancy = u.first_frame_redundancy
  BY <1>8, <1>10 DEF Same, Fields
<1>12. Formed(e)
  BY <1>1, <1>2, <1>3, <1>4, <1>10, <1>11 DEF Formed, DecoderOK, ArmedEffect, Loop, Same
<1>13. nofec => Tuned(e)
  <2>1. SUFFICES ASSUME nofec PROVE Tuned(e)
    OBVIOUS
  <2>2. Restarted(e)
    BY <1>1, <1>4, <1>11, <2>1 DEF ArmedEffect, Restarted
  <2>3. e.prev_mode \in {"silk", "hybrid"} => e.prev_internal_rate = Rate(e.prev_mode, e.bandwidth)
    BY <1>1, <1>4, <1>10, <1>11 DEF ArmedEffect
  <2>4. e.channels = 2 /\ e.stale => e.prev_mode = "celt"
    BY <1>1, <1>3, <1>4, <1>10, <1>11, <2>1 DEF ArmedEffect, Loop
  <2> QED
    BY <2>2, <2>3, <2>4 DEF Tuned
<1>14. /\ a.transition_pcm <=> Enters(d, p)
       /\ a.transition_pending <=> Leaves(d, p)
       /\ StartFades(a.calls) = {}
  BY <1>1 DEF ArmedEffect
<1> DEFINE f == p.frames[1]
<1>15. CASE p.mode = "celt"
  <2>1. fading <=> Enters(d, p)
    BY <1>3, <1>14, <1>15 DEF Loop
  <2>2. StartFades(u.calls) = {}
    BY <1>3, <1>14, <1>15 DEF Loop
  <2>3. /\ \A j, k \in StartFades(e.calls) : j = k
        /\ StartFades(e.calls) # {} <=> fading
    <3>1. ~fading => StartFades(e.calls) = {}
      BY <1>9, <1>11, <2>2
    <3>2. fading => StartFades(e.calls) = {Len(u.calls) + 1}
      BY <1>9, <1>11, <2>2
    <3> HIDE DEF fading
    <3> QED
      BY <3>1, <3>2
  <2>4. ~Leaves(d, p)
    BY <1>15 DEF Leaves
  <2> QED
    <3> HIDE DEF fading
    <3> QED
      BY <1>0, <1>4, <1>9, <1>10, <1>11, <1>12, <1>13, <1>15, <2>1, <2>3, <2>4 DEF DecodedEffect, x
<1>16. CASE p.mode # "celt"
  <2>1. /\ u.transition_pcm <=> (Due(a, 1, f) \/ a.transition_pcm)
        /\ u.first_frame_redundancy <=> f.red \in {"to_silk", "to_celt"}
        /\ StartsWith(1, f) => \E k : StartFades(u.calls) = {k}
        /\ ~StartsWith(1, f) => StartFades(u.calls) = {}
    BY <1>2, <1>3, <1>14, <1>16 DEF Loop
  <2>2. StartsWith(1, f) => u.first_frame_redundancy
    BY <2>1 DEF StartsWith
  <2>3. StartsWith(1, f) => ~fading
    BY <1>16, <2>2
  <2>4. \A j, k \in StartFades(e.calls) : j = k
    <3> HIDE DEF fading
    <3> QED
      BY <1>9, <1>11, <2>1, <2>3
  <2>5. Leaves(d, p) => StartFades(e.calls) # {} \/ e.first_frame_redundancy
    <3>1. Leaves(d, p) /\ ~u.first_frame_redundancy => Due(a, 1, f)
      BY <1>2, <1>14, <2>1 DEF Due, Reds
    <3>2. Leaves(d, p) => fading \/ u.first_frame_redundancy
      BY <2>1, <3>1
    <3> HIDE DEF fading
    <3> QED
      BY <1>9, <1>11, <3>2
  <2> QED
    BY <1>0, <1>4, <1>9, <1>10, <1>11, <1>12, <1>13, <1>16, <2>4, <2>5 DEF DecodedEffect, x
<1> QED
  BY <1>15, <1>16

(***************************************************************************)
(* The operations.                                                         *)
(***************************************************************************)
(* What is asked of the calls of an operation that decodes no packet.      *)
Conceals(match) ==
  [match |-> match, fresh |-> TRUE, quiet |-> TRUE, to_silk |-> FALSE, main |-> FALSE, at |-> Fresh]

(* An operation starts with no calls logged.                               *)
LEMMA ClearIs ==
  ASSUME NEW d, Formed(d), NEW x
  PROVE  LET e == Clear(d) IN
         /\ Formed(e)
         /\ Tuned(d) => Tuned(e)
         /\ Sound(e.calls, x) /\ StartFades(e.calls) = {}
         /\ DOMAIN e.calls = {}
         /\ e.channels = d.channels /\ e.prev_mode = d.prev_mode
         /\ e.prev_redundancy = d.prev_redundancy /\ e.celt_dec = d.celt_dec
<1> DEFINE e == Clear(d)
<1>1. Same(d, e, {"calls"}) /\ e.calls = <<>>
  BY DEF Clear, Formed, Same, IsDec, Fields
<1> HIDE DEF e
<1>2. Log(e.calls) /\ DOMAIN e.calls = {}
  BY <1>1 DEF Log
<1>3. Sound(e.calls, x) /\ StartFades(e.calls) = {}
  BY <1>2 DEF Sound, StartFades
<1>4. Formed(e)
  BY <1>1 DEF Formed, DecoderOK, Same, Fields
<1>5. Tuned(d) => Tuned(e)
  BY <1>1 DEF Tuned, Restarted, Same, Fields
<1>6. /\ e.channels = d.channels /\ e.prev_mode = d.prev_mode
      /\ e.prev_redundancy = d.prev_redundancy /\ e.celt_dec = d.celt_dec
  BY <1>1 DEF Same, Fields
<1> QED
  BY <1>2, <1>3, <1>4, <1>5, <1>6 DEF e

(* A step of one decoder, from d to e.                                     *)
Moves(d, e, nofec) ==
  /\ Formed(e) /\ e.channels = d.channels
  /\ nofec => Tuned(e)
  /\ \E x : x.match = nofec /\ x.fresh = (nofec /\ d.channels = 2) /\ Sound(e.calls, x)
  /\ Smoothed(d, e) /\ Continues(d, e)

(* decode() of a packet is such a step.                                    *)
LEMMA DecodeMoves ==
  ASSUME NEW d, Formed(d), NEW nofec \in BOOLEAN, nofec => Tuned(d), NEW p, PacketOK(p)
  PROVE  Moves(d, DecodePrimary(Clear(d), p), nofec)
<1> DEFINE c == Clear(d)
           x == Asked(c, p, nofec)
           e == DecodePrimary(c, p)
<1>1. /\ Formed(c) /\ (nofec => Tuned(c))
      /\ Sound(c.calls, x) /\ StartFades(c.calls) = {}
      /\ c.channels = d.channels /\ c.prev_mode = d.prev_mode
      /\ c.prev_redundancy = d.prev_redundancy /\ c.celt_dec = d.celt_dec
  BY ClearIs
<1> HIDE DEF c
<1>2. DecodedEffect(c, e, p, nofec)
  BY <1>1, DecodePrimaryRuns
<1> HIDE DEF e
<1>3. /\ x.match = nofec /\ x.fresh = (nofec /\ d.channels = 2) /\ Sound(e.calls, x)
      /\ x.to_silk = (d.prev_mode = "celt") /\ x.main = (p.mode = "celt" /\ d.prev_redundancy)
      /\ x.at = d.celt_dec
  BY <1>1, <1>2 DEF DecodedEffect, Asked
<1> HIDE DEF x
<1>4. Smoothed(d, e)
  <2>1. e.prev_mode = p.mode /\ (\A j, k \in StartFades(e.calls) : j = k)
    BY <1>2 DEF DecodedEffect
  <2>2. d.prev_mode = "celt" /\ e.prev_mode # "celt" => StartFades(e.calls) # {} \/ e.first_frame_redundancy
    BY <1>1, <1>2, <2>1 DEF DecodedEffect, Leaves
  <2>3. ASSUME d.prev_mode \notin {"none", "celt"}, e.prev_mode = "celt"
        PROVE  (StartFades(e.calls) = {}) = d.prev_redundancy
    <3>1. (StartFades(e.calls) # {}) <=> ~d.prev_redundancy
      BY <1>1, <1>2, <2>1, <2>3 DEF DecodedEffect, Enters, Formed, DecoderOK, Modes
    <3> QED
      BY <3>1 DEF Formed
  <2> QED
    BY <2>1, <2>2, <2>3 DEF Smoothed
<1>5. Continues(d, e)
  BY <1>2, <1>3 DEF Continues, Sound, Good, DecodedEffect
<1> QED
  BY <1>1, <1>2, <1>3, <1>4, <1>5 DEF Moves, DecodedEffect, c, e

(* An operation that decodes no packet.                                    *)
LEMMA QuietMoves ==
  ASSUME NEW d, NEW e, Formed(e), e.channels = d.channels, NEW nofec \in BOOLEAN,
         nofec => Tuned(e), Sound(e.calls, Conceals(nofec))
  PROVE  Moves(d, e, nofec)
<1> DEFINE x == Conceals(nofec)
           y == [match |-> nofec, fresh |-> nofec /\ d.channels = 2]
<1>1. \A k \in DOMAIN e.calls : Good(e.calls[k], x)
  BY DEF Sound
<1>2. /\ \A k \in DOMAIN e.calls : e.calls[k].op # "celt" /\ ~Decoding(e.calls[k])
      /\ Log(e.calls)
  BY <1>1 DEF Sound, Good, Conceals
<1>3. Smoothed(d, e)
  BY <1>2 DEF Smoothed, Has, Decoding
<1>4. Continues(d, e)
  BY <1>2 DEF Continues
<1>5. Sound(e.calls, y)
  BY <1>1, <1>2 DEF Sound, Good, Conceals, Decoding
<1> QED
  BY <1>3, <1>4, <1>5 DEF Moves

(* decode_lost() is one.                                                   *)
LEMMA ConcealMoves ==
  ASSUME NEW d, Formed(d), NEW nofec \in BOOLEAN, nofec => Tuned(d)
  PROVE  Moves(d, Conceal(Clear(d)), nofec)
<1> DEFINE c == Clear(d)
           x == Conceals(nofec)
           e == Conceal(c)
<1>1. Formed(c) /\ (nofec => Tuned(c)) /\ Sound(c.calls, x) /\ c.channels = d.channels
  BY ClearIs
<1>2. x.match = nofec
  BY DEF Conceals
<1> HIDE DEF c, x
<1>3. Concealed(c, e, x)
  BY <1>1, <1>2, ConcealRuns
<1> HIDE DEF e
<1>4. e.channels = d.channels
  BY <1>1, <1>3 DEF Concealed, Same, Fields, ConcealFields
<1> QED
  BY <1>1, <1>3, <1>4, QuietMoves DEF Concealed, c, e, x

(* So is doing nothing.                                                    *)
LEMMA ClearMoves ==
  ASSUME NEW d, Formed(d), NEW nofec \in BOOLEAN, nofec => Tuned(d)
  PROVE  Moves(d, Clear(d), nofec)
<1>1. /\ Formed(Clear(d)) /\ (nofec => Tuned(Clear(d))) /\ Sound(Clear(d).calls, Conceals(nofec))
      /\ Clear(d).channels = d.channels
  BY ClearIs
<1> QED
  BY <1>1, QuietMoves

(* decode_fec() is one too, once FEC is in use: it runs SILK for the left  *)
(* channel alone, so nothing is claimed of the resamplers from then on.    *)
LEMMA FecMoves ==
  ASSUME NEW d, Formed(d), NEW p, PacketOK(p)
  PROVE  Moves(d, DecodeFec(Clear(d), p), FALSE)
<1> DEFINE c == Clear(d)
           x == Conceals(FALSE)
           e == DecodeFec(c, p)
<1>1. Formed(c) /\ Sound(c.calls, x) /\ c.channels = d.channels
  BY ClearIs
<1>2. ~x.match
  BY DEF Conceals
<1>3. CASE ~HasFec(p)
  BY <1>3, ConcealMoves DEF DecodeFec
<1>4. CASE HasFec(p)
  <2> DEFINE rate == Rate(p.mode, p.bw)
             a == [c EXCEPT !.n_channels_internal = 1]
             b == InitLeft(a, rate)
             l == Resample(RunSilk(SetFs(b, rate), "lbrr", Lost), rate, FALSE)
  <2>1. e = [l EXCEPT !.prev_mode = p.mode]
    BY <1>4 DEF DecodeFec, Lbrr
  <2>2. rate \in Rates /\ rate # 0
    BY RateIs
  <2> HIDE DEF c, x, rate
  <2>3. Same(c, a, {"n_channels_internal"}) /\ a.n_channels_internal = 1
    BY <1>1 DEF Formed, Same, IsDec, Fields
  <2> HIDE DEF a
  <2>4. Same(a, b, {"silk_resampler", "prev_internal_rate"}) /\ b.prev_internal_rate = rate
    BY <2>2, <2>3, InitLeftIs DEF Same
  <2> HIDE DEF b
  <2>5. IsDec(b) /\ Sound(b.calls, x)
    BY <1>1, <2>3, <2>4 DEF Same, Fields
  <2> DEFINE right == FALSE
             what == "lbrr"
             k == Resample(RunSilk(SetFs(b, rate), what, Lost), rate, right)
  <2>a. right \in BOOLEAN /\ what # "normal" /\ k = l
    OBVIOUS
  <2> HIDE DEF right, what
  <2> DEFINE lost == Lost
  <2> HIDE DEF lost
  <2>b. LET e1 == Resample(RunSilk(SetFs(b, rate), what, lost), rate, right) IN
        Runs(b, e1, {"silk_dec", "fs_khz"}, x) /\ e1.fs_khz = rate
    BY <1>2, <2>5, <2>a, SilkRuns
  <2> HIDE DEF k, l, e
  <2>6. Runs(b, l, {"silk_dec", "fs_khz"}, x) /\ l.fs_khz = rate
    BY <2>a, <2>b DEF k, lost
  <2>7. Same(l, e, {"prev_mode"}) /\ e.prev_mode = p.mode
    BY <2>1, <2>6 DEF Runs, Same, IsDec, Fields
  <2>8. /\ e.channels = d.channels /\ e.n_channels_internal = 1 /\ e.fs_khz = rate
        /\ e.prev_internal_rate = rate /\ e.calls = l.calls
        /\ e.prev_redundancy = c.prev_redundancy /\ e.transition_pcm = c.transition_pcm
        /\ e.transition_pending = c.transition_pending
    BY <1>1, <2>3, <2>4, <2>6, <2>7 DEF Runs, Same, Fields
  <2>9. Formed(e)
    BY <1>1, <2>2, <2>7, <2>8 DEF Formed, DecoderOK, Same, PacketOK
  <2>10. Sound(e.calls, x)
    BY <2>6, <2>8 DEF Runs
  <2> QED
    BY <2>8, <2>9, <2>10, QuietMoves DEF x, e, c
<1> QED
  BY <1>3, <1>4

(***************************************************************************)
(* The inductive invariant.                                                *)
(***************************************************************************)
IInv ==
  /\ Formed(dec) /\ Formed(aux) /\ aux.channels = 2
  /\ fec \in Packets(dec.channels) \cup {NoPacket, NoFec}
  /\ fec = NoFec => Tuned(dec) /\ Tuned(aux)
  /\ ResamplersMatch
  /\ fec = NoFec /\ dec.channels = 2 => SilkFreshAfterCelt

(* A packet of the stream is well formed and is not the mark of a decoder  *)
(* without FEC.                                                            *)
LEMMA PacketIs ==
  ASSUME NEW p \in Packets(dec.channels), Formed(dec)
  PROVE  PacketOK(p) /\ p # NoFec
<1>1. PacketOK(p)
  BY PacketsAssumption DEF PacketOK, Formed
<1> QED
  BY <1>1 DEF PacketOK, NoFec, Modes

(* A new decoder satisfies the invariant.                                  *)
LEMMA InitOK == Init => IInv
<1> SUFFICES ASSUME Init PROVE IInv
  OBVIOUS
<1>1. PICK use \in Uses : dec = New(use.channels) /\ aux = New(2)
                          /\ fec = IF use.fec THEN NoPacket ELSE NoFec
  BY DEF Init
<1>2. use.channels \in {1, 2}
  BY DecoderAssumption
<1>3. ASSUME NEW n \in {1, 2}
      PROVE  /\ Formed(New(n)) /\ Tuned(New(n)) /\ New(n).channels = n
             /\ New(n).calls = <<>>
  BY DEF New, Formed, Tuned, Restarted, DecoderOK, IsDec, Fields, Rates, Modes
<1>4. dec.calls = <<>> /\ aux.calls = <<>>
  BY <1>1, <1>2, <1>3
<1>5. ResamplersMatch /\ SilkFreshAfterCelt
  BY <1>4 DEF ResamplersMatch, SilkFreshAfterCelt, Has, Decoders
<1>6. fec \in {NoPacket, NoFec}
  BY <1>1
<1> QED
  BY <1>1, <1>2, <1>3, <1>5, <1>6 DEF IInv

(* Whatever happens, each decoder moves, or its last mode is noted.        *)
Steps ==
  LET nofec == fec = NoFec IN
  /\ nofec = (fec' = NoFec)
  /\ fec' \in Packets(dec.channels) \cup {NoPacket, NoFec}
  /\ \/ Moves(dec, dec', nofec)
     \/ /\ dec.channels = 1
        /\ \E p : PacketOK(p) /\ dec' = [Clear(dec) EXCEPT !.prev_mode = p.mode]
  /\ Moves(aux, aux', nofec)
  /\ dec.channels = 2 => aux'.calls = <<>>

(* Every operation is a step of both decoders.                             *)
LEMMA NextSteps == IInv /\ Next => Steps
<1> SUFFICES ASSUME IInv, Next PROVE Steps
  OBVIOUS
<1> DEFINE nofec == fec = NoFec
<1>1. /\ nofec \in BOOLEAN /\ Formed(dec) /\ Formed(aux)
      /\ nofec => Tuned(dec) /\ Tuned(aux)
      /\ fec \in Packets(dec.channels) \cup {NoPacket, NoFec}
  BY DEF IInv
<1>2. NoPacket # NoFec
  BY DEF NoPacket, NoFec
<1>3. Moves(aux, Clear(aux), nofec) /\ Clear(aux).calls = <<>>
  <2>1. Moves(aux, Clear(aux), nofec)
    BY <1>1, ClearMoves
  <2>2. Clear(aux).calls = <<>>
    BY <1>1 DEF Clear, Formed, IsDec, Fields
  <2> QED
    BY <2>1, <2>2
<1>4. ASSUME NEW p \in Packets(dec.channels), Decode(p)
      PROVE  Steps
  <2>1. PacketOK(p) /\ p # NoFec
    BY <1>1, PacketIs
  <2>2. nofec = (fec' = NoFec) /\ fec' \in {NoPacket, NoFec}
    BY <1>2, <1>4, <2>1 DEF Decode
  <2>3. CASE dec.channels = 1 /\ p.ch = 2
    <3>1. /\ aux' = DecodePrimary(Clear(aux), p)
          /\ dec' = [Clear(dec) EXCEPT !.prev_mode = p.mode]
      BY <1>4, <2>3 DEF Decode
    <3>2. Moves(aux, aux', nofec)
      BY <1>1, <2>1, <3>1, DecodeMoves
    <3> QED
      BY <2>1, <2>2, <2>3, <3>1, <3>2 DEF Steps
  <2>4. CASE ~(dec.channels = 1 /\ p.ch = 2)
    <3>1. dec' = DecodePrimary(Clear(dec), p) /\ aux' = Clear(aux)
      BY <1>4, <2>4 DEF Decode
    <3>2. Moves(dec, dec', nofec)
      BY <1>1, <2>1, <3>1, DecodeMoves
    <3> QED
      BY <1>3, <2>2, <3>1, <3>2 DEF Steps
  <2> QED
    BY <2>3, <2>4
<1>5. ASSUME NEW p \in Packets(dec.channels), Fec(p)
      PROVE  Steps
  <2>1. PacketOK(p) /\ p # NoFec
    BY <1>1, PacketIs
  <2>2. /\ ~nofec /\ fec' = p /\ dec' = DecodeFec(Clear(dec), p) /\ aux' = Clear(aux)
    BY <1>2, <1>5 DEF Fec
  <2>3. Moves(dec, dec', nofec)
    BY <1>1, <2>1, <2>2, FecMoves
  <2> QED
    BY <1>3, <2>1, <2>2, <2>3 DEF Steps
<1>6. ASSUME Lose
      PROVE  Steps
  <2>1. fec' = fec /\ dec' = Conceal(Clear(dec)) /\ aux' = Clear(aux)
    BY <1>6 DEF Lose
  <2>2. Moves(dec, dec', nofec)
    BY <1>1, <2>1, ConcealMoves
  <2> QED
    BY <1>1, <1>3, <2>1, <2>2 DEF Steps
<1> QED
  BY <1>4, <1>5, <1>6 DEF Next

(* A decoder whose last mode alone is noted.                               *)
LEMMA NotedIs ==
  ASSUME NEW d, Formed(d), d.channels = 1, NEW mode \in Modes
  PROVE  LET e == [Clear(d) EXCEPT !.prev_mode = mode] IN
         /\ Formed(e) /\ e.channels = 1 /\ e.calls = <<>>
         /\ Tuned(d) => Tuned(e)
<1> DEFINE e == [Clear(d) EXCEPT !.prev_mode = mode]
<1>1. Same(d, e, {"calls", "prev_mode"}) /\ e.calls = <<>> /\ e.prev_mode = mode
  BY DEF Clear, Formed, Same, IsDec, Fields
<1> HIDE DEF e
<1>2. Formed(e) /\ e.channels = 1
  BY <1>1 DEF Formed, DecoderOK, Same, Fields
<1>3. Tuned(d) => Tuned(e)
  BY <1>1 DEF Tuned, Restarted, Same, Fields
<1> QED
  BY <1>1, <1>2, <1>3 DEF e

(* Such a step keeps the invariant and is what the action properties       *)
(* allow.                                                                  *)
LEMMA StepsOK == IInv /\ Steps => IInv' /\ Smoothed(dec, dec') /\ Smoothed(aux, aux')
                                   /\ Continues(dec, dec') /\ Continues(aux, aux')
<1> SUFFICES ASSUME IInv, Steps
             PROVE  IInv' /\ Smoothed(dec, dec') /\ Smoothed(aux, aux')
                    /\ Continues(dec, dec') /\ Continues(aux, aux')
  OBVIOUS
<1> DEFINE nofec == fec = NoFec
           Decoded(d, e) == Moves(d, e, nofec)
           Noted == /\ dec.channels = 1
                    /\ \E p : PacketOK(p) /\ dec' = [Clear(dec) EXCEPT !.prev_mode = p.mode]
<1>1. /\ nofec = (fec' = NoFec) /\ fec' \in Packets(dec.channels) \cup {NoPacket, NoFec}
      /\ Decoded(dec, dec') \/ Noted
      /\ Decoded(aux, aux')
      /\ dec.channels = 2 => aux'.calls = <<>>
      /\ Formed(dec) /\ Formed(aux) /\ aux.channels = 2 /\ (nofec => Tuned(dec) /\ Tuned(aux))
  BY DEF Steps, IInv
<1> HIDE DEF nofec
<1>2. Noted => /\ Formed(dec') /\ dec'.channels = 1 /\ dec'.calls = <<>>
               /\ nofec => Tuned(dec')
  BY <1>1, NotedIs DEF PacketOK
<1>3. /\ Formed(dec') /\ dec'.channels = dec.channels /\ (nofec => Tuned(dec'))
      /\ Formed(aux') /\ aux'.channels = 2 /\ (nofec => Tuned(aux'))
  BY <1>1, <1>2 DEF Moves
<1>4. ASSUME NEW d, NEW e, Decoded(d, e) \/ e.calls = <<>>, nofec
      PROVE  /\ \A k \in DOMAIN e.calls : ~(e.calls[k].op = "resample" /\
                  (e.calls[k].left # e.calls[k].rate \/ e.calls[k].right # e.calls[k].rate))
             /\ d.channels = 2 => \A k \in DOMAIN e.calls : ~(e.calls[k].op = "silk"
                  /\ e.calls[k].what = "normal" /\ e.calls[k].stale)
  <2>1. CASE e.calls = <<>>
    BY <2>1
  <2>2. CASE Decoded(d, e)
    <3>1. PICK x : x.match = nofec /\ x.fresh = (nofec /\ d.channels = 2) /\ Sound(e.calls, x)
      BY <2>2 DEF Moves
    <3>2. \A k \in DOMAIN e.calls : Good(e.calls[k], x)
      BY <3>1 DEF Sound
    <3> QED
      BY <1>4, <3>1, <3>2 DEF Good
  <2> QED
    BY <1>4, <2>1, <2>2
<1>a. (Decoded(dec, dec') \/ dec'.calls = <<>>) /\ (Decoded(aux, aux') \/ aux'.calls = <<>>)
  BY <1>1, <1>2
<1>b. ResamplersMatch'
  <2>1. nofec => \A k \in DOMAIN dec'.calls : ~(dec'.calls[k].op = "resample" /\
            (dec'.calls[k].left # dec'.calls[k].rate \/ dec'.calls[k].right # dec'.calls[k].rate))
    BY <1>a, <1>4
  <2>2. nofec => \A k \in DOMAIN aux'.calls : ~(aux'.calls[k].op = "resample" /\
            (aux'.calls[k].left # aux'.calls[k].rate \/ aux'.calls[k].right # aux'.calls[k].rate))
    BY <1>a, <1>4
  <2> QED
    BY <2>1, <2>2, <1>1 DEF ResamplersMatch, Has, Decoders
<1>c. (fec = NoFec /\ dec.channels = 2 => SilkFreshAfterCelt)'
  <2>1. nofec /\ dec.channels = 2 => \A k \in DOMAIN dec'.calls :
            ~(dec'.calls[k].op = "silk" /\ dec'.calls[k].what = "normal" /\ dec'.calls[k].stale)
    BY <1>a, <1>4
  <2>2. nofec /\ dec.channels = 2 => \A k \in DOMAIN aux'.calls :
            ~(aux'.calls[k].op = "silk" /\ aux'.calls[k].what = "normal" /\ aux'.calls[k].stale)
    BY <1>1, <1>a, <1>4
  <2> QED
    BY <2>1, <2>2, <1>1, <1>3 DEF SilkFreshAfterCelt, Has, Decoders
<1>7. IInv'
  BY <1>1, <1>3, <1>b, <1>c DEF IInv, nofec
<1>8. Noted => Smoothed(dec, dec') /\ Continues(dec, dec')
  BY <1>2 DEF Smoothed, Has, Continues
<1> QED
  BY <1>1, <1>7, <1>8 DEF Moves

(* Stuttering keeps it.                                                    *)
LEMMA StutterOK == IInv /\ UNCHANGED vars => IInv'
<1> SUFFICES ASSUME IInv, UNCHANGED vars PROVE IInv'
  OBVIOUS
<1>1. dec' = dec /\ aux' = aux /\ fec' = fec
  BY DEF vars
<1> QED
  BY <1>1 DEF IInv, ResamplersMatch, SilkFreshAfterCelt, Has, Decoders

(* The invariant holds of every history of decode, decode_lost and         *)
(* decode_fec.                                                             *)
THEOREM DecoderInvariant == Spec => []IInv
<1>1. IInv /\ [Next]_vars => IInv'
  BY NextSteps, StepsOK, StutterOK
<1> QED
  BY <1>1, InitOK, PTL DEF Spec

(* For every stream: as long as decode_fec is not called, no resampler     *)
(* ever runs at a rate it was not set up for, the right one of a stereo    *)
(* decoder included, which runs along while packets are mono (decode,      *)
(* conceal_silk).                                                          *)
THEOREM ResamplersKeepTheRate == Spec => []ResamplersMatch
<1>1. IInv => ResamplersMatch
  BY DEF IInv
<1> QED
  BY <1>1, DecoderInvariant, PTL

(* For every stream without decode_fec and without a switch of channels:   *)
(* SILK is never resumed from the state it had before a CELT packet (the   *)
(* reset on a change of mode), lost packets and redundancy in between or   *)
(* not.                                                                    *)
THEOREM SilkRestartsAfterCelt == Spec => []SilkFreshWithoutFec
<1>1. IInv => SilkFreshWithoutFec
  BY DEF IInv, SilkFreshWithoutFec, TypeOK, Formed
<1> QED
  BY <1>1, DecoderInvariant, PTL

(* Every packet on the other side of CELT from the last is faded in once,  *)
(* from concealment or from its own redundant frame, whatever happened     *)
(* before it.                                                              *)
THEOREM SwitchesAreSmoothed == Spec => SwitchSmoothed
<1>1. IInv /\ [Next]_vars => [Smoothed(dec, dec') /\ Smoothed(aux, aux')]_vars
  BY NextSteps, StepsOK
<1> QED
  BY <1>1, DecoderInvariant, PTL DEF Spec, SwitchSmoothed

(* CELT runs on from where the last operation left it when redundancy      *)
(* bridges a switch, in either direction, for packets of any number of     *)
(* frames.                                                                 *)
THEOREM CeltIsHandedOver == Spec => CeltHandedOver
<1>1. IInv /\ [Next]_vars => [Continues(dec, dec') /\ Continues(aux, aux')]_vars
  BY NextSteps, StepsOK
<1> QED
  BY <1>1, DecoderInvariant, PTL DEF Spec, CeltHandedOver
================================================================================

---------------------------- MODULE OpusLinkProofs ----------------------------
(***************************************************************************)
(* Proofs about OpusLink, for every set of inputs that are requests to an  *)
(* encoder, packets of any number of frames, with losses or without.       *)
(* The inductive invariant (IInv) relates the two ends while no packet was *)
(* lost: between packets they are Together, and a packet in flight is what *)
(* the decoder expects (InFlight).  It is kept because a packet of the     *)
(* encoder is a chain of frames, each predicted from the one before it     *)
(* (Sent), and the decoder goes through it frame by frame (Loop), ready    *)
(* for each.  A decoder record is compared with another field by field     *)
(* (Same), and what is asked of its calls is one predicate (Good).         *)
(***************************************************************************)
EXTENDS OpusLink, DataInduction

(***************************************************************************)
(* The encoder.                                                            *)
(***************************************************************************)
(* The fields of an encoder; an encoder is a record of them.               *)
EncFields == {"prev_enc_mode", "celt_enc", "prediction_off", "silk_enc", "fs_khz"}
IsEnc(e) == e = [x \in EncFields |-> e[x]]

(* What frame i of a packet is coded with. *)
Code(e, in, n, i) ==
  [mode |-> Enc!CodedMode(e, in), bw |-> in.bw, fits |-> in.fits,
   to_celt |-> i = Len(in.empty) /\ Enc!ToCelt(e, in), empty |-> in.empty[i],
   n |-> n, i |-> Len(in.empty) - i]
Step(r, c) ==
  Enc!EncodeFrame(r.frames, r.enc, Enc!TransitionResets(r.enc, c), c, Enc!Red(r.enc, c))

(* The mark of a reset state is no token of a frame. *)
FreshIsNoToken == \A n, part, i : Fresh # Enc!Token(n, part, i)

(* A coded frame f, the encoder e before it and g after it.                *)
CodedEffect(e, c, g, f) ==
  /\ IsEnc(g)
  /\ f.red \in {"none", "to_silk", "to_celt"}
  /\ f.red = "to_celt" <=> c.to_celt /\ c.mode # "celt"
  /\ f.red = "to_silk" <=> ~c.to_celt /\ c.mode # "celt" /\ e.prev_enc_mode = "celt"
  /\ g.prev_enc_mode = IF c.to_celt THEN "celt" ELSE c.mode
  /\ f.red = "to_celt" => f.rc.intra /\ g.celt_enc = f.rc.id
  /\ f.red = "to_silk" => f.rc.ref = e.celt_enc
  /\ c.mode = "silk" => ~f.celt.intra
  /\ c.mode # "silk" =>
       /\ e.prev_enc_mode \notin {"none", c.mode} => f.celt.intra
       /\ e.prev_enc_mode \in {"none", c.mode} => f.celt.ref = e.celt_enc
       /\ f.red # "to_celt" => g.celt_enc = f.celt.id
  /\ c.mode = "celt" => g.silk_enc = e.silk_enc /\ g.fs_khz = e.fs_khz
  /\ c.mode # "celt" =>
       /\ f.silk.ref = IF e.fs_khz = Enc!Rate(c.mode, c.bw) THEN e.silk_enc ELSE Fresh
       /\ ~f.silk.intra /\ f.silk.id # Fresh
       /\ g.silk_enc = f.silk.id /\ g.fs_khz = Enc!Rate(c.mode, c.bw)

(* Coding a frame (encode_frame) appends it and has that effect: it is     *)
(* predicted from the state the encoder is in after its resets, and the    *)
(* redundancy of a switch is coded as the decoder will look for it.        *)
LEMMA FrameCoded ==
  ASSUME FreshIsNoToken, NEW s, NEW e, IsEnc(e), NEW c, ~c.empty, c.fits = TRUE, c.to_celt \in BOOLEAN
  PROVE  LET r == Step([enc |-> e, frames |-> s], c) IN
         \E f : r.frames = Append(s, f) /\ CodedEffect(e, c, r.enc, f)
<1> DEFINE t == Enc!TransitionResets(e, c)
           red == Enc!Red(e, c)
           k == Enc!SilkSetup(t, c)
           g == Enc!Advance(k, c, red)
           f == [red |-> red, silk |-> Enc!SilkPart(k, c), celt |-> Enc!CeltPart(t, c),
                 rc |-> Enc!RedundantPart(e, c, red)]
           r == Step([enc |-> e, frames |-> s], c)
           renew == e.prev_enc_mode \notin {"none", c.mode} /\ c.mode # "silk"
           rate == Enc!Rate(c.mode, c.bw)
<1>1. r.enc = g /\ r.frames = Append(s, f)
  BY DEF Step, Enc!EncodeFrame
<1>2. /\ IsEnc(t) /\ t.prev_enc_mode = e.prev_enc_mode /\ t.silk_enc = e.silk_enc
      /\ t.fs_khz = e.fs_khz /\ t.prediction_off = renew
      /\ ~renew => t.celt_enc = e.celt_enc
  BY DEF Enc!TransitionResets, Enc!Switched, IsEnc, EncFields
<1> HIDE DEF t
<1>3. /\ IsEnc(k) /\ k.prev_enc_mode = t.prev_enc_mode /\ k.celt_enc = t.celt_enc
      /\ k.prediction_off = t.prediction_off
      /\ c.mode = "celt" => k = t
      /\ c.mode # "celt" => /\ k.fs_khz = rate
                            /\ k.silk_enc = IF t.fs_khz = rate THEN t.silk_enc ELSE Fresh
  BY <1>2 DEF Enc!SilkSetup, IsEnc, EncFields
<1> HIDE DEF k, rate
<1>4. /\ red \in {"none", "to_silk", "to_celt"}
      /\ red = "to_celt" <=> c.to_celt /\ c.mode # "celt"
      /\ red = "to_silk" <=> ~c.to_celt /\ c.mode # "celt" /\ e.prev_enc_mode = "celt"
  BY DEF Enc!Red, Enc!FromCelt
<1> HIDE DEF red
<1>5. /\ IsEnc(g) /\ g.fs_khz = k.fs_khz
      /\ g.prev_enc_mode = IF c.to_celt THEN "celt" ELSE c.mode
      /\ g.silk_enc = IF c.mode = "celt" THEN k.silk_enc ELSE Enc!Token(c.n, "silk", c.i)
      /\ red = "to_celt" => g.celt_enc = Enc!Token(c.n, "rc", c.i)
      /\ red # "to_celt" /\ c.mode # "silk" => g.celt_enc = Enc!Token(c.n, "celt", c.i)
  BY <1>3 DEF Enc!Advance, Enc!NextPrevMode, IsEnc, EncFields
<1> HIDE DEF g
<1>6. /\ f.red = red
      /\ red = "to_celt" => f.rc.intra /\ f.rc.id = Enc!Token(c.n, "rc", c.i)
      /\ red = "to_silk" => f.rc.ref = e.celt_enc
  BY DEF Enc!RedundantPart, Enc!Coded
<1>7. /\ c.mode = "silk" => ~f.celt.intra
      /\ c.mode # "silk" => /\ f.celt.ref = t.celt_enc /\ f.celt.intra = t.prediction_off
                            /\ f.celt.id = Enc!Token(c.n, "celt", c.i)
  BY DEF Enc!CeltPart, Enc!Coded, Enc!Lost
<1>8. c.mode # "celt" => /\ f.silk.ref = k.silk_enc /\ ~f.silk.intra
                         /\ f.silk.id = Enc!Token(c.n, "silk", c.i)
  BY DEF Enc!SilkPart, Enc!Coded
<1> HIDE DEF f
<1>9. c.mode # "celt" => /\ f.silk.ref = IF e.fs_khz = rate THEN e.silk_enc ELSE Fresh
                         /\ ~f.silk.intra /\ f.silk.id # Fresh
                         /\ g.silk_enc = f.silk.id /\ g.fs_khz = rate
  BY <1>2, <1>3, <1>5, <1>8 DEF FreshIsNoToken
<1>10. c.mode # "silk" =>
       /\ e.prev_enc_mode \notin {"none", c.mode} => f.celt.intra
       /\ e.prev_enc_mode \in {"none", c.mode} => f.celt.ref = e.celt_enc
       /\ f.red # "to_celt" => g.celt_enc = f.celt.id
  BY <1>2, <1>5, <1>6, <1>7
<1>11. c.mode = "celt" => g.silk_enc = e.silk_enc /\ g.fs_khz = e.fs_khz
  BY <1>2, <1>3, <1>5
<1>12. CodedEffect(e, c, g, f)
  BY <1>4, <1>5, <1>6, <1>7, <1>9, <1>10, <1>11 DEF CodedEffect, rate
<1> HIDE DEF r
<1> QED
  BY <1>1, <1>12 DEF r

(***************************************************************************)
(* A packet, frame by frame.                                               *)
(***************************************************************************)
(* Frame f is a frame of mode m that may follow anything: its redundancy   *)
(* is of a kind its mode has, and leads to CELT only from a fresh state.   *)
Whole(f, m) ==
  /\ f.red \in {"none", "to_silk", "to_celt", "empty"}
  /\ f.red = "to_celt" => m # "celt" /\ f.rc.intra
  /\ m = "celt" => f.red \in {"none", "empty"}
  /\ m = "silk" \/ f.red = "empty" => ~f.celt.intra

(* Encoder e is where frame f, the last of its packet, has put it.         *)
Ends(f, e, m) ==
  /\ e.prev_enc_mode = IF f.red = "to_celt" THEN "celt" ELSE m
  /\ f.red = "to_celt" => e.celt_enc = f.rc.id
  /\ f.red \notin {"to_celt", "empty"} /\ m # "silk" => e.celt_enc = f.celt.id

(* A coded frame; SILK never restarts inside of one and its state after it *)
(* is not the reset one.                                                   *)
Named(f, m) == f.red # "empty" /\ (m # "celt" => ~f.silk.intra /\ f.silk.id # Fresh)

(* Frame f goes on from frame g before it in the packet.                   *)
Linked(g, f, m) ==
  /\ f.red # "to_silk"
  /\ m # "silk" => f.celt.ref = g.celt.id
  /\ m # "celt" => f.silk.ref = g.silk.id

(* Frame f, the first of its packet, goes on from encoder e.               *)
First(e, f, m, bw) ==
  /\ f.red = "to_silk" <=> m # "celt" /\ e.prev_enc_mode = "celt"
  /\ f.red = "to_silk" => f.rc.ref = e.celt_enc
  /\ m # "silk" => /\ e.prev_enc_mode \notin {"none", m} => f.celt.intra
                   /\ e.prev_enc_mode \in {"none", m} => f.celt.ref = e.celt_enc
  /\ m # "celt" => f.silk.ref = IF e.fs_khz = Enc!Rate(m, bw) THEN e.silk_enc ELSE Fresh

(* SILK in encoder e after a packet with SILK in it, and after one         *)
(* without.                                                                *)
LastSilk(e, f, m, bw) == e.silk_enc = f.silk.id /\ e.fs_khz = Enc!Rate(m, bw)
SameSilk(e, g) == g.silk_enc = e.silk_enc /\ g.fs_khz = e.fs_khz

AllCoded(in) == \A i \in 1 .. Len(in.empty) : ~in.empty[i]

(* What holds of the first j frames of a packet in which every frame is    *)
(* coded, e the encoder before it and g after them.                        *)
InSync(e, m, bw, j, g, fr) ==
  /\ \A i \in 1 .. j : Named(fr[i], m)
  /\ j # 0 => First(e, fr[1], m, bw)
  /\ \A i \in 1 .. j : i # 1 => Linked(fr[i - 1], fr[i], m)
  /\ m = "celt" => SameSilk(e, g)
  /\ m # "celt" /\ j # 0 => LastSilk(g, fr[j], m, bw)

(* The packet after j frames.                                              *)
Sent(e, in, j, r) ==
  LET m == Enc!CodedMode(e, in) IN
  /\ IsEnc(r.enc) /\ Log(r.frames) /\ Len(r.frames) = j
  /\ \A i \in 1 .. j : Whole(r.frames[i], m) /\ (i # Len(in.empty) => r.frames[i].red # "to_celt")
  /\ j = 0 => r.enc = e
  /\ j # 0 => Ends(r.frames[j], r.enc, m)
  /\ AllCoded(in) => InSync(e, m, in.bw, j, r.enc, r.frames)

(* An input as InputsFit says.                                             *)
InputOK(in) ==
  /\ in.mode \in {"silk", "hybrid", "celt"} /\ in.long \in BOOLEAN /\ in.fits = TRUE
  /\ in.empty \in Seq(BOOLEAN) /\ in.empty # <<>>

(* A frame of a TOC alone leaves after the resets: it codes nothing.       *)
LEMMA FrameEmpty ==
  ASSUME NEW s, NEW e, IsEnc(e), NEW c, c.empty
  PROVE  LET r == Step([enc |-> e, frames |-> s], c) IN
         /\ r.frames = Append(s, Enc!EmptyFrame)
         /\ IsEnc(r.enc) /\ r.enc.prev_enc_mode = c.mode
<1> DEFINE t == Enc!TransitionResets(e, c)
           g == [t EXCEPT !.prev_enc_mode = c.mode]
           r == Step([enc |-> e, frames |-> s], c)
<1>1. r.enc = g /\ r.frames = Append(s, Enc!EmptyFrame)
  BY DEF Step, Enc!EncodeFrame
<1>2. IsEnc(t)
  BY DEF Enc!TransitionResets, IsEnc, EncFields
<1> HIDE DEF t, r
<1>3. IsEnc(g) /\ g.prev_enc_mode = c.mode
  BY <1>2 DEF IsEnc, EncFields
<1> HIDE DEF g
<1> QED
  BY <1>1, <1>3 DEF r

(* One more frame: if the packet so far is as Sent says, so is the packet  *)
(* with the next frame.                                                    *)
LEMMA StepSends ==
  ASSUME FreshIsNoToken, NEW e, NEW in, InputOK(in), NEW n, NEW j \in 1 .. Len(in.empty),
         NEW r, r = [enc |-> r.enc, frames |-> r.frames], Sent(e, in, j - 1, r)
  PROVE  LET q == Step(r, Code(e, in, n, j)) IN
         Sent(e, in, j, q)
<1> DEFINE q == Step(r, Code(e, in, n, j))
           c == Code(e, in, n, j)
           m == Enc!CodedMode(e, in)
           last == Len(in.empty)
           fr == r.frames
           gr == q.frames
           to == Enc!ToCelt(e, in)
<1>1. /\ c.mode = m /\ c.bw = in.bw /\ c.fits = TRUE /\ c.to_celt \in BOOLEAN
      /\ c.to_celt <=> j = last /\ to
      /\ c.empty = in.empty[j] /\ in.empty[j] \in BOOLEAN
  <2>1. in.fits = TRUE /\ in.empty[j] \in BOOLEAN
    BY DEF InputOK
  <2>2. c.mode = m /\ c.bw = in.bw /\ c.fits = in.fits /\ c.empty = in.empty[j]
    BY DEF Code
  <2>3. c.to_celt = (j = last /\ to)
    BY DEF Code
  <2>4. c.to_celt \in BOOLEAN /\ (c.to_celt <=> j = last /\ to)
    BY <2>3
  <2> QED
    BY <2>1, <2>2, <2>4
<1>2. /\ m \in {"silk", "hybrid", "celt"}
      /\ to => m # "celt" /\ e.prev_enc_mode # "celt"
  BY DEF Enc!CodedMode, Enc!ToCelt, InputOK
<1>3. last \in Nat \ {0} /\ j \in Nat \ {0} /\ j - 1 \in Nat
  BY DEF InputOK
<1> HIDE DEF c, m, to
<1>4. /\ IsEnc(r.enc) /\ Log(fr) /\ Len(fr) = j - 1
      /\ \A i \in 1 .. j - 1 : Whole(fr[i], m) /\ (i # last => fr[i].red # "to_celt")
      /\ j - 1 = 0 => r.enc = e
      /\ j - 1 # 0 => Ends(fr[j - 1], r.enc, m)
      /\ AllCoded(in) => InSync(e, m, in.bw, j - 1, r.enc, fr)
  BY DEF Sent, m
<1>5. ASSUME NEW f, gr = Append(fr, f)
      PROVE  /\ Log(gr) /\ Len(gr) = j /\ gr[j] = f
             /\ \A i \in 1 .. j - 1 : gr[i] = fr[i]
  <2>1. Len(Append(fr, f)) = (j - 1) + 1 /\ Append(fr, f)[(j - 1) + 1] = f
    BY <1>4, AppendLog
  <2>2. Log(Append(fr, f)) /\ \A i \in 1 .. j - 1 : Append(fr, f)[i] = fr[i]
    BY <1>4, AppendLog
  <2>3. (j - 1) + 1 = j
    BY <1>3
  <2> HIDE DEF fr, gr
  <2> QED
    BY <1>5, <2>1, <2>2, <2>3
<1>6. CASE c.empty
  <2> DEFINE f == Enc!EmptyFrame
  <2>1. gr = Append(fr, f) /\ IsEnc(q.enc) /\ q.enc.prev_enc_mode = m
    BY <1>1, <1>4, <1>6, FrameEmpty DEF c
  <2>2. f.red = "empty" /\ ~f.celt.intra
    BY DEF Enc!EmptyFrame, Enc!Lost
  <2> HIDE DEF f, q
  <2>3. Whole(f, m) /\ Ends(f, q.enc, m)
    BY <2>1, <2>2, <1>2 DEF Whole, Ends
  <2>4. ~AllCoded(in)
    BY <1>1, <1>6 DEF AllCoded
  <2>5. Log(gr) /\ Len(gr) = j /\ gr[j] = f /\ \A i \in 1 .. j - 1 : gr[i] = fr[i]
    BY <1>5, <2>1
  <2>6. \A i \in 1 .. j : Whole(gr[i], m) /\ (i # last => gr[i].red # "to_celt")
    BY <1>3, <1>4, <2>2, <2>3, <2>5
  <2>7. Sent(e, in, j, q)
    BY <1>3, <2>1, <2>3, <2>4, <2>5, <2>6 DEF Sent, m
  <2> QED
    BY <2>7 DEF q
<1>7. CASE ~c.empty
  <2>1. PICK f : gr = Append(fr, f) /\ CodedEffect(r.enc, c, q.enc, f)
    BY <1>1, <1>4, <1>7, FrameCoded DEF c
  <2> HIDE DEF q
  <2>2. /\ Whole(f, m) /\ Ends(f, q.enc, m) /\ IsEnc(q.enc)
        /\ j # last => f.red # "to_celt"
    BY <1>1, <1>2, <2>1 DEF CodedEffect, Whole, Ends
  <2>3. Log(gr) /\ Len(gr) = j /\ gr[j] = f /\ \A i \in 1 .. j - 1 : gr[i] = fr[i]
    BY <1>5, <2>1
  <2>4. \A i \in 1 .. j : Whole(gr[i], m) /\ (i # last => gr[i].red # "to_celt")
    BY <1>3, <1>4, <2>2, <2>3
  <2>5. ASSUME AllCoded(in)
        PROVE  InSync(e, m, in.bw, j, q.enc, gr)
    <3>1. InSync(e, m, in.bw, j - 1, r.enc, fr)
      BY <1>4, <2>5
    <3>2. Named(f, m)
      BY <1>1, <2>1 DEF CodedEffect, Named
    <3>3. \A i \in 1 .. j : Named(gr[i], m)
      BY <1>3, <2>3, <3>1, <3>2 DEF InSync
    <3>4. m # "celt" => LastSilk(q.enc, f, m, in.bw)
      BY <1>1, <2>1 DEF CodedEffect, LastSilk
    <3>5. m = "celt" => SameSilk(e, q.enc)
      BY <1>1, <2>1, <3>1 DEF CodedEffect, SameSilk, InSync
    <3>6. CASE j = 1
      <4>1. r.enc = e
        BY <1>4, <3>6
      <4>2. First(e, f, m, in.bw)
        BY <1>1, <1>2, <2>1, <4>1 DEF CodedEffect, First
      <4> QED
        BY <2>3, <3>3, <3>4, <3>5, <3>6, <4>2 DEF InSync
    <3>7. CASE j # 1
      <4>1. j - 1 # 0 /\ j - 1 # last /\ j - 1 \in 1 .. j - 1 /\ 1 \in 1 .. j - 1
        BY <1>3, <3>7
      <4>2. /\ Ends(fr[j - 1], r.enc, m) /\ fr[j - 1].red # "to_celt" /\ Named(fr[j - 1], m)
            /\ m # "celt" => LastSilk(r.enc, fr[j - 1], m, in.bw)
        BY <1>4, <3>1, <4>1 DEF InSync
      <4>3. Linked(fr[j - 1], f, m)
        BY <1>1, <1>2, <2>1, <4>2 DEF CodedEffect, Ends, Named, LastSilk, Linked
      <4>4. First(e, gr[1], m, in.bw)
        BY <2>3, <3>1, <4>1 DEF InSync
      <4>5. \A i \in 1 .. j : i # 1 => Linked(gr[i - 1], gr[i], m)
        <5>1. TAKE i \in 1 .. j
        <5>2. SUFFICES ASSUME i # 1 PROVE Linked(gr[i - 1], gr[i], m)
          OBVIOUS
        <5>3. CASE i = j
          BY <2>3, <4>1, <4>3, <5>3
        <5>4. CASE i # j
          <6>1. i \in 1 .. j - 1 /\ i - 1 \in 1 .. j - 1
            BY <1>3, <5>2, <5>4
          <6> QED
            BY <2>3, <3>1, <5>2, <6>1 DEF InSync
        <5> QED
          BY <5>3, <5>4
      <4> QED
        BY <2>3, <3>3, <3>4, <3>5, <4>4, <4>5 DEF InSync
    <3> QED
      BY <3>6, <3>7
  <2>6. Sent(e, in, j, q)
    BY <1>3, <2>2, <2>3, <2>4, <2>5 DEF Sent, m
  <2> QED
    BY <2>6 DEF q
<1> QED
  BY <1>1, <1>6, <1>7

EncUnfolds(f, e, in, n, m) ==
  f = [i \in 0 .. m |-> IF i = 0 THEN [enc |-> e, frames |-> <<>>]
                        ELSE Step(f[i - 1], Code(e, in, n, i))]

(* The recursive function that EncodePacket defines exists for every       *)
(* number of frames.                                                       *)
LEMMA PacketUnfold ==
  ASSUME NEW e, NEW in, NEW n
  PROVE  \A m \in Nat : \E f : EncUnfolds(f, e, in, n, m)
<1> DEFINE T == {m \in Nat : \E f : EncUnfolds(f, e, in, n, m)}
<1>1. 0 \in T
  <2> DEFINE g == [i \in 0 .. 0 |-> [enc |-> e, frames |-> <<>>]]
  <2>1. EncUnfolds(g, e, in, n, 0)
    BY DEF EncUnfolds
  <2> QED
    BY <2>1
<1>2. ASSUME NEW m \in Nat, m \in T
      PROVE  m + 1 \in T
  <2>1. PICK f : EncUnfolds(f, e, in, n, m)
    BY <1>2
  <2> DEFINE g == [i \in 0 .. m + 1 |-> IF i = m + 1 THEN Step(f[m], Code(e, in, n, i)) ELSE f[i]]
  <2>2. ASSUME NEW i \in 0 .. m + 1
        PROVE  g[i] = IF i = 0 THEN [enc |-> e, frames |-> <<>>] ELSE Step(g[i - 1], Code(e, in, n, i))
    <3>1. CASE i = m + 1
      BY <3>1
    <3>2. CASE i = 0
      BY <3>2, <2>1 DEF EncUnfolds
    <3>3. CASE i \in 1 .. m
      <4>1. i - 1 \in 0 .. m + 1 /\ g[i - 1] = f[i - 1] /\ g[i] = f[i]
        BY <3>3
      <4> QED
        BY <4>1, <3>3, <2>1 DEF EncUnfolds
    <3> QED
      BY <3>1, <3>2, <3>3
  <2>3. EncUnfolds(g, e, in, n, m + 1)
    BY <2>2 DEF EncUnfolds
  <2> HIDE DEF g
  <2> QED
    BY <2>3
<1> HIDE DEF T
<1>3. T = Nat
  <2>1. T \in SUBSET Nat
    BY DEF T
  <2> QED
    BY <1>1, <1>2, <2>1, NatSetInduction
<1> QED
  BY <1>3 DEF T

(* A packet of any number of frames: what encode_multiframe promises of    *)
(* its frames and of the encoder after it.                                 *)
LEMMA PacketSent ==
  ASSUME FreshIsNoToken, NEW e, IsEnc(e), NEW in, InputOK(in), NEW n
  PROVE  Sent(e, in, Len(in.empty), Enc!EncodePacket(e, in, n))
<1> DEFINE last == Len(in.empty)
           upto[i \in 0 .. last] ==
             IF i = 0 THEN [enc |-> e, frames |-> <<>>] ELSE Step(upto[i - 1], Code(e, in, n, i))
<1>1. last \in Nat
  BY DEF InputOK
<1>2. EncUnfolds(upto, e, in, n, last)
  <2>1. \E f : EncUnfolds(f, e, in, n, last)
    BY <1>1, PacketUnfold
  <2> HIDE DEF last
  <2> QED
    BY <2>1 DEF EncUnfolds
<1>3. Enc!EncodePacket(e, in, n) = upto[last]
  BY DEF Enc!EncodePacket, Code, Step
<1> HIDE DEF upto
<1> DEFINE Record(r) == r = [enc |-> r.enc, frames |-> r.frames]
           T == {i \in Nat : i <= last => Record(upto[i]) /\ Sent(e, in, i, upto[i])}
<1>4. 0 \in T
  <2>1. upto[0] = [enc |-> e, frames |-> <<>>]
    BY <1>1, <1>2 DEF EncUnfolds
  <2>2. Log(<<>>) /\ Len(<<>>) = 0
    BY DEF Log, Elements
  <2>3. Sent(e, in, 0, upto[0])
    BY <2>1, <2>2 DEF Sent, InSync, SameSilk
  <2> QED
    BY <2>1, <2>3
<1>5. ASSUME NEW i \in Nat, i \in T
      PROVE  i + 1 \in T
  <2> SUFFICES ASSUME i + 1 <= last PROVE Record(upto[i + 1]) /\ Sent(e, in, i + 1, upto[i + 1])
    OBVIOUS
  <2>1. Record(upto[i]) /\ Sent(e, in, i, upto[i])
    BY <1>1, <1>5
  <2>2. upto[i + 1] = Step(upto[i], Code(e, in, n, i + 1))
    BY <1>1, <1>2 DEF EncUnfolds
  <2>3. i + 1 \in 1 .. last /\ (i + 1) - 1 = i
    BY <1>1
  <2>4. Sent(e, in, i + 1, Step(upto[i], Code(e, in, n, i + 1)))
    BY <2>1, <2>3, StepSends
  <2>5. Record(Step(upto[i], Code(e, in, n, i + 1)))
    BY DEF Step, Enc!EncodeFrame
  <2> QED
    BY <2>2, <2>4, <2>5
<1> HIDE DEF T
<1>6. T = Nat
  <2>1. T \in SUBSET Nat
    BY DEF T
  <2> QED
    BY <1>4, <1>5, <2>1, NatSetInduction
<1>7. last \in T
  BY <1>1, <1>6
<1>8. last <= last
  BY <1>1
<1>9. Sent(e, in, last, upto[last])
  BY <1>7, <1>8 DEF T
<1> QED
  BY <1>3, <1>9

(***************************************************************************)
(* The decoder's log.                                                      *)
(***************************************************************************)
(* The fields of a decoder; a decoder is a record of them.                 *)
Fields ==
  {"channels", "prev_mode", "prev_redundancy", "first_frame_redundancy", "transition_pending",
   "transition_pcm", "bandwidth", "prev_internal_rate", "silk_resampler", "silk_resampler_r",
   "n_channels_internal", "fs_khz", "silk_dec", "celt_dec", "stale", "calls"}
IsDec(d) == d = [x \in Fields |-> d[x]]
(* e is d but for the fields X.                                            *)
Same(d, e, X) == IsDec(e) /\ \A x \in Fields \ X : e[x] = d[x]

StartFade(c) == c.op = "fade" /\ c.i = 1 /\ c.at # "end"

(* SILK frame f meets a decoder in state at, which has decoded no SILK in  *)
(* this packet yet (first). *)
Meets(at, f, first, x) ==
  f.intra \/ at = f.ref
    \/ (f.ref # Fresh /\ (at = Other \/ (x.leaves /\ at = Fresh /\ first)))

(* What is asked of call k, x = [sync, leaves]: whether no packet was      *)
(* lost, and whether this one leaves CELT.                                 *)
NoSilk(calls, n) == \A j \in 1 .. n : ~IsSilk(calls[j])
Good(calls, k, x) ==
  x.sync => /\ calls[k].op = "celt" => Follows(calls[k])
            /\ IsSilk(calls[k]) => Meets(calls[k].at, calls[k].frame, NoSilk(calls, k - 1), x)
Sound(calls, x) == Log(calls) /\ \A k \in 1 .. Len(calls) : Good(calls, k, x)

(* A call that may be appended.                                            *)
Fits(calls, c, x) ==
  x.sync => /\ c.op = "celt" => Follows(c)
            /\ IsSilk(c) => Meets(c.at, c.frame, NoSilk(calls, Len(calls)), x)

(* A call that may be appended keeps a log sound, and adds a start fade    *)
(* exactly when it is one.                                                 *)
LEMMA Logged ==
  ASSUME NEW calls, NEW x, Sound(calls, x), NEW c, Fits(calls, c, x)
  PROVE  /\ Sound(Append(calls, c), x)
         /\ ~StartFade(c) => StartFades(Append(calls, c)) = StartFades(calls)
         /\ StartFade(c) => StartFades(Append(calls, c)) = StartFades(calls) \cup {Len(calls) + 1}
         /\ NoSilk(calls, Len(calls)) /\ ~IsSilk(c) => NoSilk(Append(calls, c), Len(Append(calls, c)))
<1>1. Log(calls)
  BY DEF Sound
<1> DEFINE g == Append(calls, c)
           n == Len(calls)
<1>2. /\ Log(g) /\ Len(g) = n + 1 /\ n \in Nat /\ DOMAIN calls = 1 .. n /\ DOMAIN g = 1 .. n + 1
      /\ \A k \in 1 .. n : g[k] = calls[k]
      /\ g[n + 1] = c
  BY <1>1, AppendLog
<1> HIDE DEF g
<1>3. \A m \in 0 .. n : NoSilk(g, m) <=> NoSilk(calls, m)
  BY <1>2 DEF NoSilk
<1>4. ASSUME NEW k \in 1 .. n + 1
      PROVE  Good(g, k, x)
  <2>1. CASE k \in 1 .. n
    <3>1. Good(calls, k, x) /\ g[k] = calls[k]
      BY <1>2, <2>1 DEF Sound, n
    <3>2. k - 1 \in 0 .. n
      BY <2>1, <1>2
    <3>3. NoSilk(g, k - 1) <=> NoSilk(calls, k - 1)
      BY <1>3, <3>2
    <3> QED
      BY <3>1, <3>3 DEF Good, Meets
  <2>2. CASE k = n + 1
    <3>1. g[k] = c /\ k - 1 = n /\ n \in 0 .. n
      BY <1>2, <2>2
    <3>2. NoSilk(g, k - 1) <=> NoSilk(calls, n)
      BY <1>3, <3>1
    <3> QED
      BY <3>1, <3>2 DEF Good, Meets, Fits, n
  <2> QED
    BY <1>2, <2>1, <2>2
<1>5. Sound(g, x)
  BY <1>2, <1>4 DEF Sound
<1>6. /\ DOMAIN g = (DOMAIN calls) \cup {n + 1}
      /\ \A j \in DOMAIN calls : g[j] = calls[j]
      /\ n + 1 \notin DOMAIN calls
  BY <1>2
<1> DEFINE k == n + 1
<1>7. g[k] = c
  BY <1>2
<1>8. NoSilk(calls, n) /\ ~IsSilk(c) => NoSilk(g, n + 1)
  BY <1>2 DEF NoSilk
<1> HIDE DEF k
<1>9. ~StartFade(c) => StartFades(g) = StartFades(calls)
  BY <1>6, <1>7 DEF StartFades, StartFade, k
<1>10. StartFade(c) => StartFades(g) = StartFades(calls) \cup {k}
  BY <1>6, <1>7 DEF StartFades, StartFade, k
<1> QED
  BY <1>2, <1>5, <1>8, <1>9, <1>10 DEF g, k

(* e is d but for the fields X and sound calls that start no fade.         *)
Runs(d, e, X, x) ==
  /\ Same(d, e, X \cup {"calls"})
  /\ Sound(e.calls, x) /\ StartFades(e.calls) = StartFades(d.calls)

(* Running the CELT decoder changes the CELT state alone; with no loss it  *)
(* runs a frame that follows.                                              *)
LEMMA RunCeltRuns ==
  ASSUME NEW d, IsDec(d), NEW x, Sound(d.calls, x), NEW i, NEW what, NEW f,
         x.sync => f.intra \/ d.celt_dec = f.ref
  PROVE  /\ Runs(d, RunCelt(d, i, what, f), {"celt_dec"}, x)
         /\ RunCelt(d, i, what, f).celt_dec = After(d.celt_dec, f)
<1> DEFINE e == RunCelt(d, i, what, f)
           c == [op |-> "celt", i |-> i, what |-> what, at |-> d.celt_dec, frame |-> f]
<1>1. /\ Same(d, e, {"celt_dec", "calls"}) /\ e.calls = Append(d.calls, c)
      /\ e.celt_dec = After(d.celt_dec, f)
  BY DEF IsDec, Same, RunCelt, Call, After, Fields
<1>2. Fits(d.calls, c, x) /\ ~StartFade(c)
  BY DEF Fits, StartFade, Follows, IsSilk
<1> HIDE DEF c, e
<1>3. Sound(e.calls, x) /\ StartFades(e.calls) = StartFades(d.calls)
  BY <1>1, <1>2, Logged
<1> QED
  BY <1>1, <1>3 DEF Runs, e

(* SILK at a rate, then its resamplers: the history is dropped when the    *)
(* rate changes (silk_decoder_set_fs), then the frame decoded.             *)
LEMMA SilkRuns ==
  ASSUME NEW d, IsDec(d), NEW x, Sound(d.calls, x), NEW rate, NEW f, NEW right,
         x.sync => Meets(IF d.fs_khz = rate THEN d.silk_dec ELSE Fresh, f,
                         NoSilk(d.calls, Len(d.calls)), x)
  PROVE  LET e == Resample(RunSilk(SetFs(d, rate), "normal", f), rate, right) IN
         /\ Runs(d, e, {"silk_dec", "fs_khz"}, x) /\ e.fs_khz = rate
         /\ e.silk_dec = After(IF d.fs_khz = rate THEN d.silk_dec ELSE Fresh, f)
<1> DEFINE a == SetFs(d, rate)
           b == RunSilk(a, "normal", f)
           e == Resample(b, rate, right)
           silk == [op |-> "silk", what |-> "normal", at |-> a.silk_dec, frame |-> f,
                    stale |-> a.stale]
           resample == [op |-> "resample", rate |-> rate, left |-> b.silk_resampler,
                        right |-> IF right THEN b.silk_resampler_r ELSE rate]
<1>1. /\ Same(d, a, {"silk_dec", "fs_khz"}) /\ a.fs_khz = rate
      /\ a.silk_dec = IF d.fs_khz = rate THEN d.silk_dec ELSE Fresh
  BY DEF IsDec, Same, SetFs, Fields
<1> HIDE DEF a
<1>2. /\ Same(a, b, {"calls", "silk_dec"}) /\ b.calls = Append(a.calls, silk)
      /\ b.silk_dec = After(a.silk_dec, f)
  BY <1>1 DEF IsDec, Same, RunSilk, Call, After, Fields
<1> HIDE DEF b
<1>3. Same(b, e, {"calls"}) /\ e.calls = Append(b.calls, resample)
  BY <1>2 DEF IsDec, Same, Resample, Call, Fields
<1> HIDE DEF e
<1>4. Same(d, e, {"silk_dec", "fs_khz", "calls"}) /\ e.fs_khz = a.fs_khz /\ e.silk_dec = b.silk_dec
  BY <1>1, <1>2, <1>3 DEF Same, Fields
<1>5. a.calls = d.calls
  BY <1>1 DEF Same, Fields
<1>6. Fits(d.calls, silk, x) /\ ~StartFade(silk)
  BY <1>1, <1>5 DEF Fits, StartFade
<1>7. Fits(b.calls, resample, x) /\ ~StartFade(resample)
  BY DEF Fits, StartFade, IsSilk
<1> HIDE DEF silk, resample
<1>8. Sound(b.calls, x) /\ StartFades(b.calls) = StartFades(d.calls)
  BY <1>2, <1>5, <1>6, Logged
<1>9. Sound(e.calls, x) /\ StartFades(e.calls) = StartFades(d.calls)
  BY <1>3, <1>7, <1>8, Logged
<1> QED
  BY <1>1, <1>2, <1>4, <1>9 DEF Runs, a, b, e

(* A call that neither decodes nor fades.                                  *)
Idle(c) == c.op \notin {"celt", "fade"} /\ ~IsSilk(c)

(* Such a call leaves a log sound and its fades as they were.              *)
LEMMA IdleCall ==
  ASSUME NEW calls, NEW x, Sound(calls, x), NEW c, Idle(c)
  PROVE  /\ Sound(Append(calls, c), x)
         /\ StartFades(Append(calls, c)) = StartFades(calls)
         /\ NoSilk(calls, Len(calls)) => NoSilk(Append(calls, c), Len(Append(calls, c)))
<1>1. Fits(calls, c, x) /\ ~StartFade(c) /\ ~IsSilk(c)
  BY DEF Idle, Fits, StartFade
<1> QED
  BY <1>1, Logged

(***************************************************************************)
(* Concealment and the head of decode().                                   *)
(***************************************************************************)
(* Nothing of the packet is decoded or faded in yet.                       *)
Quiet(calls, x) ==
  Sound(calls, x) /\ NoSilk(calls, Len(calls)) /\ StartFades(calls) = {}

Formed(d) ==
  /\ IsDec(d) /\ d.prev_redundancy \in BOOLEAN
  /\ d.prev_mode \in {"silk", "hybrid", "celt", "none"}

ConcealFields == {"silk_resampler", "prev_internal_rate", "silk_dec", "fs_khz", "celt_dec", "calls"}

(* SILK's part of decode_plc decodes nothing of the stream; afterwards     *)
(* SILK follows no stream.                                                 *)
LEMMA ConcealSilkIs ==
  ASSUME NEW d, IsDec(d), NEW x, Quiet(d.calls, x), NEW rate
  PROVE  LET e == ConcealSilk(d, rate) IN
         /\ Same(d, e, ConcealFields) /\ Quiet(e.calls, x)
         /\ e.silk_dec = Other /\ e.fs_khz = rate
<1> DEFINE i == InitLeft(d, rate)
           a == SetFs(i, rate)
           b == RunSilk(a, "lost", Lost)
           right == d.channels = 2
           e == Resample(b, rate, right)
           silk == [op |-> "silk", what |-> "lost", at |-> a.silk_dec, frame |-> Lost,
                    stale |-> a.stale]
           resample == [op |-> "resample", rate |-> rate, left |-> b.silk_resampler,
                        right |-> IF right THEN b.silk_resampler_r ELSE rate]
<1>1. ConcealSilk(d, rate) = e
  BY DEF ConcealSilk
<1>2. Same(d, i, {"silk_resampler", "prev_internal_rate"})
  BY DEF IsDec, Same, InitLeft, Fields
<1> HIDE DEF i
<1>3. Same(i, a, {"silk_dec", "fs_khz"}) /\ a.fs_khz = rate
  BY <1>2 DEF IsDec, Same, SetFs, Fields
<1> HIDE DEF a
<1>4. Same(a, b, {"silk_dec", "calls"}) /\ b.silk_dec = Other /\ b.calls = Append(a.calls, silk)
  BY <1>3 DEF IsDec, Same, RunSilk, Call, Fields
<1> HIDE DEF b, right
<1>5. Same(b, e, {"calls"}) /\ e.calls = Append(b.calls, resample)
  BY <1>4 DEF IsDec, Same, Resample, Call, Fields
<1> HIDE DEF e
<1>6. Same(d, e, ConcealFields)
  BY <1>2, <1>3, <1>4, <1>5 DEF Same, ConcealFields
<1>7. e.silk_dec = b.silk_dec /\ e.fs_khz = a.fs_khz /\ a.calls = d.calls
  BY <1>2, <1>3, <1>4, <1>5 DEF Same, Fields
<1>8. Idle(silk) /\ Idle(resample)
  BY DEF Idle, IsSilk
<1> HIDE DEF silk, resample
<1>9. Quiet(b.calls, x)
  BY <1>4, <1>7, <1>8, IdleCall DEF Quiet
<1>10. Quiet(e.calls, x)
  BY <1>5, <1>8, <1>9, IdleCall DEF Quiet
<1> QED
  BY <1>1, <1>3, <1>4, <1>6, <1>7, <1>10

(* So is CELT's part.                                                      *)
LEMMA ConcealCeltIs ==
  ASSUME NEW d, IsDec(d)
  PROVE  /\ Same(d, ConcealCelt(d), {"celt_dec", "calls"})
         /\ \A x : Quiet(d.calls, x) => Quiet(ConcealCelt(d).calls, x)
<1> DEFINE e == ConcealCelt(d)
           c == [op |-> "conceal_lost", at |-> d.celt_dec]
<1>1. Same(d, e, {"celt_dec", "calls"}) /\ e.calls = Append(d.calls, c)
  BY DEF IsDec, Same, ConcealCelt, Call, Fields
<1>2. Idle(c)
  BY DEF Idle, IsSilk
<1> HIDE DEF c, e
<1>3. ASSUME NEW x, Quiet(d.calls, x) PROVE Quiet(e.calls, x)
  BY <1>1, <1>2, <1>3, IdleCall DEF Quiet
<1> QED
  BY <1>1, <1>3 DEF e

(* decode_plc decodes nothing and starts no fade; it loses the SILK state  *)
(* only if the last mode has SILK in it.                                   *)
LEMMA ConcealIs ==
  ASSUME NEW d, Formed(d), NEW x, Quiet(d.calls, x)
  PROVE  LET e == Conceal(d) IN
         /\ Formed(e) /\ Quiet(e.calls, x)
         /\ Same(d, e, ConcealFields \cup {"prev_mode", "prev_redundancy"})
         /\ ~d.prev_redundancy /\ d.prev_mode \in {"silk", "hybrid"} =>
              /\ e.prev_mode = d.prev_mode /\ e.prev_redundancy = FALSE
              /\ e.silk_dec = Other /\ e.fs_khz = Rate(d.prev_mode, d.bandwidth)
<1> DEFINE mode == PlcMode(d)
           rate == Rate(mode, d.bandwidth)
           silk == IF mode \in {"silk", "hybrid"} THEN ConcealSilk(d, rate) ELSE d
           both == IF mode \in {"celt", "hybrid"} THEN ConcealCelt(silk) ELSE silk
           e == Conceal(d)
<1>1. e = IF d.prev_mode = "none" THEN d
          ELSE [both EXCEPT !.prev_mode = mode, !.prev_redundancy = FALSE]
  BY DEF Conceal
<1>2. mode = IF d.prev_redundancy THEN "celt" ELSE d.prev_mode
  BY DEF PlcMode
<1> HIDE DEF mode, e
<1>3. /\ Same(d, silk, ConcealFields) /\ Quiet(silk.calls, x)
      /\ mode \in {"silk", "hybrid"} => silk.silk_dec = Other /\ silk.fs_khz = rate
  <2> HIDE DEF rate
  <2>1. CASE mode \in {"silk", "hybrid"}
    BY <2>1, ConcealSilkIs DEF Formed
  <2>2. CASE mode \notin {"silk", "hybrid"}
    BY <2>2 DEF Same, Formed
  <2> QED
    BY <2>1, <2>2
<1> HIDE DEF silk
<1>4. Same(silk, both, {"celt_dec", "calls"}) /\ Quiet(both.calls, x)
  <2>1. IsDec(silk)
    BY <1>3 DEF Same
  <2> QED
    BY <1>3, <2>1, ConcealCeltIs DEF Same
<1> HIDE DEF both
<1>5. CASE d.prev_mode = "none"
  <2>1. e = d
    BY <1>1, <1>5
  <2>2. Same(d, d, ConcealFields \cup {"prev_mode", "prev_redundancy"})
    BY DEF Same, Formed
  <2> QED
    BY <1>5, <2>1, <2>2 DEF e
<1>6. CASE d.prev_mode # "none"
  <2>1. /\ Same(both, e, {"prev_mode", "prev_redundancy"})
        /\ e.prev_mode = mode /\ e.prev_redundancy = FALSE
    BY <1>1, <1>4, <1>6 DEF IsDec, Same, Fields
  <2>2. Same(d, e, ConcealFields \cup {"prev_mode", "prev_redundancy"})
    BY <1>3, <1>4, <2>1 DEF Same, ConcealFields
  <2>3. e.silk_dec = silk.silk_dec /\ e.fs_khz = silk.fs_khz /\ e.calls = both.calls
    BY <1>4, <2>1 DEF Same, Fields
  <2>4. mode \in {"silk", "hybrid", "celt"}
    BY <1>2, <1>6 DEF Formed
  <2>5. Formed(e)
    BY <2>1, <2>2, <2>4 DEF Formed, Same
  <2>6. ~d.prev_redundancy /\ d.prev_mode \in {"silk", "hybrid"} =>
              /\ e.prev_mode = d.prev_mode /\ e.prev_redundancy = FALSE
              /\ e.silk_dec = Other /\ e.fs_khz = Rate(d.prev_mode, d.bandwidth)
    BY <1>2, <1>3, <2>1, <2>3
  <2> QED
    BY <1>4, <2>2, <2>3, <2>5, <2>6 DEF e
<1> QED
  BY <1>5, <1>6

(* The decoder seen from the encoder: the mode before the next packet.     *)
Seen(d) == IF d.prev_redundancy THEN "celt" ELSE d.prev_mode
Enters(d, p) == p.mode = "celt" /\ d.prev_mode \in {"silk", "hybrid"} /\ ~d.prev_redundancy
Leaves(d, p) == p.mode # "celt" /\ d.prev_mode = "celt"

HeadFields == {"silk_resampler", "silk_resampler_r", "prev_internal_rate", "silk_dec", "fs_khz", "celt_dec", "calls",
               "prev_redundancy", "first_frame_redundancy", "bandwidth", "transition_pcm",
               "transition_pending", "stale", "n_channels_internal"}

(* After Prepare.                                                          *)
Prepared(d, e, p, x) ==
  /\ Same(d, e, HeadFields) /\ Formed(e) /\ e.prev_redundancy = d.prev_redundancy
  /\ Quiet(e.calls, x) /\ e.bandwidth = p.bw
  /\ ~Leaves(d, p) => e.transition_pending = FALSE
  /\ ~Enters(d, p) => e.celt_dec = d.celt_dec
  /\ ~Enters(d, p) /\ ~Leaves(d, p) => e.silk_dec = d.silk_dec
  /\ ~Enters(d, p) => e.fs_khz = d.fs_khz
  /\ Leaves(d, p) => e.silk_dec = Fresh
  /\ Enters(d, p) => e.silk_dec = Other /\ e.fs_khz = Rate(d.prev_mode, d.bandwidth)

(* The head of decode(): on the way to CELT SILK is concealed, after CELT  *)
(* SILK is reset, and the CELT state is kept but for a concealment at      *)
(* once.                                                                   *)
LEMMA PrepareIs ==
  ASSUME NEW d, Formed(d), NEW x, Quiet(d.calls, x), d.transition_pending = FALSE, NEW p
  PROVE  Prepared(d, Prepare(d, p), p, x)
<1> DEFINE a == Transition(d, p)
           b == LeaveCelt(a, p)
           e == Prepare(d, p)
           Early == {"silk_resampler", "prev_internal_rate", "silk_dec", "fs_khz", "celt_dec", "calls",
                     "prev_redundancy", "transition_pcm", "transition_pending"}
<1>1. /\ Same(d, a, Early) /\ a.prev_redundancy = d.prev_redundancy /\ Quiet(a.calls, x)
      /\ ~Leaves(d, p) => a.transition_pending = FALSE
      /\ ~Enters(d, p) => a.celt_dec = d.celt_dec /\ a.silk_dec = d.silk_dec /\ a.fs_khz = d.fs_khz
      /\ Enters(d, p) => a.silk_dec = Other /\ a.fs_khz = Rate(d.prev_mode, d.bandwidth)
  <2>1. CASE d.prev_mode = "none"
    <3>1. a = d
      BY <2>1 DEF Transition
    <3>2. Same(d, d, Early)
      BY DEF Same, Formed
    <3> QED
      BY <2>1, <3>1, <3>2 DEF Enters
  <2>2. CASE Enters(d, p)
    <3> DEFINE c == Conceal(d)
    <3>1. /\ Formed(c) /\ Quiet(c.calls, x)
          /\ Same(d, c, ConcealFields \cup {"prev_mode", "prev_redundancy"})
          /\ c.prev_mode = d.prev_mode /\ c.prev_redundancy = FALSE
          /\ c.silk_dec = Other /\ c.fs_khz = Rate(d.prev_mode, d.bandwidth)
      BY <2>2, ConcealIs DEF Enters
    <3>2. a = [c EXCEPT !.transition_pcm = TRUE]
      BY <2>2 DEF Transition, Enters
    <3>3. d.prev_redundancy = FALSE
      BY <2>2 DEF Enters, Formed
    <3> HIDE DEF c, a
    <3>4. Same(c, a, {"transition_pcm"})
      BY <3>1, <3>2 DEF Formed, IsDec, Same, Fields
    <3>5. /\ a.prev_redundancy = c.prev_redundancy /\ a.calls = c.calls /\ a.silk_dec = c.silk_dec
          /\ a.fs_khz = c.fs_khz /\ a.transition_pending = d.transition_pending
          /\ a.prev_mode = c.prev_mode
      BY <3>1, <3>4 DEF Same, Fields, ConcealFields
    <3>6. Same(d, a, Early)
      BY <3>1, <3>4, <3>5 DEF Same, ConcealFields
    <3> QED
      BY <2>2, <3>1, <3>3, <3>5, <3>6 DEF Enters
  <2>3. CASE d.prev_mode # "none" /\ ~Enters(d, p)
    <3>1. a = [d EXCEPT !.transition_pending = Leaves(d, p)]
      BY <2>3 DEF Transition, Enters, Leaves, Formed
    <3> HIDE DEF a
    <3>2. Same(d, a, {"transition_pending"}) /\ a.transition_pending = Leaves(d, p)
      BY <3>1 DEF Formed, IsDec, Same, Fields
    <3>3. /\ a.prev_redundancy = d.prev_redundancy /\ a.calls = d.calls /\ a.silk_dec = d.silk_dec
          /\ a.fs_khz = d.fs_khz /\ a.celt_dec = d.celt_dec
      BY <3>2 DEF Same, Fields
    <3>4. Same(d, a, Early)
      BY <3>2 DEF Same
    <3> QED
      BY <2>3, <3>2, <3>3, <3>4
  <2> QED
    BY <2>1, <2>2, <2>3
<1> HIDE DEF a
<1>2. a.prev_mode = d.prev_mode /\ IsDec(a)
  BY <1>1 DEF Same, Fields
<1>3. /\ Same(a, b, {"silk_dec", "prev_internal_rate", "stale"})
      /\ Leaves(d, p) => b.silk_dec = Fresh
      /\ ~Leaves(d, p) => b = a
  BY <1>2 DEF LeaveCelt, IsDec, Same, Fields, Leaves
<1>4. e = [b EXCEPT !.first_frame_redundancy = FALSE, !.bandwidth = p.bw]
  BY DEF Prepare, a
<1> HIDE DEF b, e
<1>5. Same(b, e, {"first_frame_redundancy", "bandwidth"}) /\ e.bandwidth = p.bw
  BY <1>3, <1>4 DEF IsDec, Same, Fields
<1>6. /\ e.calls = a.calls /\ e.fs_khz = a.fs_khz /\ e.prev_redundancy = a.prev_redundancy
      /\ e.transition_pending = a.transition_pending /\ e.celt_dec = a.celt_dec
      /\ e.silk_dec = b.silk_dec /\ e.prev_mode = d.prev_mode
  BY <1>2, <1>3, <1>5 DEF Same, Fields
<1>7. Same(d, e, HeadFields)
  BY <1>1, <1>3, <1>5 DEF Same, HeadFields
<1>8. Formed(e)
  BY <1>1, <1>6, <1>7 DEF Formed, Same
<1>9. ~(Enters(d, p) /\ Leaves(d, p))
  BY DEF Enters, Leaves
<1>10. Prepared(d, e, p, x)
  BY <1>1, <1>3, <1>5, <1>6, <1>7, <1>8, <1>9 DEF Prepared
<1> QED
  BY <1>10 DEF e

(***************************************************************************)
(* One lemma per operator of a frame.                                      *)
(***************************************************************************)
(* The concealment a switch still owes is run in frame 1, unless the frame *)
(* brings redundancy.                                                      *)
Due(d, i, f) == d.transition_pending /\ i = 1 /\ f.red \in {"none", "empty"}

(* Concealment by CELT in a frame changes the CELT state alone.            *)
LEMMA ConcealCeltRuns ==
  ASSUME NEW d, IsDec(d), NEW x, Sound(d.calls, x)
  PROVE  Runs(d, ConcealCelt(d), {"celt_dec"}, x)
<1> DEFINE e == ConcealCelt(d)
           c == [op |-> "conceal_lost", at |-> d.celt_dec]
<1>1. Same(d, e, {"celt_dec", "calls"}) /\ e.calls = Append(d.calls, c)
  BY DEF IsDec, Same, ConcealCelt, Call, Fields
<1>2. Idle(c)
  BY DEF Idle, IsSilk
<1> HIDE DEF c, e
<1> QED
  BY <1>1, <1>2, IdleCall DEF Runs, e

PlcEffect(d, e, i, f, x) ==
  /\ Runs(d, e, {"celt_dec", "transition_pending", "transition_pcm"}, x)
  /\ e.transition_pending = FALSE
  /\ ~Due(d, i, f) => e.celt_dec = d.celt_dec

(* After that nothing is owed any more, and the CELT state is kept unless  *)
(* something was.                                                          *)
LEMMA RunTransitionPlcRuns ==
  ASSUME NEW d, IsDec(d), NEW x, Sound(d.calls, x), NEW i, NEW f
  PROVE  PlcEffect(d, RunTransitionPlc(d, i, f), i, f, x)
<1> DEFINE due == Due(d, i, f)
           a == IF due THEN ConcealCelt(d) ELSE d
           e == RunTransitionPlc(d, i, f)
<1>1. Runs(d, a, {"celt_dec"}, x) /\ (~due => a = d)
  BY ConcealCeltRuns DEF Runs, Same
<1>2. e = [a EXCEPT !.transition_pending = FALSE, !.transition_pcm = due \/ @]
  BY DEF RunTransitionPlc, Due
<1> HIDE DEF a, due, e
<1>4. IsDec(a)
  BY <1>1 DEF Runs, Same
<1>5. /\ Same(a, e, {"transition_pending", "transition_pcm"}) /\ e.transition_pending = FALSE
  BY <1>2, <1>4 DEF IsDec, Same, Fields
<1>6. e.calls = a.calls /\ e.celt_dec = a.celt_dec
  BY <1>5 DEF Same, Fields
<1>7. Runs(d, e, {"celt_dec", "transition_pending", "transition_pcm"}, x)
  BY <1>1, <1>5, <1>6 DEF Runs, Same, Fields
<1> QED
  BY <1>1, <1>5, <1>6, <1>7 DEF e, due, PlcEffect

(* A reset of the CELT decoder touches nothing else.                       *)
LEMMA ResetCeltIs ==
  ASSUME NEW d, IsDec(d)
  PROVE  Same(d, ResetCelt(d), {"celt_dec"})
  BY DEF IsDec, Same, ResetCelt, Fields

(* The redundant frame that leads to SILK is decoded from the CELT state   *)
(* there is.                                                               *)
LEMMA ToSilkRuns ==
  ASSUME NEW d, IsDec(d), NEW x, Sound(d.calls, x), NEW i, NEW f,
         x.sync /\ f.red = "to_silk" => f.rc.intra \/ d.celt_dec = f.rc.ref
  PROVE  LET e == DecodeRedundantCelt(d, i, f, "to_silk") IN
         Runs(d, e, {"celt_dec"}, x) /\ (f.red # "to_silk" => e = d)
<1>1. CASE f.red # "to_silk"
  BY <1>1 DEF DecodeRedundantCelt, Runs, Same
<1>2. CASE f.red = "to_silk"
  BY <1>2, RunCeltRuns DEF DecodeRedundantCelt
<1> QED
  BY <1>1, <1>2

(* The one that leads to CELT is decoded after a reset and leaves its own  *)
(* state.                                                                  *)
LEMMA ToCeltRuns ==
  ASSUME NEW d, IsDec(d), NEW x, Sound(d.calls, x), NEW i, NEW f, f.red = "to_celt" => f.rc.intra
  PROVE  LET e == DecodeRedundantCelt(d, i, f, "to_celt") IN
         /\ Runs(d, e, {"celt_dec"}, x)
         /\ f.red # "to_celt" => e = d
         /\ f.red = "to_celt" => e.celt_dec = f.rc.id
<1>1. CASE f.red # "to_celt"
  BY <1>1 DEF DecodeRedundantCelt, Runs, Same
<1>2. CASE f.red = "to_celt"
  <2> DEFINE a == ResetCelt(d)
             what == "to_celt"
             e == RunCelt(a, i, what, f.rc)
  <2>1. Same(d, a, {"celt_dec"})
    BY ResetCeltIs
  <2>2. IsDec(a) /\ a.calls = d.calls
    BY <2>1 DEF Same, Fields
  <2>3. DecodeRedundantCelt(d, i, f, "to_celt") = e
    BY <1>2 DEF DecodeRedundantCelt
  <2> HIDE DEF a, what
  <2>4. Runs(a, e, {"celt_dec"}, x) /\ e.celt_dec = After(a.celt_dec, f.rc)
    BY <1>2, <2>2, RunCeltRuns
  <2> HIDE DEF e
  <2>5. Runs(d, e, {"celt_dec"}, x) /\ e.celt_dec = f.rc.id
    BY <1>2, <2>1, <2>2, <2>4 DEF Runs, Same, Fields, After
  <2> QED
    BY <1>2, <2>3, <2>5
<1> QED
  BY <1>1, <1>2

(* The frame of silence that fades the CELT layer out needs no state.      *)
LEMMA HybridFadeOutRuns ==
  ASSUME NEW d, IsDec(d), NEW x, Sound(d.calls, x), NEW i, NEW pm, NEW f
  PROVE  Runs(d, HybridFadeOut(d, i, pm, f), {"celt_dec"}, x)
<1>1. Runs(d, d, {"celt_dec"}, x)
  BY DEF Runs, Same
<1> DEFINE s == Silence
           what == "silence"
<1>2. s.intra
  BY DEF Silence
<1>3. HybridFadeOut(d, i, pm, f) \in {d, RunCelt(d, i, what, s)}
  BY DEF HybridFadeOut
<1> HIDE DEF s, what
<1>4. Runs(d, RunCelt(d, i, what, s), {"celt_dec"}, x)
  BY <1>2, RunCeltRuns
<1> QED
  BY <1>1, <1>3, <1>4

(* The fade of a redundant frame: it starts frame 1 if it leads to SILK.   *)
StartsWith(i, f) == i = 1 /\ f.red = "to_silk"

FadeEffect(d, e, i, f, x) ==
  /\ Same(d, e, {"calls", "prev_redundancy", "first_frame_redundancy"})
  /\ e.prev_redundancy = (f.red = "to_celt")
  /\ i = 1 => (e.first_frame_redundancy <=> f.red \in {"to_silk", "to_celt"})
  /\ i # 1 => e.first_frame_redundancy = d.first_frame_redundancy
  /\ Sound(e.calls, x)
  /\ StartsWith(i, f) => \E k : StartFades(e.calls) = StartFades(d.calls) \cup {k}
  /\ ~StartsWith(i, f) => StartFades(e.calls) = StartFades(d.calls)

(* The end of a frame that may have carried redundancy: its flags, and one *)
(* fade.                                                                   *)
LEMMA RedundancyIs ==
  ASSUME NEW d, IsDec(d), NEW x, Sound(d.calls, x), NEW i, NEW f
  PROVE  FadeEffect(d, Redundancy(d, i, f), i, f, x)
<1> DEFINE a == RedundancyFade(d, i, f)
           e == Redundancy(d, i, f)
           c == [op |-> "fade", i |-> i, at |-> IF f.red = "to_silk" THEN "start" ELSE "end"]
<1>1. a = IF f.red \in {"to_silk", "to_celt"} THEN [d EXCEPT !.calls = Append(d.calls, c)] ELSE d
  BY DEF RedundancyFade, Fade, Call
<1>2. Fits(d.calls, c, x) /\ (StartFade(c) <=> StartsWith(i, f))
  BY DEF Fits, StartFade, StartsWith, IsSilk
<1> HIDE DEF a, c
<1>3. Same(d, a, {"calls"})
  BY <1>1 DEF IsDec, Same, Fields
<1>4. a.calls = IF f.red \in {"to_silk", "to_celt"} THEN Append(d.calls, c) ELSE d.calls
  BY <1>1 DEF IsDec, Fields
<1>5. /\ Sound(a.calls, x)
      /\ StartsWith(i, f) => \E k : StartFades(a.calls) = StartFades(d.calls) \cup {k}
      /\ ~StartsWith(i, f) => StartFades(a.calls) = StartFades(d.calls)
  <2>1. /\ Sound(Append(d.calls, c), x)
        /\ StartFade(c) => StartFades(Append(d.calls, c)) = StartFades(d.calls) \cup {Len(d.calls) + 1}
        /\ ~StartFade(c) => StartFades(Append(d.calls, c)) = StartFades(d.calls)
    BY <1>2, Logged
  <2>2. CASE f.red \in {"to_silk", "to_celt"}
    BY <1>2, <1>4, <2>1, <2>2
  <2>3. CASE f.red \notin {"to_silk", "to_celt"}
    BY <1>4, <2>3 DEF StartsWith
  <2> QED
    BY <2>2, <2>3
<1>6. /\ Same(a, e, {"prev_redundancy", "first_frame_redundancy"})
      /\ e.prev_redundancy = (f.red = "to_celt")
      /\ e.first_frame_redundancy =
              IF i = 1 THEN f.red \in {"to_silk", "to_celt"} ELSE a.first_frame_redundancy
  BY <1>3 DEF IsDec, Same, Redundancy, Fields, a
<1> HIDE DEF e
<1>7. e.calls = a.calls /\ a.first_frame_redundancy = d.first_frame_redundancy
  BY <1>3, <1>6 DEF Same, Fields
<1>8. Same(d, e, {"calls", "prev_redundancy", "first_frame_redundancy"})
  BY <1>3, <1>6 DEF Same, Fields
<1>9. /\ i = 1 => (e.first_frame_redundancy <=> f.red \in {"to_silk", "to_celt"})
      /\ i # 1 => e.first_frame_redundancy = d.first_frame_redundancy
  BY <1>6, <1>7
<1> QED
  BY <1>5, <1>6, <1>7, <1>8, <1>9 DEF e, FadeEffect

(***************************************************************************)
(* A frame.                                                                *)
(***************************************************************************)
FrameFields == {"prev_redundancy", "first_frame_redundancy", "transition_pending",
                "transition_pcm", "fs_khz", "silk_dec", "celt_dec", "stale", "calls"}

(* The state SILK is in for a frame at a rate.                             *)
At(d, rate) == IF d.fs_khz = rate THEN d.silk_dec ELSE Fresh

(* What a decoder in step with its encoder finds in frame i of a packet.   *)
Ready(d, m, rate, f, i, x) ==
  /\ f.red # "empty"
  /\ m # "celt" => Meets(At(d, rate), f.silk, NoSilk(d.calls, Len(d.calls)), x)
  /\ f.red = "to_silk" => f.rc.intra \/ d.celt_dec = f.rc.ref
  /\ m = "celt" => f.celt.intra \/ d.celt_dec = f.celt.ref
  /\ m = "hybrid" => f.celt.intra \/
       /\ d.celt_dec = f.celt.ref /\ f.red # "to_silk"
       /\ i = 1 => d.transition_pending = FALSE /\ d.prev_mode \in {"none", "hybrid"}

HeadEffect(d, e, rate, f, i, x) ==
  /\ Runs(d, e, {"silk_dec", "fs_khz", "celt_dec", "transition_pending", "transition_pcm"}, x)
  /\ e.fs_khz = rate /\ e.silk_dec \in {f.silk.id, Other} /\ e.transition_pending = FALSE
  /\ ~Due(d, i, f) /\ f.red # "to_silk" => e.celt_dec = d.celt_dec

(* SILK layer, the concealment that is owed, redundancy that leads to      *)
(* SILK.                                                                   *)
LEMMA HeadRuns ==
  ASSUME NEW d, IsDec(d), NEW x, Sound(d.calls, x), NEW p, p.mode # "celt", NEW i, NEW f,
         x.sync => Ready(d, p.mode, Rate(p.mode, p.bw), f, i, x)
  PROVE  HeadEffect(d, DecodeRedundantCelt(RunTransitionPlc(SilkLayer(d, p, f), i, f),
                                               i, f, "to_silk"),
                    Rate(p.mode, p.bw), f, i, x)
<1> DEFINE rate == Rate(p.mode, p.bw)
           right == d.channels = 2
           s == f.silk
           d1 == SilkLayer(d, p, f)
           d2 == RunTransitionPlc(d1, i, f)
           d3 == DecodeRedundantCelt(d2, i, f, "to_silk")
<1>1. Runs(d, d1, {"silk_dec", "fs_khz"}, x) /\ d1.fs_khz = rate /\ d1.silk_dec \in {s.id, Other}
  <2> DEFINE e == Resample(RunSilk(SetFs(d, rate), "normal", s), rate, right)
  <2>1. d1 = e
    BY DEF SilkLayer
  <2>2. x.sync => Meets(IF d.fs_khz = rate THEN d.silk_dec ELSE Fresh, s,
                        NoSilk(d.calls, Len(d.calls)), x)
    BY DEF Ready, At
  <2> HIDE DEF rate, right, s, d1
  <2>3. /\ Runs(d, e, {"silk_dec", "fs_khz"}, x) /\ e.fs_khz = rate
        /\ e.silk_dec = After(IF d.fs_khz = rate THEN d.silk_dec ELSE Fresh, s)
    BY <2>2, SilkRuns
  <2> HIDE DEF e
  <2> QED
    BY <2>1, <2>3 DEF After
<1> HIDE DEF d1, rate, s
<1>2. /\ IsDec(d1) /\ Sound(d1.calls, x)
      /\ d1.transition_pending = d.transition_pending /\ d1.celt_dec = d.celt_dec
  BY <1>1 DEF Runs, Same, Fields
<1>3. PlcEffect(d1, d2, i, f, x)
  BY <1>2, RunTransitionPlcRuns
<1> HIDE DEF d2
<1>4. Due(d1, i, f) <=> Due(d, i, f)
  BY <1>2 DEF Due
<1>5. IsDec(d2) /\ Sound(d2.calls, x) /\ (~Due(d, i, f) => d2.celt_dec = d.celt_dec)
  BY <1>2, <1>3, <1>4 DEF PlcEffect, Runs, Same
<1>6. Runs(d2, d3, {"celt_dec"}, x) /\ (f.red # "to_silk" => d3 = d2)
  <2>1. f.red = "to_silk" => ~Due(d, i, f)
    BY DEF Due
  <2>2. x.sync /\ f.red = "to_silk" => f.rc.intra \/ d2.celt_dec = f.rc.ref
    BY <1>5, <2>1 DEF Ready
  <2> QED
    BY <1>5, <2>2, ToSilkRuns
<1> HIDE DEF d3
<1>7. /\ Same(d, d3, {"silk_dec", "fs_khz", "celt_dec", "transition_pending", "transition_pcm", "calls"})
      /\ d3.fs_khz = d1.fs_khz /\ d3.silk_dec = d1.silk_dec
      /\ d3.transition_pending = d2.transition_pending
  BY <1>1, <1>3, <1>6 DEF PlcEffect, Runs, Same, Fields
<1>8. Sound(d3.calls, x) /\ StartFades(d3.calls) = StartFades(d.calls)
  BY <1>1, <1>3, <1>6 DEF PlcEffect, Runs
<1>9. ~Due(d, i, f) /\ f.red # "to_silk" => d3.celt_dec = d.celt_dec
  BY <1>5, <1>6
<1> QED
  BY <1>1, <1>3, <1>7, <1>8, <1>9 DEF HeadEffect, PlcEffect, Runs, d1, d2, d3, rate, s

(* A frame of SILK or hybrid, from d to e.                                 *)
SilkEffect(d, e, rate, m, f, i, x) ==
  /\ Same(d, e, FrameFields) /\ Sound(e.calls, x)
  /\ e.fs_khz = rate /\ e.silk_dec \in {f.silk.id, Other}
  /\ e.transition_pending = FALSE
  /\ e.prev_redundancy = (f.red = "to_celt")
  /\ f.red = "to_celt" => e.celt_dec = f.rc.id
  /\ f.red # "to_celt" /\ m = "hybrid" /\ (f.celt.intra \/ x.sync) => e.celt_dec = f.celt.id
  /\ i = 1 => (e.first_frame_redundancy <=> f.red \in {"to_silk", "to_celt"})
  /\ i # 1 => e.first_frame_redundancy = d.first_frame_redundancy
  /\ StartsWith(i, f) => \E k : StartFades(e.calls) = StartFades(d.calls) \cup {k}
  /\ ~StartsWith(i, f) => StartFades(e.calls) = StartFades(d.calls)

(* What is left after the CELT layer or the fade out of one.               *)
LEMMA TailRuns ==
  ASSUME NEW d, NEW d3, NEW d4, NEW x, NEW i, NEW f, NEW rate, NEW m,
         HeadEffect(d, d3, rate, f, i, x), Runs(d3, d4, {"celt_dec"}, x),
         f.red = "to_celt" => f.rc.intra,
         m = "hybrid" /\ (f.celt.intra \/ x.sync) => d4.celt_dec = f.celt.id
  PROVE  SilkEffect(d, Redundancy(DecodeRedundantCelt(d4, i, f, "to_celt"), i, f), rate, m, f, i, x)
<1> DEFINE d5 == DecodeRedundantCelt(d4, i, f, "to_celt")
           e == Redundancy(d5, i, f)
<1>1. IsDec(d4) /\ Sound(d4.calls, x)
  BY DEF Runs, Same
<1>2. /\ Runs(d4, d5, {"celt_dec"}, x)
      /\ f.red # "to_celt" => d5 = d4
      /\ f.red = "to_celt" => d5.celt_dec = f.rc.id
  BY <1>1, ToCeltRuns
<1> HIDE DEF d5
<1>3. IsDec(d5) /\ Sound(d5.calls, x)
  BY <1>2 DEF Runs, Same
<1>4. FadeEffect(d5, e, i, f, x)
  BY <1>3, RedundancyIs
<1> HIDE DEF e
<1>6. /\ Same(d, d5, {"silk_dec", "fs_khz", "celt_dec", "transition_pending", "transition_pcm", "calls"})
      /\ d5.fs_khz = d3.fs_khz /\ d5.silk_dec = d3.silk_dec
      /\ d5.transition_pending = d3.transition_pending
      /\ StartFades(d5.calls) = StartFades(d.calls)
  BY <1>2 DEF HeadEffect, Runs, Same, Fields
<1>7. /\ Same(d, e, FrameFields)
      /\ e.fs_khz = d3.fs_khz /\ e.silk_dec = d3.silk_dec /\ e.celt_dec = d5.celt_dec
      /\ e.transition_pending = d3.transition_pending
      /\ d5.first_frame_redundancy = d.first_frame_redundancy
  BY <1>4, <1>6 DEF FadeEffect, Same, Fields, FrameFields
<1>8. /\ f.red = "to_celt" => e.celt_dec = f.rc.id
      /\ f.red # "to_celt" /\ m = "hybrid" /\ (f.celt.intra \/ x.sync) => e.celt_dec = f.celt.id
  BY <1>2, <1>7
<1>9. SilkEffect(d, e, rate, m, f, i, x)
  BY <1>4, <1>6, <1>7, <1>8 DEF SilkEffect, HeadEffect, FadeEffect
<1> QED
  BY <1>9 DEF e, d5

(* A SILK frame has that effect.                                           *)
LEMMA SilkFrameRuns ==
  ASSUME NEW d, IsDec(d), NEW x, Sound(d.calls, x), NEW p, p.mode = "silk", NEW i,
         x.sync => Ready(d, p.mode, Rate(p.mode, p.bw), p.frames[i], i, x),
         p.frames[i].red = "to_celt" => p.frames[i].rc.intra
  PROVE  SilkEffect(d, SilkFrame(d, p, i), Rate(p.mode, p.bw), p.mode, p.frames[i], i, x)
<1> DEFINE f == p.frames[i]
           rate == Rate(p.mode, p.bw)
           pm == IF i = 1 THEN d.prev_mode ELSE "silk"
           d3 == DecodeRedundantCelt(RunTransitionPlc(SilkLayer(d, p, f), i, f), i, f, "to_silk")
           d4 == HybridFadeOut(d3, i, pm, f)
           e == Redundancy(DecodeRedundantCelt(d4, i, f, "to_celt"), i, f)
<1>1. HeadEffect(d, d3, rate, f, i, x)
  BY HeadRuns
<1>2. IsDec(d3) /\ Sound(d3.calls, x)
  BY <1>1 DEF HeadEffect, Runs, Same
<1>4. SilkFrame(d, p, i) = e
  BY DEF SilkFrame
<1> HIDE DEF d3
<1>3. Runs(d3, d4, {"celt_dec"}, x)
  BY <1>2, HybridFadeOutRuns
<1>5. (f.red = "to_celt" => f.rc.intra) /\ p.mode # "hybrid"
  OBVIOUS
<1> HIDE DEF d4, f, rate
<1>6. SilkEffect(d, e, rate, p.mode, f, i, x)
  BY <1>1, <1>3, <1>5, TailRuns
<1> HIDE DEF e
<1> QED
  BY <1>4, <1>6 DEF f, rate

(* The reset on a change of mode leaves CELT alone after redundancy or in  *)
(* the mode there was.                                                     *)
LEMMA ResetOnSwitchIs ==
  ASSUME NEW d, IsDec(d), NEW mode
  PROVE  /\ Same(d, ResetOnSwitch(d, mode), {"celt_dec"})
         /\ d.prev_redundancy \/ d.prev_mode \in {"none", mode} => ResetOnSwitch(d, mode) = d
  BY ResetCeltIs DEF ResetOnSwitch, Same

(* So has a hybrid frame, whose CELT layer finds the state it needs:       *)
(* nothing was concealed, reset or decoded in between unless the frame     *)
(* uses no state.                                                          *)
LEMMA HybridFrameRuns ==
  ASSUME NEW d, IsDec(d), NEW x, Sound(d.calls, x), NEW p, p.mode = "hybrid", NEW i,
         x.sync => Ready(d, p.mode, Rate(p.mode, p.bw), p.frames[i], i, x),
         p.frames[i].red = "to_celt" => p.frames[i].rc.intra
  PROVE  SilkEffect(d, HybridFrame(d, p, i), Rate(p.mode, p.bw), p.mode, p.frames[i], i, x)
<1> DEFINE f == p.frames[i]
           rate == Rate(p.mode, p.bw)
           d3 == DecodeRedundantCelt(RunTransitionPlc(SilkLayer(d, p, f), i, f), i, f, "to_silk")
           r3 == IF i = 1 THEN ResetOnSwitch(d3, "hybrid") ELSE d3
           what == "main"
           g == f.celt
           d4 == RunCelt(r3, i, what, g)
           e == Redundancy(DecodeRedundantCelt(d4, i, f, "to_celt"), i, f)
<1>1. HeadEffect(d, d3, rate, f, i, x)
  BY HeadRuns
<1>2. IsDec(d3) /\ Sound(d3.calls, x) /\ d3.prev_mode = d.prev_mode
  BY <1>1 DEF HeadEffect, Runs, Same, Fields
<1>4. HybridFrame(d, p, i) = e
  BY DEF HybridFrame
<1>5. (f.red = "to_celt" => f.rc.intra) /\ (x.sync => Ready(d, p.mode, rate, f, i, x))
  OBVIOUS
<1> HIDE DEF d3, f, rate
<1>6. /\ Same(d3, r3, {"celt_dec"})
      /\ i # 1 \/ d3.prev_mode \in {"none", "hybrid"} => r3 = d3
  BY <1>2, ResetOnSwitchIs DEF Same
<1> HIDE DEF r3
<1>7. IsDec(r3) /\ r3.calls = d3.calls
  BY <1>6 DEF Same, Fields
<1>8. x.sync => g.intra \/ r3.celt_dec = g.ref
  <2>1. SUFFICES ASSUME x.sync, ~g.intra PROVE r3.celt_dec = g.ref
    OBVIOUS
  <2>2. /\ d.celt_dec = g.ref /\ f.red # "to_silk"
        /\ i = 1 => d.transition_pending = FALSE /\ d.prev_mode \in {"none", "hybrid"}
    BY <1>5, <2>1 DEF Ready, g
  <2>3. ~Due(d, i, f)
    BY <2>2 DEF Due
  <2>4. d3.celt_dec = d.celt_dec
    BY <1>1, <2>2, <2>3 DEF HeadEffect
  <2>5. r3 = d3
    BY <1>2, <1>6, <2>2
  <2> QED
    BY <2>2, <2>4, <2>5
<1> HIDE DEF what, g
<1>9. Runs(r3, d4, {"celt_dec"}, x) /\ d4.celt_dec = After(r3.celt_dec, g)
  BY <1>2, <1>7, <1>8, RunCeltRuns
<1> HIDE DEF d4
<1>10. Runs(d3, d4, {"celt_dec"}, x)
  BY <1>6, <1>7, <1>9 DEF Runs, Same, Fields
<1>11. f.celt.intra \/ x.sync => d4.celt_dec = f.celt.id
  BY <1>8, <1>9 DEF After, g
<1>12. SilkEffect(d, e, rate, p.mode, f, i, x)
  BY <1>1, <1>5, <1>10, <1>11, TailRuns
<1> HIDE DEF e
<1> QED
  BY <1>4, <1>12 DEF f, rate

(* A CELT frame decodes from the CELT state there is.                      *)
LEMMA CeltFrameRuns ==
  ASSUME NEW d, IsDec(d), NEW x, Sound(d.calls, x), NEW p, NEW i,
         x.sync => p.frames[i].celt.intra \/ d.celt_dec = p.frames[i].celt.ref
  PROVE  LET e == CeltFrame(d, p, i) IN
         /\ Runs(d, e, {"celt_dec", "stale"}, x)
         /\ e.celt_dec = After(d.celt_dec, p.frames[i].celt)
<1> DEFINE what == "main"
           g == p.frames[i].celt
           a == RunCelt(d, i, what, g)
           e == CeltFrame(d, p, i)
<1>2. e = [a EXCEPT !.stale = TRUE]
  BY DEF CeltFrame
<1> HIDE DEF what, g
<1>1. Runs(d, a, {"celt_dec"}, x) /\ a.celt_dec = After(d.celt_dec, g)
  BY RunCeltRuns DEF g
<1> HIDE DEF a, e
<1>3. Same(a, e, {"stale"})
  BY <1>1, <1>2 DEF Runs, Same, IsDec, Fields
<1>4. e.calls = a.calls /\ e.celt_dec = a.celt_dec
  BY <1>3 DEF Same, Fields
<1> QED
  BY <1>1, <1>3, <1>4 DEF Runs, Same, Fields, e, g

(***************************************************************************)
(* The frames of a packet, one after the other.                            *)
(***************************************************************************)
FramesOf(p) == 1 .. Len(p.frames)
RateOf(p) == Rate(p.mode, p.bw)

(* A packet of the encoder, and one of coded frames only.                  *)
Parcel(p) ==
  /\ p.mode \in {"silk", "hybrid", "celt"} /\ p.ch \in 1 .. Channels
  /\ Len(p.frames) \in Nat \ {0}
  /\ \A i \in FramesOf(p) : Whole(p.frames[i], p.mode)
                        /\ (i # Len(p.frames) => p.frames[i].red # "to_celt")
Chain(p) ==
  /\ \A i \in FramesOf(p) : Named(p.frames[i], p.mode)
  /\ \A i \in FramesOf(p) : i # 1 => Linked(p.frames[i - 1], p.frames[i], p.mode)

(* The decoder before the first frame of p.                                *)
Armed(a, p, x) ==
  /\ IsDec(a) /\ Quiet(a.calls, x) /\ Parcel(p)
  /\ x.sync => Chain(p) /\ Ready(a, p.mode, RateOf(p), p.frames[1], 1, x)

(* The decoder u after frame f of p.                                       *)
Played(u, p, f, x) ==
  /\ f.red = "to_celt" => u.celt_dec = f.rc.id
  /\ f.red # "to_celt" /\ p.mode # "silk" /\ (f.celt.intra \/ x.sync) => u.celt_dec = f.celt.id
  /\ p.mode # "celt" => /\ u.prev_redundancy = (f.red = "to_celt") /\ u.transition_pending = FALSE
                        /\ u.fs_khz = RateOf(p) /\ u.silk_dec \in {f.silk.id, Other}

(* What frame 1 has left.                                                  *)
Begun(a, u, f) ==
  /\ u.first_frame_redundancy <=> f.red \in {"to_silk", "to_celt"}
  /\ f.red = "to_silk" => \E k : StartFades(u.calls) = StartFades(a.calls) \cup {k}

(* The decoder u after j frames of p.                                      *)
Loop(a, p, x, j, u) ==
  /\ Same(a, u, FrameFields) /\ Sound(u.calls, x)
  /\ j = 0 => u = a
  /\ p.mode = "celt" => /\ u.prev_redundancy = a.prev_redundancy
                        /\ u.silk_dec = a.silk_dec /\ u.fs_khz = a.fs_khz
  /\ j # 0 => Played(u, p, p.frames[j], x)
  /\ j # 0 /\ p.mode # "celt" => Begun(a, u, p.frames[1])

(* The state after one frame is the one the next is ready for.             *)
LEMMA NextReady ==
  ASSUME NEW a, NEW p, NEW x, x.sync, Armed(a, p, x), NEW j \in FramesOf(p), NEW u, Loop(a, p, x, j - 1, u)
  PROVE  Ready(u, p.mode, RateOf(p), p.frames[j], j, x)
<1>1. CASE j = 1
  BY <1>1 DEF Loop, Armed
<1>2. CASE j # 1
  <2> DEFINE f == p.frames[j - 1]
             g == p.frames[j]
  <2>1. j - 1 # 0 /\ j - 1 \in FramesOf(p) /\ j - 1 # Len(p.frames)
    BY <1>2 DEF FramesOf, Armed, Parcel
  <2>2. /\ Named(f, p.mode) /\ Named(g, p.mode) /\ Linked(f, g, p.mode) /\ f.red # "to_celt"
    BY <1>2, <2>1 DEF Armed, Parcel, Chain
  <2>3. Played(u, p, f, x)
    BY <2>1 DEF Loop
  <2>4. p.mode \in {"silk", "hybrid", "celt"}
    BY DEF Armed, Parcel
  <2> HIDE DEF f, g
  <2>5. g.red # "empty" /\ g.red # "to_silk"
    BY <2>2 DEF Named, Linked
  <2>6. p.mode # "silk" => u.celt_dec = g.celt.ref
    BY <2>2, <2>3 DEF Played, Linked
  <2>7. p.mode # "celt" => Meets(At(u, RateOf(p)), g.silk, NoSilk(u.calls, Len(u.calls)), x)
    <3>1. SUFFICES ASSUME p.mode # "celt"
          PROVE Meets(At(u, RateOf(p)), g.silk, NoSilk(u.calls, Len(u.calls)), x)
      OBVIOUS
    <3>2. At(u, RateOf(p)) \in {f.silk.id, Other}
      BY <2>3, <3>1 DEF Played, At
    <3>3. g.silk.ref = f.silk.id /\ f.silk.id # Fresh
      BY <2>2, <3>1 DEF Named, Linked
    <3> QED
      BY <3>2, <3>3 DEF Meets
  <2>8. Ready(u, p.mode, RateOf(p), g, j, x)
    BY <1>2, <2>4, <2>5, <2>6, <2>7 DEF Ready
  <2> QED
    BY <2>8 DEF g
<1> QED
  BY <1>1, <1>2

(* One turn of the loop over the frames keeps what Loop says.              *)
LEMMA FrameLoops ==
  ASSUME NEW a, NEW p, NEW x, Armed(a, p, x), NEW j \in FramesOf(p), NEW u, Loop(a, p, x, j - 1, u)
  PROVE  Loop(a, p, x, j, Frame(u, p, j))
<1> DEFINE e == Frame(u, p, j)
           f == p.frames[j]
           rate == RateOf(p)
<1>1. /\ IsDec(u) /\ Sound(u.calls, x) /\ j # 0
      /\ j = 1 => u = a
  BY DEF Loop, Same, Armed, FramesOf
<1>2. x.sync => Ready(u, p.mode, rate, f, j, x)
  BY NextReady
<1>3. Whole(f, p.mode) /\ p.mode \in {"silk", "hybrid", "celt"}
  BY DEF Armed, Parcel
<1>4. CASE p.mode = "celt"
  <2>1. x.sync => f.celt.intra \/ u.celt_dec = f.celt.ref
    BY <1>2, <1>4 DEF Ready
  <2>2. Runs(u, e, {"celt_dec", "stale"}, x) /\ e.celt_dec = After(u.celt_dec, f.celt)
    <3>1. e = CeltFrame(u, p, j)
      BY <1>4 DEF Frame
    <3> HIDE DEF e
    <3> QED
      BY <1>1, <2>1, <3>1, CeltFrameRuns
  <2> HIDE DEF e, f
  <2>3. /\ Same(u, e, {"celt_dec", "stale", "calls"}) /\ Sound(e.calls, x)
    BY <2>2 DEF Runs
  <2>4. Same(a, e, FrameFields)
    BY <2>3 DEF Same, Fields, FrameFields, Loop
  <2>5. /\ e.prev_redundancy = a.prev_redundancy /\ e.silk_dec = a.silk_dec /\ e.fs_khz = a.fs_khz
    BY <1>4, <2>3 DEF Same, Fields, Loop
  <2>6. Played(e, p, f, x)
    BY <1>3, <1>4, <2>1, <2>2 DEF Played, After, Whole
  <2>7. Loop(a, p, x, j, e)
    BY <1>1, <1>4, <2>3, <2>4, <2>5, <2>6 DEF Loop, f
  <2> QED
    BY <2>7 DEF e
<1>5. CASE p.mode # "celt"
  <2>1. f.red = "to_celt" => f.rc.intra
    BY <1>3 DEF Whole
  <2>2. SilkEffect(u, e, rate, p.mode, f, j, x)
    BY <1>1, <1>2, <1>3, <1>5, <2>1, SilkFrameRuns, HybridFrameRuns DEF Frame, RateOf
  <2> HIDE DEF e, f
  <2>3. Same(a, e, FrameFields) /\ Sound(e.calls, x)
    BY <2>2 DEF SilkEffect, Loop, Same, Fields, FrameFields
  <2>4. Played(e, p, f, x)
    <3>1. p.mode # "silk" => p.mode = "hybrid"
      BY <1>3, <1>5
    <3>2. f.red = "to_celt" => e.celt_dec = f.rc.id
      BY <2>2 DEF SilkEffect
    <3>3. f.red # "to_celt" /\ p.mode # "silk" /\ (f.celt.intra \/ x.sync) => e.celt_dec = f.celt.id
      BY <2>2, <3>1 DEF SilkEffect
    <3>4. /\ e.prev_redundancy = (f.red = "to_celt") /\ e.transition_pending = FALSE
          /\ e.fs_khz = RateOf(p) /\ e.silk_dec \in {f.silk.id, Other}
      BY <2>2 DEF SilkEffect, rate
    <3> QED
      BY <3>2, <3>3, <3>4 DEF Played
  <2>5. Begun(a, e, p.frames[1])
    <3>1. CASE j = 1
      BY <1>1, <2>2, <3>1 DEF SilkEffect, Begun, StartsWith, f
    <3>2. CASE j # 1
      <4>1. j - 1 # 0 /\ ~StartsWith(j, f)
        BY <3>2 DEF StartsWith, FramesOf
      <4>2. Begun(a, u, p.frames[1])
        BY <1>5, <4>1 DEF Loop
      <4>3. e.first_frame_redundancy = u.first_frame_redundancy
            /\ StartFades(e.calls) = StartFades(u.calls)
        BY <2>2, <3>2, <4>1 DEF SilkEffect
      <4> QED
        BY <4>2, <4>3 DEF Begun
    <3> QED
      BY <3>1, <3>2
  <2>6. Loop(a, p, x, j, e)
    BY <1>1, <1>5, <2>3, <2>4, <2>5 DEF Loop, f
  <2> QED
    BY <2>6 DEF e
<1> QED
  BY <1>4, <1>5

(* f is the function that Frames defines for n frames.                   *)
Unfolds(f, a, p, n) == f = [i \in 0 .. n |-> IF i = 0 THEN a ELSE Frame(f[i - 1], p, i)]

(* The recursive function that Frames defines exists for every number of *)
(* frames.                                                                 *)
LEMMA FramesUnfold ==
  ASSUME NEW a, NEW p
  PROVE  \A n \in Nat : \E f : Unfolds(f, a, p, n)
<1> DEFINE T == {n \in Nat : \E f : Unfolds(f, a, p, n)}
<1>1. 0 \in T
  <2> DEFINE g == [i \in 0 .. 0 |-> a]
  <2>1. Unfolds(g, a, p, 0)
    BY DEF Unfolds
  <2> QED
    BY <2>1
<1>2. ASSUME NEW n \in Nat, n \in T
      PROVE  n + 1 \in T
  <2>1. PICK f : Unfolds(f, a, p, n)
    BY <1>2
  <2> DEFINE g == [i \in 0 .. n + 1 |-> IF i = n + 1 THEN Frame(f[n], p, i) ELSE f[i]]
  <2>2. ASSUME NEW i \in 0 .. n + 1
        PROVE  g[i] = IF i = 0 THEN a ELSE Frame(g[i - 1], p, i)
    <3>1. CASE i = n + 1
      BY <3>1
    <3>2. CASE i = 0
      BY <3>2, <2>1 DEF Unfolds
    <3>3. CASE i \in 1 .. n
      <4>1. i - 1 \in 0 .. n + 1 /\ g[i - 1] = f[i - 1] /\ g[i] = f[i]
        BY <3>3
      <4> QED
        BY <4>1, <3>3, <2>1 DEF Unfolds
    <3> QED
      BY <3>1, <3>2, <3>3
  <2>3. Unfolds(g, a, p, n + 1)
    BY <2>2 DEF Unfolds
  <2> HIDE DEF g
  <2> QED
    BY <2>3
<1> HIDE DEF T
<1>3. T = Nat
  <2>1. T \in SUBSET Nat
    BY DEF T
  <2> QED
    BY <1>1, <1>2, <2>1, NatSetInduction
<1> QED
  BY <1>3 DEF T

(* So the packet is decoded as Loop says to its last frame.                *)
LEMMA FramesLoop ==
  ASSUME NEW a, NEW p, NEW x, Armed(a, p, x)
  PROVE  Loop(a, p, x, Len(p.frames), Frames(a, p))
<1> DEFINE n == Len(p.frames)
           upto[i \in 0 .. n] == IF i = 0 THEN a ELSE Frame(upto[i - 1], p, i)
<1>n. n \in Nat /\ FramesOf(p) = 1 .. n
  BY DEF Armed, Parcel, FramesOf
<1>1. Unfolds(upto, a, p, n)
  <2>1. \E f : Unfolds(f, a, p, n)
    BY <1>n, FramesUnfold
  <2> HIDE DEF n
  <2> QED
    BY <2>1 DEF Unfolds
<1>2. Frames(a, p) = upto[n]
  BY DEF Frames
<1> HIDE DEF upto, n
<1> DEFINE T == {i \in Nat : i <= n => Loop(a, p, x, i, upto[i])}
<1>3. 0 \in T
  <2>1. upto[0] = a
    BY <1>1, <1>n DEF Unfolds
  <2>2. Loop(a, p, x, 0, a)
    BY DEF Armed, Loop, Same, Quiet
  <2> QED
    BY <2>1, <2>2
<1>4. ASSUME NEW i \in Nat, i \in T
      PROVE  i + 1 \in T
  <2>1. SUFFICES ASSUME i + 1 <= n PROVE Loop(a, p, x, i + 1, upto[i + 1])
    OBVIOUS
  <2>2. Loop(a, p, x, i, upto[i])
    BY <1>4, <2>1, <1>n
  <2>3. upto[i + 1] = Frame(upto[i], p, i + 1)
    BY <1>1, <2>1, <1>n DEF Unfolds
  <2>4. (i + 1) - 1 = i /\ i + 1 \in FramesOf(p)
    BY <2>1, <1>n
  <2> QED
    BY <2>2, <2>3, <2>4, FrameLoops
<1> HIDE DEF T
<1>5. T = Nat
  <2>1. T \in SUBSET Nat
    BY DEF T
  <2> QED
    BY <1>3, <1>4, <2>1, NatSetInduction
<1>6. n \in T /\ n <= n
  BY <1>5, <1>n
<1> QED
  BY <1>2, <1>6 DEF T, n

(***************************************************************************)
(* A packet.                                                               *)
(***************************************************************************)
(* What the first frame of a packet asks of the decoder: what the encoder  *)
(* knows of it.                                                            *)
Expected(d, f, m, rate) ==
  /\ f.red = "to_silk" <=> m # "celt" /\ Seen(d) = "celt"
  /\ f.red = "to_silk" => f.rc.ref = d.celt_dec
  /\ m # "silk" => /\ Seen(d) \notin {"none", m} => f.celt.intra
                   /\ Seen(d) \in {"none", m} => f.celt.ref = d.celt_dec
  /\ m # "celt" /\ d.prev_mode # "celt" =>
       At(d, rate) = f.silk.ref \/ (At(d, rate) = Other /\ f.silk.ref # Fresh)

ArmFields == {"silk_resampler", "silk_resampler_r", "prev_internal_rate", "n_channels_internal"}

(* The head of the SILK and hybrid arms touches resamplers and channels    *)
(* alone.                                                                  *)
LEMMA SilkArmIs ==
  ASSUME NEW d, IsDec(d), NEW p, p.mode # "celt"
  PROVE  Same(d, Arm(d, p), ArmFields)
<1> DEFINE rate == Rate(p.mode, p.bw)
           a == InitResamplers(d, rate)
           e == SwitchChannels(a, p)
<1>1. Arm(d, p) = e
  BY DEF Arm
<1> HIDE DEF rate
<1>3. Same(d, a, {"silk_resampler", "silk_resampler_r", "prev_internal_rate"})
  BY DEF InitResamplers, IsDec, Same, Fields
<1> HIDE DEF a
<1>4. Same(a, e, {"n_channels_internal", "silk_resampler_r"})
  BY <1>3 DEF SwitchChannels, IsDec, Same, Fields
<1> HIDE DEF e
<1>5. Same(d, e, ArmFields)
  BY <1>3, <1>4 DEF Same, ArmFields, Fields
<1> QED
  BY <1>1, <1>5

(* The head of the CELT arm resets CELT after another mode, unless         *)
(* redundancy came before.                                                 *)
LEMMA CeltArmIs ==
  ASSUME NEW d, IsDec(d), NEW p, p.mode = "celt"
  PROVE  LET e == Arm(d, p) IN
         /\ Same(d, e, {"celt_dec", "prev_redundancy"})
         /\ e.prev_redundancy = FALSE
         /\ d.prev_redundancy \/ d.prev_mode \in {"none", "celt"} => e.celt_dec = d.celt_dec
<1> DEFINE mode == "celt"
           a == ResetOnSwitch(d, mode)
           e == Arm(d, p)
<1>1. Same(d, a, {"celt_dec"}) /\ (d.prev_redundancy \/ d.prev_mode \in {"none", mode} => a = d)
  <2> HIDE DEF mode
  <2> QED
    BY ResetOnSwitchIs
<1>2. e = [a EXCEPT !.prev_redundancy = FALSE]
  BY DEF Arm
<1> HIDE DEF a, e
<1>3. Same(a, e, {"prev_redundancy"}) /\ e.prev_redundancy = FALSE
  BY <1>1, <1>2 DEF Same, IsDec, Fields
<1>4. e.celt_dec = a.celt_dec
  BY <1>3 DEF Same, Fields
<1> QED
  BY <1>1, <1>3, <1>4 DEF Same, e

(* The decoder when the frames of p begin.                                 *)
ArmedEffect(d, e, p, x) ==
  /\ Same(d, e, HeadFields) /\ Armed(e, p, x)
  /\ e.bandwidth = p.bw /\ e.prev_redundancy \in BOOLEAN
  /\ ~Leaves(d, p) => e.transition_pending = FALSE
  /\ p.mode = "celt" => e.prev_redundancy = FALSE
  /\ p.mode = "celt" /\ Enters(d, p) => e.silk_dec = Other /\ e.fs_khz = Rate(d.prev_mode, d.bandwidth)
  /\ p.mode = "celt" /\ ~Enters(d, p) => e.silk_dec = d.silk_dec /\ e.fs_khz = d.fs_khz

(* When the frames of an expected packet begin, the decoder is ready for   *)
(* the first: a switch it sees is the switch the encoder made.             *)
LEMMA ArmRuns ==
  ASSUME NEW d, Formed(d), NEW p, Parcel(p), NEW x, Quiet(d.calls, x), d.transition_pending = FALSE,
         x.leaves = Leaves(d, p),
         x.sync => Chain(p) /\ Expected(d, p.frames[1], p.mode, RateOf(p))
  PROVE  ArmedEffect(d, Arm(Prepare(d, p), p), p, x)
<1> DEFINE g == Prepare(d, p)
           e == Arm(g, p)
           f == p.frames[1]
<1>1. Prepared(d, g, p, x)
  BY PrepareIs
<1> HIDE DEF g
<1>2. IsDec(g) /\ g.prev_mode = d.prev_mode
  BY <1>1 DEF Prepared, Same, Fields, HeadFields
<1>3. p.mode \in {"silk", "hybrid", "celt"} /\ 1 \in FramesOf(p)
  BY DEF Parcel, FramesOf
<1>4. x.sync => /\ Chain(p) /\ f.red # "empty" /\ Expected(d, f, p.mode, RateOf(p))
  BY <1>3 DEF Chain, Named
<1> HIDE DEF f
<1>5. CASE p.mode = "celt"
  <2>1. /\ Same(g, e, {"celt_dec", "prev_redundancy"}) /\ e.prev_redundancy = FALSE
        /\ g.prev_redundancy \/ g.prev_mode \in {"none", "celt"} => e.celt_dec = g.celt_dec
    BY <1>2, <1>5, CeltArmIs
  <2> HIDE DEF e
  <2>2. /\ e.calls = g.calls /\ e.fs_khz = g.fs_khz /\ e.silk_dec = g.silk_dec
        /\ e.transition_pending = g.transition_pending /\ e.bandwidth = g.bandwidth
    BY <2>1 DEF Same, Fields
  <2>3. Same(d, e, HeadFields)
    BY <1>1, <2>1 DEF Prepared, Same, HeadFields, Fields
  <2>4. x.sync => f.celt.intra \/ e.celt_dec = f.celt.ref
    <3>1. SUFFICES ASSUME x.sync, ~f.celt.intra PROVE e.celt_dec = f.celt.ref
      OBVIOUS
    <3>2. Seen(d) \in {"none", "celt"} /\ f.celt.ref = d.celt_dec
      BY <1>4, <1>5, <3>1 DEF Expected
    <3>3. ~Enters(d, p)
      BY <3>2 DEF Enters, Seen
    <3>4. g.celt_dec = d.celt_dec /\ g.prev_redundancy = d.prev_redundancy
      BY <1>1, <3>3 DEF Prepared
    <3>5. d.prev_redundancy \/ d.prev_mode \in {"none", "celt"}
      BY <3>2 DEF Seen
    <3> QED
      BY <1>2, <2>1, <3>2, <3>4, <3>5
  <2>5. x.sync => Ready(e, p.mode, RateOf(p), f, 1, x)
    <3>1. x.sync => f.red # "to_silk"
      BY <1>4, <1>5 DEF Expected
    <3> QED
      BY <1>4, <1>5, <2>4, <3>1 DEF Ready
  <2>6. Armed(e, p, x)
    BY <1>1, <1>4, <2>1, <2>2, <2>5 DEF Armed, Prepared, Same, f
  <2>7. ArmedEffect(d, e, p, x)
    BY <1>1, <1>5, <2>1, <2>2, <2>3, <2>6 DEF ArmedEffect, Prepared, Leaves
  <2> QED
    BY <2>7 DEF e, g
<1>6. CASE p.mode # "celt"
  <2>1. Same(g, e, ArmFields)
    BY <1>2, <1>6, SilkArmIs
  <2> HIDE DEF e
  <2>2. /\ e.calls = g.calls /\ e.fs_khz = g.fs_khz /\ e.silk_dec = g.silk_dec
        /\ e.transition_pending = g.transition_pending /\ e.bandwidth = g.bandwidth
        /\ e.celt_dec = g.celt_dec /\ e.prev_mode = g.prev_mode /\ e.prev_redundancy = g.prev_redundancy
    BY <2>1 DEF Same, Fields, ArmFields
  <2>3. Same(d, e, HeadFields)
    BY <1>1, <2>1 DEF Prepared, Same, HeadFields, Fields, ArmFields
  <2>4. ~Enters(d, p) /\ e.celt_dec = d.celt_dec
    BY <1>1, <1>6, <2>2 DEF Enters, Prepared
  <2>5. x.sync => Meets(At(e, RateOf(p)), f.silk, NoSilk(e.calls, Len(e.calls)), x)
    <3> SUFFICES ASSUME x.sync
                 PROVE  Meets(At(e, RateOf(p)), f.silk, NoSilk(e.calls, Len(e.calls)), x)
      OBVIOUS
    <3>1. NoSilk(e.calls, Len(e.calls))
      BY <1>1, <2>2 DEF Prepared, Quiet
    <3>2. CASE Leaves(d, p)
      <4>1. e.silk_dec = Fresh
        BY <1>1, <2>2, <3>2 DEF Prepared
      <4>2. At(e, RateOf(p)) = Fresh
        BY <4>1 DEF At
      <4> QED
        BY <3>1, <3>2, <4>2 DEF Meets
    <3>3. CASE ~Leaves(d, p)
      <4>1. e.silk_dec = d.silk_dec /\ e.fs_khz = d.fs_khz /\ d.prev_mode # "celt"
        BY <1>1, <1>6, <2>2, <2>4, <3>3 DEF Prepared, Leaves
      <4>2. At(e, RateOf(p)) = At(d, RateOf(p))
        BY <4>1 DEF At
      <4> QED
        BY <1>4, <1>6, <4>1, <4>2 DEF Expected, Meets
    <3> QED
      BY <3>2, <3>3
  <2>6. x.sync /\ f.red = "to_silk" => e.celt_dec = f.rc.ref
    BY <1>4, <2>4 DEF Expected
  <2>7. x.sync /\ p.mode = "hybrid" /\ ~f.celt.intra =>
           /\ e.celt_dec = f.celt.ref /\ f.red # "to_silk"
           /\ e.transition_pending = FALSE /\ e.prev_mode \in {"none", "hybrid"}
    <3>1. SUFFICES ASSUME x.sync, p.mode = "hybrid", ~f.celt.intra
                   PROVE  /\ e.celt_dec = f.celt.ref /\ f.red # "to_silk"
                          /\ e.transition_pending = FALSE /\ e.prev_mode \in {"none", "hybrid"}
      OBVIOUS
    <3>2. Seen(d) \in {"none", "hybrid"} /\ f.celt.ref = d.celt_dec /\ f.red # "to_silk"
      BY <1>4, <3>1 DEF Expected
    <3>3. d.prev_mode \in {"none", "hybrid"}
      BY <3>2 DEF Seen
    <3>4. ~Leaves(d, p)
      BY <3>3 DEF Leaves
    <3> QED
      BY <1>1, <1>2, <2>2, <2>4, <3>2, <3>3, <3>4 DEF Prepared
  <2>8. x.sync => Ready(e, p.mode, RateOf(p), f, 1, x)
    BY <1>4, <1>6, <2>5, <2>6, <2>7 DEF Ready
  <2>9. Armed(e, p, x)
    BY <1>1, <1>4, <2>1, <2>2, <2>8 DEF Armed, Prepared, Same, f
  <2>10. ArmedEffect(d, e, p, x)
    BY <1>1, <1>6, <2>2, <2>3, <2>9 DEF ArmedEffect, Prepared, Formed
  <2> QED
    BY <2>10 DEF e, g
<1> QED
  BY <1>5, <1>6

(* The end of a packet: a switch concealed is faded in, unless redundancy  *)
(* has done so.                                                            *)
FinishEffect(u, e, p, x) ==
  /\ Same(u, e, {"calls", "prev_mode", "transition_pending", "transition_pcm"})
  /\ e.prev_mode = p.mode /\ e.transition_pending = FALSE /\ Sound(e.calls, x)
  /\ p.mode # "celt" /\ u.first_frame_redundancy => e.calls = u.calls

(* That is what the end of decode() does.                                  *)
LEMMA FinishIs ==
  ASSUME NEW u, IsDec(u), NEW x, Sound(u.calls, x), NEW p
  PROVE  FinishEffect(u, Finish(u, p), p, x)
<1> DEFINE a == TransitionFade(u, p)
           e == Finish(u, p)
           c == [op |-> "fade", i |-> 1, at |-> "transition"]
           faded == u.transition_pcm /\ ~(p.mode # "celt" /\ u.first_frame_redundancy)
<1>1. a = IF faded THEN [u EXCEPT !.calls = Append(u.calls, c)] ELSE u
  BY DEF TransitionFade, Fade, Call
<1>2. Fits(u.calls, c, x)
  BY DEF Fits, IsSilk
<1>3. p.mode # "celt" /\ u.first_frame_redundancy => ~faded
  OBVIOUS
<1>4. e = [a EXCEPT !.prev_mode = p.mode, !.transition_pending = FALSE, !.transition_pcm = FALSE]
  BY DEF Finish
<1> HIDE DEF a, c, e, faded
<1>5. Same(u, a, {"calls"})
  BY <1>1 DEF IsDec, Same, Fields
<1>6. a.calls = IF faded THEN Append(u.calls, c) ELSE u.calls
  BY <1>1 DEF IsDec, Fields
<1>7. Sound(Append(u.calls, c), x)
  BY <1>2, Logged
<1>8. /\ Same(a, e, {"prev_mode", "transition_pending", "transition_pcm"})
      /\ e.prev_mode = p.mode /\ e.transition_pending = FALSE
  BY <1>4, <1>5 DEF IsDec, Same, Fields
<1>9. e.calls = a.calls
  BY <1>8 DEF Same, Fields
<1>10. Same(u, e, {"calls", "prev_mode", "transition_pending", "transition_pcm"})
  BY <1>5, <1>8 DEF Same
<1>11. FinishEffect(u, e, p, x)
  BY <1>3, <1>6, <1>7, <1>8, <1>9, <1>10 DEF FinishEffect
<1> QED
  BY <1>11 DEF e

(* What decode(p) does to decoder d.                                       *)
Decoded(d, e, p, x) ==
  LET f == p.frames[Len(p.frames)] IN
  /\ Formed(e) /\ e.transition_pending = FALSE /\ e.channels = d.channels
  /\ e.prev_mode = p.mode /\ e.bandwidth = p.bw /\ Sound(e.calls, x)
  /\ e.prev_redundancy = (f.red = "to_celt")
  /\ f.red = "to_celt" => e.celt_dec = f.rc.id
  /\ f.red # "to_celt" /\ p.mode # "silk" /\ (f.celt.intra \/ x.sync) => e.celt_dec = f.celt.id
  /\ p.mode # "celt" => e.fs_khz = RateOf(p) /\ e.silk_dec \in {f.silk.id, Other}
  /\ p.mode = "celt" /\ Enters(d, p) => e.silk_dec = Other /\ e.fs_khz = Rate(d.prev_mode, d.bandwidth)
  /\ p.mode = "celt" /\ ~Enters(d, p) => e.silk_dec = d.silk_dec /\ e.fs_khz = d.fs_khz
  /\ x.sync /\ Leaves(d, p) => \E k : StartFades(e.calls) = {k}

(* decode() of any packet, and of one that is expected.                    *)
LEMMA DecodeIs ==
  ASSUME NEW d, Formed(d), NEW p, Parcel(p), NEW x, Quiet(d.calls, x), d.transition_pending = FALSE,
         x.leaves = Leaves(d, p),
         x.sync => Chain(p) /\ Expected(d, p.frames[1], p.mode, RateOf(p))
  PROVE  Decoded(d, DecodePrimary(d, p), p, x)
<1> DEFINE a == Arm(Prepare(d, p), p)
           u == Frames(a, p)
           e == Finish(u, p)
           n == Len(p.frames)
           f == p.frames[n]
<1>1. ArmedEffect(d, a, p, x)
  BY ArmRuns
<1>2. DecodePrimary(d, p) = e
  BY DEF DecodePrimary
<1> HIDE DEF a
<1>3. Loop(a, p, x, n, u)
  BY <1>1, FramesLoop DEF ArmedEffect
<1> HIDE DEF u
<1>4. IsDec(u) /\ Sound(u.calls, x)
  BY <1>3 DEF Loop, Same
<1>5. FinishEffect(u, e, p, x)
  BY <1>4, FinishIs
<1> HIDE DEF e
<1>6. /\ n # 0 /\ n \in FramesOf(p) /\ p.mode \in {"silk", "hybrid", "celt"}
      /\ Whole(f, p.mode)
  BY DEF Parcel, FramesOf
<1>7. Played(u, p, f, x)
  BY <1>3, <1>6 DEF Loop
<1>8. /\ e.celt_dec = u.celt_dec /\ e.silk_dec = u.silk_dec /\ e.fs_khz = u.fs_khz
      /\ e.prev_redundancy = u.prev_redundancy /\ e.channels = u.channels /\ e.bandwidth = u.bandwidth
  BY <1>5 DEF FinishEffect, Same, Fields
<1>9. u.channels = a.channels /\ a.channels = d.channels /\ u.bandwidth = a.bandwidth
  BY <1>1, <1>3 DEF ArmedEffect, Loop, Same, Fields, FrameFields, HeadFields
<1>10. e.prev_redundancy = (f.red = "to_celt")
  <2>1. CASE p.mode = "celt"
    <3>1. u.prev_redundancy = FALSE
      BY <1>1, <1>3, <2>1 DEF ArmedEffect, Loop
    <3>2. f.red # "to_celt"
      BY <1>6, <2>1 DEF Whole
    <3> QED
      BY <1>8, <3>1, <3>2
  <2>2. CASE p.mode # "celt"
    BY <1>7, <1>8, <2>2 DEF Played
  <2> QED
    BY <2>1, <2>2
<1>11. Formed(e)
  BY <1>5, <1>6, <1>10 DEF Formed, FinishEffect, Same
<1>12. ASSUME x.sync, Leaves(d, p)
       PROVE  \E k : StartFades(e.calls) = {k}
  <2>1. p.mode # "celt" /\ d.prev_mode = "celt" /\ Seen(d) = "celt"
    BY <1>12 DEF Leaves, Seen
  <2>2. p.frames[1].red = "to_silk"
    BY <1>12, <2>1 DEF Expected
  <2>3. Begun(a, u, p.frames[1])
    BY <1>3, <1>6, <2>1 DEF Loop
  <2>4. u.first_frame_redundancy
    BY <2>2, <2>3 DEF Begun
  <2>5. StartFades(a.calls) = {}
    BY <1>1 DEF ArmedEffect, Armed, Quiet
  <2>6. PICK k : StartFades(u.calls) = StartFades(a.calls) \cup {k}
    BY <2>2, <2>3 DEF Begun
  <2>7. e.calls = u.calls
    BY <1>5, <2>1, <2>4 DEF FinishEffect
  <2> QED
    BY <2>5, <2>6, <2>7
<1>13. p.mode = "celt" => u.silk_dec = a.silk_dec /\ u.fs_khz = a.fs_khz
  BY <1>3 DEF Loop
<1>14. /\ p.mode = "celt" /\ Enters(d, p) => e.silk_dec = Other /\ e.fs_khz = Rate(d.prev_mode, d.bandwidth)
       /\ p.mode = "celt" /\ ~Enters(d, p) => e.silk_dec = d.silk_dec /\ e.fs_khz = d.fs_khz
  BY <1>1, <1>8, <1>13 DEF ArmedEffect
<1>15. /\ f.red = "to_celt" => e.celt_dec = f.rc.id
       /\ f.red # "to_celt" /\ p.mode # "silk" /\ (f.celt.intra \/ x.sync) => e.celt_dec = f.celt.id
       /\ p.mode # "celt" => e.fs_khz = RateOf(p) /\ e.silk_dec \in {f.silk.id, Other}
  BY <1>7, <1>8 DEF Played
<1>16. e.bandwidth = p.bw
  BY <1>1, <1>8, <1>9 DEF ArmedEffect
<1>17. e.transition_pending = FALSE /\ e.prev_mode = p.mode /\ Sound(e.calls, x)
  BY <1>5 DEF FinishEffect
<1> HIDE DEF f, n
<1>18. Decoded(d, e, p, x)
  BY <1>8, <1>9, <1>10, <1>11, <1>12, <1>14, <1>15, <1>16, <1>17 DEF Decoded, f, n
<1> QED
  BY <1>2, <1>18

(***************************************************************************)
(* The inductive invariant.                                                *)
(***************************************************************************)
(* Both ends between two packets, when none was lost.                      *)
SilkTogether(d, e) ==
  /\ d.silk_dec = e.silk_enc \/ (d.silk_dec = Other /\ e.silk_enc # Fresh)
  /\ d.fs_khz = e.fs_khz \/ (e.fs_khz = 0 /\ d.silk_dec = Fresh /\ e.silk_enc = Fresh)
  /\ d.prev_mode \in {"silk", "hybrid"} =>
       e.silk_enc # Fresh /\ d.fs_khz = Rate(d.prev_mode, d.bandwidth)
Together(d, e) ==
  /\ Seen(d) = e.prev_enc_mode
  /\ e.prev_enc_mode # "silk" => d.celt_dec = e.celt_enc
  /\ SilkTogether(d, e)

(* Decoder d, the encoder e, and packet p of e on its way to d.            *)
InFlight(d, p, e) ==
  /\ Chain(p) /\ Expected(d, p.frames[1], p.mode, RateOf(p))
  /\ p.mode = "celt" => SilkTogether(d, e)
  /\ p.mode # "celt" => LastSilk(e, p.frames[Len(p.frames)], p.mode, p.bw)

IInv ==
  /\ Formed(dec) /\ dec.transition_pending = FALSE /\ dec.channels = Channels
  /\ fec = NoFec /\ IsEnc(enc)
  /\ packet # Enc!NoPacket =>
       /\ Parcel(packet)
       /\ Ends(packet.frames[Len(packet.frames)], enc, packet.mode)
       /\ ~lossy => InFlight(dec, packet, enc)
  /\ packet = Enc!NoPacket /\ ~lossy => Together(dec, enc)
  /\ CeltInSync

(* Two new ends are together: a new encoder has no SILK rate yet.          *)
LEMMA InitOK == LinkInit => IInv
<1> SUFFICES ASSUME LinkInit PROVE IInv
  OBVIOUS
<1>1. enc = Enc!New /\ packet = Enc!NoPacket
  BY DEF LinkInit, Enc!Init
<1>2. dec = New(Channels) /\ fec = NoFec
  BY DEF LinkInit
<1>3. /\ IsEnc(enc) /\ enc.prev_enc_mode = "none" /\ enc.celt_enc = Fresh /\ enc.silk_enc = Fresh
      /\ enc.fs_khz = 0
  BY <1>1 DEF Enc!New, IsEnc, EncFields
<1>4. /\ Formed(dec) /\ dec.transition_pending = FALSE /\ dec.channels = Channels /\ dec.calls = <<>>
      /\ dec.prev_mode = "none" /\ dec.prev_redundancy = FALSE /\ dec.celt_dec = Fresh /\ dec.silk_dec = Fresh
  BY <1>2 DEF New, Formed, IsDec, Fields
<1>5. Together(dec, enc)
  BY <1>3, <1>4 DEF Together, SilkTogether, Seen
<1>6. CeltInSync
  BY <1>4 DEF CeltInSync
<1> QED
  BY <1>1, <1>2, <1>3, <1>4, <1>5, <1>6 DEF IInv

(* Clearing the log of the last operation changes nothing else.            *)
LEMMA ClearIs ==
  ASSUME NEW d, IsDec(d)
  PROVE  Same(d, Clear(d), {"calls"}) /\ Clear(d).calls = <<>>
  BY DEF Clear, IsDec, Same, Fields

(* A frame coded on from where the encoder was is what a decoder in step   *)
(* with it expects.                                                        *)
LEMMA FirstExpected ==
  ASSUME NEW d, NEW e, Together(d, e), NEW f, NEW m \in {"silk", "hybrid", "celt"}, NEW bw, First(e, f, m, bw)
  PROVE  Expected(d, f, m, Rate(m, bw))
<1> DEFINE rate == Rate(m, bw)
<1>1. m # "celt" => Enc!Rate(m, bw) = rate
  BY DEF Enc!Rate, Rate
<1> HIDE DEF rate
<1>2. m # "celt" => At(d, rate) = f.silk.ref \/ (At(d, rate) = Other /\ f.silk.ref # Fresh)
  BY <1>1 DEF First, Together, SilkTogether, At
<1>3. /\ f.red = "to_silk" <=> m # "celt" /\ Seen(d) = "celt"
      /\ f.red = "to_silk" => f.rc.ref = d.celt_dec
      /\ m # "silk" => /\ Seen(d) \notin {"none", m} => f.celt.intra
                       /\ Seen(d) \in {"none", m} => f.celt.ref = d.celt_dec
  BY DEF First, Together
<1>4. Expected(d, f, m, rate)
  BY <1>2, <1>3 DEF Expected
<1> QED
  BY <1>4 DEF rate

(* Encoding a packet: if both ends were together and no frame was left     *)
(* out, the packet is one the decoder expects.                             *)
LEMMA SendOK ==
  ASSUME InputsFit, FreshIsNoToken, IInv, Send
  PROVE  IInv' /\ dec'.calls = <<>>
<1>1. /\ IsEnc(enc) /\ Formed(dec) /\ dec.transition_pending = FALSE /\ dec.channels = Channels
      /\ ~lossy => Together(dec, enc)
  BY DEF IInv, Send
<1>2. PICK in \in Inputs : /\ lossy \/ \A i \in DOMAIN in.empty : ~in.empty[i]
                          /\ Enc!Encode(in, Unused)
  BY DEF Send
<1> DEFINE n == Unused
           m == Enc!CodedMode(enc, in)
           r == Enc!EncodePacket(enc, in, n)
           last == Len(in.empty)
<1>3. /\ enc' = r.enc
      /\ packet' = [mode |-> m, bw |-> in.bw, ch |-> in.ch, frames |-> r.frames]
  BY <1>2 DEF Enc!Encode
<1>4. /\ InputOK(in) /\ in.ch \in 1 .. Channels /\ last \in Nat \ {0}
      /\ DOMAIN in.empty = 1 .. last
  BY DEF InputsFit, InputOK
<1>5. m \in {"silk", "hybrid", "celt"}
  BY <1>4 DEF Enc!CodedMode, InputOK
<1>6. dec' = Clear(dec) /\ fec' = fec /\ lossy' = lossy
  BY DEF Send
<1> HIDE DEF n
<1>7. Sent(enc, in, last, r)
  BY <1>1, <1>4, PacketSent
<1> HIDE DEF r
<1>8. /\ IsEnc(r.enc) /\ Len(r.frames) = last
      /\ \A i \in 1 .. last : Whole(r.frames[i], m) /\ (i # last => r.frames[i].red # "to_celt")
      /\ Ends(r.frames[last], r.enc, m)
      /\ AllCoded(in) => InSync(enc, m, in.bw, last, r.enc, r.frames)
  BY <1>4, <1>7 DEF Sent
<1> DEFINE p == packet'
<1>9. p.mode = m /\ p.bw = in.bw /\ p.ch = in.ch /\ p.frames = r.frames
  BY <1>3
<1> HIDE DEF m, last, p
<1>10. Parcel(p)
  BY <1>4, <1>5, <1>8, <1>9 DEF Parcel, FramesOf
<1>11. Ends(p.frames[Len(p.frames)], enc', p.mode)
  BY <1>3, <1>8, <1>9
<1>12. /\ Same(dec, dec', {"calls"}) /\ dec'.calls = <<>>
  BY <1>1, <1>6, ClearIs DEF Formed
<1>13. /\ dec'.prev_mode = dec.prev_mode /\ dec'.prev_redundancy = dec.prev_redundancy
       /\ dec'.celt_dec = dec.celt_dec /\ dec'.silk_dec = dec.silk_dec /\ dec'.fs_khz = dec.fs_khz
       /\ dec'.transition_pending = dec.transition_pending /\ dec'.channels = dec.channels
       /\ dec'.bandwidth = dec.bandwidth
  BY <1>12 DEF Same, Fields
<1>14. Formed(dec')
  BY <1>1, <1>12, <1>13 DEF Formed, Same
<1>15. ASSUME ~lossy
       PROVE  InFlight(dec', p, enc')
  <2>1. Together(dec, enc)
    BY <1>1, <1>15
  <2>2. AllCoded(in)
    BY <1>2, <1>4, <1>15 DEF AllCoded, last
  <2>3. InSync(enc, m, in.bw, last, r.enc, r.frames)
    BY <1>8, <2>2
  <2>4. Chain(p)
    BY <1>8, <1>9, <2>3 DEF InSync, Chain, FramesOf
  <2>5. Expected(dec, p.frames[1], p.mode, RateOf(p))
    BY <1>4, <1>5, <1>9, <2>1, <2>3, FirstExpected DEF InSync, RateOf
  <2>6. Expected(dec', p.frames[1], p.mode, RateOf(p))
    BY <1>13, <2>5 DEF Expected, Seen, At
  <2>7. p.mode = "celt" => SilkTogether(dec', enc')
    BY <1>3, <1>9, <1>13, <2>1, <2>3 DEF InSync, SameSilk, Together, SilkTogether
  <2>8. p.mode # "celt" => LastSilk(enc', p.frames[Len(p.frames)], p.mode, p.bw)
    BY <1>3, <1>4, <1>8, <1>9, <2>3 DEF InSync
  <2> QED
    BY <2>4, <2>6, <2>7, <2>8 DEF InFlight
<1>16. packet' # Enc!NoPacket
  BY <1>5, <1>9 DEF Enc!NoPacket, p
<1>17. CeltInSync'
  BY <1>12 DEF CeltInSync
<1>18. fec' = NoFec
  BY <1>6 DEF IInv
<1> HIDE DEF r
<1>19. IInv'
  BY <1>1, <1>3, <1>6, <1>8, <1>10, <1>11, <1>13, <1>14, <1>15, <1>16, <1>17, <1>18 DEF IInv, p
<1> QED
  BY <1>12, <1>19

(* What is asked of the calls of this packet.                              *)
Asks == [sync |-> ~lossy, leaves |-> Leaves(dec, packet)]

(* The packet that arrives is decoded by the decoder itself, never by the  *)
(* second one of a mono decoder.                                           *)
LEMMA Delivered ==
  ASSUME InputsFit, IInv, Deliver
  PROVE  /\ Decoded(dec, dec', packet, Asks) /\ Parcel(packet)
         /\ fec' = fec /\ lossy' = lossy /\ enc' = enc /\ packet' = Enc!NoPacket
<1> DEFINE p == packet
           d == Clear(dec)
           x == Asks
<1>1. /\ Formed(dec) /\ dec.transition_pending = FALSE /\ dec.channels = Channels /\ fec = NoFec
      /\ Parcel(p) /\ (~lossy => InFlight(dec, p, enc))
  BY DEF IInv, Deliver
<1>2. ~(dec.channels = 1 /\ p.ch = 2)
  BY <1>1 DEF Parcel
<1>3. dec' = DecodePrimary(d, p) /\ fec' = fec
  BY <1>1, <1>2 DEF Deliver, Decode
<1> HIDE DEF p, d
<1>4. Same(dec, d, {"calls"}) /\ d.calls = <<>>
  BY <1>1, ClearIs DEF Formed, d
<1>5. /\ d.prev_mode = dec.prev_mode /\ d.prev_redundancy = dec.prev_redundancy
      /\ d.celt_dec = dec.celt_dec /\ d.silk_dec = dec.silk_dec /\ d.fs_khz = dec.fs_khz
      /\ d.transition_pending = dec.transition_pending /\ d.channels = dec.channels
      /\ d.bandwidth = dec.bandwidth
  BY <1>4 DEF Same, Fields
<1>6. Formed(d)
  BY <1>1, <1>4, <1>5 DEF Formed, Same
<1>7. (Leaves(d, p) <=> Leaves(dec, p)) /\ (Enters(d, p) <=> Enters(dec, p))
  BY <1>5 DEF Leaves, Enters
<1>8. x.sync = ~lossy /\ x.leaves = Leaves(dec, p)
  BY DEF Asks, p
<1>9. x.leaves = Leaves(d, p)
  BY <1>7, <1>8 DEF Leaves
<1> HIDE DEF x
<1>10. Quiet(d.calls, x)
  <2>1. Log(<<>>) /\ Len(<<>>) = 0
    BY DEF Log, Elements
  <2>2. StartFades(<<>>) = {}
    BY DEF StartFades
  <2> QED
    BY <1>4, <2>1, <2>2 DEF Quiet, Sound, NoSilk
<1>11. x.sync => Chain(p) /\ Expected(d, p.frames[1], p.mode, RateOf(p))
  BY <1>1, <1>5, <1>8 DEF InFlight, Expected, Seen, At
<1>12. Decoded(d, dec', p, x)
  BY <1>1, <1>3, <1>5, <1>6, <1>9, <1>10, <1>11, DecodeIs
<1>13. Decoded(dec, dec', p, x)
  BY <1>5, <1>7, <1>12 DEF Decoded
<1> QED
  BY <1>1, <1>3, <1>13 DEF Deliver, x, p

(* After a packet arrives the ends are together again if nothing was lost; *)
(* the mode seen and a CELT state made anew agree even if something was.   *)
LEMMA DeliverOK ==
  ASSUME InputsFit, IInv, Deliver
  PROVE  IInv' /\ SeenMode' = enc.prev_enc_mode /\ (Renews(packet) => dec'.celt_dec = enc.celt_enc)
<1> DEFINE p == packet
           f == p.frames[Len(p.frames)]
           x == Asks
<1>1. /\ Decoded(dec, dec', p, x) /\ fec' = NoFec /\ lossy' = lossy /\ enc' = enc
      /\ packet' = Enc!NoPacket /\ dec.channels = Channels /\ IsEnc(enc)
  BY Delivered DEF IInv
<1>2. /\ Ends(f, enc, p.mode) /\ (~lossy => InFlight(dec, p, enc))
  BY DEF IInv, Deliver
<1>3. Whole(f, p.mode) /\ Len(p.frames) \in FramesOf(p) /\ p.mode \in {"silk", "hybrid", "celt"}
  BY Delivered DEF Parcel, FramesOf
<1>4. x.sync = ~lossy
  BY DEF Asks
<1>5. Renews(p) <=> f.red = "to_celt" \/ (f.red # "empty" /\ f.celt.intra)
  BY DEF Renews
<1> HIDE DEF p, f, x
<1>6. /\ dec'.prev_mode = p.mode /\ dec'.prev_redundancy = (f.red = "to_celt")
      /\ f.red = "to_celt" => dec'.celt_dec = f.rc.id
      /\ f.red # "to_celt" /\ p.mode # "silk" /\ (f.celt.intra \/ x.sync) => dec'.celt_dec = f.celt.id
  BY <1>1 DEF Decoded, f
<1>7. Seen(dec') = enc.prev_enc_mode
  BY <1>2, <1>6 DEF Ends, Seen
<1>8. ASSUME Renews(p)
      PROVE  dec'.celt_dec = enc.celt_enc
  <2>1. CASE f.red = "to_celt"
    BY <1>2, <1>6, <2>1 DEF Ends
  <2>2. CASE f.red # "to_celt"
    <3>1. f.red # "empty" /\ f.celt.intra /\ p.mode # "silk"
      BY <1>3, <1>5, <1>8, <2>2 DEF Whole
    <3> QED
      BY <1>2, <1>6, <2>2, <3>1 DEF Ends
  <2> QED
    BY <2>1, <2>2
<1>9. ASSUME ~lossy
      PROVE  Together(dec', enc)
  <2>1. InFlight(dec, p, enc) /\ x.sync
    BY <1>2, <1>4, <1>9
  <2>2. Named(f, p.mode)
    BY <1>3, <2>1 DEF InFlight, Chain, f
  <2>3. enc.prev_enc_mode # "silk" => dec'.celt_dec = enc.celt_enc
    <3>1. CASE f.red = "to_celt"
      BY <1>2, <1>6, <3>1 DEF Ends
    <3>2. CASE f.red # "to_celt" /\ p.mode # "silk"
      BY <1>2, <1>6, <2>1, <2>2, <3>2 DEF Ends, Named
    <3>3. CASE f.red # "to_celt" /\ p.mode = "silk"
      BY <1>2, <3>3 DEF Ends
    <3> QED
      BY <3>1, <3>2, <3>3
  <2>4. CASE p.mode # "celt"
    <3>1. /\ dec'.fs_khz = RateOf(p) /\ dec'.silk_dec \in {f.silk.id, Other}
          /\ dec'.prev_mode = p.mode /\ dec'.bandwidth = p.bw
      BY <1>1, <2>4 DEF Decoded, f
    <3>2. enc.silk_enc = f.silk.id /\ enc.fs_khz = Enc!Rate(p.mode, p.bw) /\ f.silk.id # Fresh
      BY <2>1, <2>2, <2>4 DEF InFlight, LastSilk, Named, f
    <3>3. RateOf(p) = Rate(p.mode, p.bw) /\ Enc!Rate(p.mode, p.bw) = Rate(p.mode, p.bw)
      BY <1>3, <2>4 DEF RateOf, Enc!Rate, Rate
    <3>4. SilkTogether(dec', enc)
      BY <3>1, <3>2, <3>3 DEF SilkTogether
    <3> QED
      BY <1>7, <2>3, <3>4 DEF Together
  <2>5. CASE p.mode = "celt"
    <3>1. SilkTogether(dec, enc)
      BY <2>1, <2>5 DEF InFlight
    <3>2. /\ Enters(dec, p) => dec'.silk_dec = Other /\ dec'.fs_khz = Rate(dec.prev_mode, dec.bandwidth)
          /\ ~Enters(dec, p) => dec'.silk_dec = dec.silk_dec /\ dec'.fs_khz = dec.fs_khz
      BY <1>1, <2>5 DEF Decoded
    <3>3. Enters(dec, p) => dec.prev_mode \in {"silk", "hybrid"}
      BY DEF Enters
    <3>4. SilkTogether(dec', enc)
      <4>1. CASE Enters(dec, p)
        BY <1>6, <2>5, <3>1, <3>2, <3>3, <4>1 DEF SilkTogether
      <4>2. CASE ~Enters(dec, p)
        BY <1>6, <2>5, <3>1, <3>2, <4>2 DEF SilkTogether
      <4> QED
        BY <4>1, <4>2
    <3> QED
      BY <1>7, <2>3, <3>4 DEF Together
  <2> QED
    BY <2>4, <2>5
<1>10. CeltInSync'
  <2>1. Log(dec'.calls) /\ \A k \in 1 .. Len(dec'.calls) : Good(dec'.calls, k, x)
    BY <1>1 DEF Decoded, Sound
  <2>2. DOMAIN dec'.calls = 1 .. Len(dec'.calls)
    BY <2>1, AppendLog
  <2> QED
    BY <1>1, <1>4, <2>1, <2>2 DEF CeltInSync, Good
<1>11. Formed(dec') /\ dec'.transition_pending = FALSE /\ dec'.channels = Channels
  BY <1>1 DEF Decoded
<1>12. IInv'
  BY <1>1, <1>9, <1>10, <1>11 DEF IInv
<1>13. SeenMode' = Seen(dec')
  BY DEF SeenMode, Seen
<1> QED
  BY <1>7, <1>8, <1>12, <1>13 DEF p

(* A packet lost leaves a well formed decoder; nothing more is claimed.    *)
LEMMA DropOK ==
  ASSUME IInv, Drop
  PROVE  IInv'
<1> DEFINE d == Clear(dec)
           x == [sync |-> FALSE, leaves |-> FALSE]
<1>1. /\ Formed(dec) /\ dec.transition_pending = FALSE /\ dec.channels = Channels /\ fec = NoFec
      /\ IsEnc(enc)
  BY DEF IInv
<1>2. /\ lossy /\ lossy' = lossy /\ enc' = enc /\ packet' = Enc!NoPacket /\ fec' = fec
      /\ dec' = Conceal(d)
  BY DEF Drop, Lose
<1> HIDE DEF d
<1>3. Same(dec, d, {"calls"}) /\ d.calls = <<>>
  BY <1>1, ClearIs DEF Formed, d
<1>4. /\ d.prev_mode = dec.prev_mode /\ d.prev_redundancy = dec.prev_redundancy
      /\ d.transition_pending = dec.transition_pending /\ d.channels = dec.channels
  BY <1>3 DEF Same, Fields
<1>5. Formed(d)
  BY <1>1, <1>3, <1>4 DEF Formed, Same
<1> HIDE DEF x
<1>6. Quiet(d.calls, x)
  <2>1. Log(<<>>) /\ Len(<<>>) = 0
    BY DEF Log, Elements
  <2>2. StartFades(<<>>) = {}
    BY DEF StartFades
  <2> QED
    BY <1>3, <2>1, <2>2 DEF Quiet, Sound, NoSilk
<1>7. /\ Formed(dec')
      /\ Same(d, dec', ConcealFields \cup {"prev_mode", "prev_redundancy"})
  BY <1>2, <1>5, <1>6, ConcealIs
<1>8. dec'.transition_pending = FALSE /\ dec'.channels = Channels
  BY <1>1, <1>4, <1>7 DEF Same, Fields, ConcealFields
<1>9. CeltInSync'
  BY <1>2 DEF CeltInSync
<1> QED
  BY <1>1, <1>2, <1>7, <1>8, <1>9 DEF IInv

(* Stuttering keeps the invariant.                                         *)
LEMMA StutterOK == IInv /\ UNCHANGED link_vars => IInv'
  BY DEF link_vars, IInv, CeltInSync

(* Every step of the link keeps the invariant.                             *)
LEMMA NextOK ==
  ASSUME InputsFit, FreshIsNoToken
  PROVE  IInv /\ [LinkNext]_link_vars => IInv'
<1> SUFFICES ASSUME IInv, [LinkNext]_link_vars PROVE IInv'
  OBVIOUS
<1> QED
  BY SendOK, DeliverOK, DropOK, StutterOK DEF LinkNext

(* The invariant holds of every history of packets sent, delivered and     *)
(* lost.                                                                   *)
THEOREM LinkInvariant ==
  ASSUME InputsFit, FreshIsNoToken
  PROVE  LinkSpec => []IInv
<1>1. IInv /\ [LinkNext]_link_vars => IInv'
  BY NextOK
<1> QED
  BY <1>1, InitOK, PTL DEF LinkSpec

(* For every sequence of decisions of the encoder, packets of any number   *)
(* of frames, DTX included: as long as no packet is lost, each CELT frame, *)
(* redundant or not, is decoded from the state it was predicted from, or   *)
(* uses none ("encoder must mirror both or the streams desync").           *)
THEOREM CeltStaysInSync ==
  ASSUME InputsFit, FreshIsNoToken
  PROVE  LinkSpec => []CeltInSync
<1>1. IInv => CeltInSync
  BY DEF IInv
<1> QED
  BY <1>1, LinkInvariant, PTL

(* What a packet that arrives does, as the three action properties see it. *)
LEMMA DeliverKeeps ==
  ASSUME InputsFit, IInv, Deliver, ~lossy
  PROVE  /\ \A k \in DOMAIN dec'.calls :
              IsSilk(dec'.calls[k]) => Follows(dec'.calls[k]) \/ Strays(dec'.calls, k)
         /\ dec.prev_mode = "celt" /\ packet.mode # "celt"
              => \E k \in DOMAIN dec'.calls : StartFades(dec'.calls) = {k}
<1> DEFINE x == Asks
           calls == dec'.calls
<1>1. Decoded(dec, dec', packet, x)
  BY Delivered
<1>2. x.sync /\ (x.leaves <=> Leaves(dec, packet))
  BY DEF Asks
<1> HIDE DEF x
<1>3. Log(calls) /\ \A k \in 1 .. Len(calls) : Good(calls, k, x)
  BY <1>1 DEF Decoded, Sound
<1>4. DOMAIN calls = 1 .. Len(calls)
  BY <1>3, AppendLog
<1>5. ASSUME NEW k \in DOMAIN calls, IsSilk(calls[k])
      PROVE  Follows(calls[k]) \/ Strays(calls, k)
  <2>1. Meets(calls[k].at, calls[k].frame, NoSilk(calls, k - 1), x)
    BY <1>2, <1>3, <1>4, <1>5 DEF Good
  <2> HIDE DEF calls
  <2> QED
    BY <1>2, <2>1 DEF Meets, Follows, Strays, AfterCelt, NoSilk, Leaves
<1>6. ASSUME Leaves(dec, packet)
      PROVE  \E k \in DOMAIN calls : StartFades(calls) = {k}
  <2>1. PICK k : StartFades(calls) = {k}
    BY <1>1, <1>2, <1>6 DEF Decoded
  <2>2. k \in DOMAIN calls
    BY <2>1 DEF StartFades
  <2> QED
    BY <2>1, <2>2
<1> QED
  BY <1>5, <1>6 DEF Leaves

(* While no packet is lost SILK gets out of step only at the first frame   *)
(* after CELT, where the decoder resets and the encoder does not, and      *)
(* until its rate changes.                                                 *)
THEOREM SilkStraysOnlyAfterCelt ==
  ASSUME InputsFit, FreshIsNoToken
  PROVE  LinkSpec => SilkStraysAfterCelt
<1> DEFINE A == Deliver /\ ~lossy => \A k \in DOMAIN dec'.calls :
                  IsSilk(dec'.calls[k]) => Follows(dec'.calls[k]) \/ Strays(dec'.calls, k)
<1>1. IInv /\ [LinkNext]_link_vars => [A]_link_vars
  BY DeliverKeeps
<1> QED
  BY <1>1, LinkInvariant, PTL DEF LinkSpec, SilkStraysAfterCelt

(* While no packet is lost, a switch away from CELT starts with exactly    *)
(* one fade.                                                               *)
THEOREM SwitchFadesOnce ==
  ASSUME InputsFit, FreshIsNoToken
  PROVE  LinkSpec => FadesOnce
<1> DEFINE A == Deliver /\ ~lossy /\ dec.prev_mode = "celt" /\ packet.mode # "celt"
                  => \E k \in DOMAIN dec'.calls : StartFades(dec'.calls) = {k}
<1>1. IInv /\ [LinkNext]_link_vars => [A]_link_vars
  BY DeliverKeeps
<1> QED
  BY <1>1, LinkInvariant, PTL DEF LinkSpec, FadesOnce

(* Whatever was lost before, a packet that arrives lets the decoder see    *)
(* the mode changes the encoder sees, and a CELT state made anew in it     *)
(* puts CELT where the encoder is.                                         *)
THEOREM PacketsResync ==
  ASSUME InputsFit, FreshIsNoToken
  PROVE  LinkSpec => Resyncs
<1> DEFINE A == Deliver => SeenMode' = enc.prev_enc_mode
           B == Deliver /\ Renews(packet) => dec'.celt_dec = enc.celt_enc
<1>1. IInv /\ [LinkNext]_link_vars => [A]_link_vars /\ [B]_link_vars
  BY DeliverOK
<1> QED
  BY <1>1, LinkInvariant, PTL DEF LinkSpec, Resyncs, ModesMirror, Renewed
================================================================================

----------------------------- MODULE FramingProofs -----------------------------
(***************************************************************************)
(* Proofs about the two users of packet framing: the repacketizer, for     *)
(* every packet that comes in and every length asked for, and the          *)
(* multistream packets, for every layout that maps the channels one to one *)
(* onto coded ones and all frames the streams may code.                    *)
(***************************************************************************)
EXTENDS Repacketizer, Multistream, FramingLemmas

(***************************************************************************)
(* The repacketizer.                                                       *)
(***************************************************************************)
(* What a packet the repacketizer wrote is: frames one packet carries, as  *)
(* write_range puts them.                                                  *)
WrittenSo(w, fs, f) ==
  \E t \in 0 .. 255 : \E padTo \in Int :
    /\ Selected(t, fs) /\ Asked(fs, padTo) /\ (f = "written" <=> padTo = NoPad)
    /\ w = write_range(t, fs, padTo, FALSE)
DelimitedSo(w, fs) ==
  \E t \in 0 .. 255 : Selected(t, fs) /\ w = write_range(t, fs, NoPad, TRUE)

HeldInv ==
  /\ setting \in DOMAIN Settings
  /\ toc \in 0 .. 255
  /\ HeldFrames(frames)
  /\ frames # <<>> => framesize = Framesize(toc) /\ Carries(toc, Len(frames))
PacketInv ==
  /\ packet # NoPacket => WireOK(packet)
  /\ form \in {"written", "padded", "pad_packet"} => WrittenSo(packet, sent, form)
  /\ form = "self_delimited" => DelimitedSo(packet, sent)
RepacketizerInv == HeldInv /\ PacketInv

(* Frames added behind others are held like them.                          *)
LEMMA HeldBoth ==
  ASSUME NEW a, NEW b, HeldFrames(a), HeldFrames(b)
  PROVE  HeldFrames(a \o b) /\ Len(a \o b) = Len(a) + Len(b) /\ Len(a) \in Nat /\ Len(b) \in Nat
<1>1. a \in Seq(Elements(a)) /\ b \in Seq(Elements(b))
  BY FramesLog DEF HeldFrames, Log
<1>2. PICK S : S = Elements(a) \cup Elements(b)
  OBVIOUS
<1>3. a \in Seq(S) /\ b \in Seq(S)
  BY <1>1, <1>2
<1>4. PICK x : x = a \o b
  OBVIOUS
<1>5. PICK m \in Nat, n \in Nat : m = Len(a) /\ n = Len(b)
  BY <1>3
<1>6. /\ x \in Seq(S) /\ Len(x) = m + n
      /\ \A i \in 1 .. m : x[i] = a[i]
      /\ \A i \in 1 .. (m + n) : ~(i <= m) => x[i] = b[i - m]
  BY <1>3, <1>4, <1>5
<1>7. ASSUME NEW i \in 1 .. (m + n)
      PROVE  (\E j \in 1 .. m : x[i] = a[j]) \/ (\E j \in 1 .. n : x[i] = b[j])
  <2>1. CASE i <= m
    <3>1. i \in 1 .. m
      BY <2>1
    <3> QED
      BY <1>6, <3>1
  <2>2. CASE ~(i <= m)
    <3>1. i - m \in 1 .. n /\ x[i] = b[i - m]
      BY <1>6, <2>2
    <3> QED
      BY <3>1
  <2> QED
    BY <2>1, <2>2
<1>8. \A i \in 1 .. (m + n) : /\ FrameOK(x[i]) /\ x[i].len \in 0 .. MaxFrameBytes
                              /\ x[i].len = 0 => x[i].id = Junk
  <2>1. \A j \in 1 .. m : FrameOK(a[j]) /\ a[j].len \in 0 .. MaxFrameBytes /\ (a[j].len = 0 => a[j].id = Junk)
    BY <1>5 DEF HeldFrames, FramesOK
  <2>2. \A j \in 1 .. n : FrameOK(b[j]) /\ b[j].len \in 0 .. MaxFrameBytes /\ (b[j].len = 0 => b[j].id = Junk)
    BY <1>5 DEF HeldFrames, FramesOK
  <2> HIDE DEF MaxFrameBytes
  <2> QED
    BY <1>7, <2>1, <2>2
<1>9. Log(x)
  <2>1. DOMAIN x = 1 .. Len(x) /\ x = [i \in 1 .. Len(x) |-> x[i]] /\ Len(x) \in Nat
    BY <1>6
  <2>2. \A i \in 1 .. Len(x) : x[i] \in Elements(x)
    BY <2>1 DEF Elements
  <2>3. x \in Seq(Elements(x))
    BY <2>1, <2>2
  <2> QED
    BY <2>3 DEF Log
<1>10. HeldFrames(x)
  BY <1>6, <1>8, <1>9, FramesLog DEF HeldFrames
<1> QED
  BY <1>4, <1>5, <1>6, <1>10

(* So are some of them in a row.                                           *)
LEMMA HeldRange ==
  ASSUME NEW a, HeldFrames(a), NEW m \in Nat, NEW n \in Nat, m < n, n <= Len(a)
  PROVE  HeldFrames(SubSeq(a, m + 1, n)) /\ Len(SubSeq(a, m + 1, n)) = n - m
<1>1. a \in Seq(Elements(a))
  BY FramesLog DEF HeldFrames, Log
<1>2. PICK x : x = SubSeq(a, m + 1, n)
  OBVIOUS
<1>3. PICK k \in Nat : k = n - m
  OBVIOUS
<1>4. PICK l \in Nat : l = Len(a) /\ n <= l
  BY <1>1
<1>5. /\ x \in Seq(Elements(a)) /\ Len(x) = k
      /\ \A i \in 1 .. k : x[i] = a[m + i]
  <2>1. PICK b \in Nat : b = m + 1
    OBVIOUS
  <2>2. b \in 1 .. l /\ n \in 1 .. l /\ n - b + 1 = k
    BY <1>3, <1>4, <2>1
  <2>3. /\ SubSeq(a, b, n) \in Seq(Elements(a)) /\ Len(SubSeq(a, b, n)) = n - b + 1
        /\ \A i \in 1 .. (n - b + 1) : SubSeq(a, b, n)[i] = a[b + i - 1]
    BY <1>1, <1>4, <2>2
  <2>4. \A i \in 1 .. k : b + i - 1 = m + i
    BY <2>1
  <2> QED
    BY <1>2, <2>1, <2>2, <2>3, <2>4
<1>6. \A i \in 1 .. k : /\ FrameOK(x[i]) /\ x[i].len \in 0 .. MaxFrameBytes
                        /\ x[i].len = 0 => x[i].id = Junk
  <2>1. \A j \in 1 .. l : FrameOK(a[j]) /\ a[j].len \in 0 .. MaxFrameBytes /\ (a[j].len = 0 => a[j].id = Junk)
    BY <1>4 DEF HeldFrames, FramesOK
  <2>2. \A i \in 1 .. k : m + i \in 1 .. l
    BY <1>3, <1>4
  <2> HIDE DEF MaxFrameBytes
  <2> QED
    BY <1>5, <2>1, <2>2
<1>7. Log(x)
  <2>1. DOMAIN x = 1 .. Len(x) /\ x = [i \in 1 .. Len(x) |-> x[i]] /\ Len(x) \in Nat
    BY <1>5
  <2>2. \A i \in 1 .. Len(x) : x[i] \in Elements(x)
    BY <2>1 DEF Elements
  <2>3. x \in Seq(Elements(x))
    BY <2>1, <2>2
  <2> QED
    BY <2>3 DEF Log
<1>8. HeldFrames(x)
  BY <1>5, <1>6, <1>7, FramesLog DEF HeldFrames
<1> QED
  BY <1>2, <1>3, <1>5, <1>8

(* A packet that carries frames carries fewer.                             *)
LEMMA CarriesFewer ==
  ASSUME NEW t \in 0 .. 255, NEW m \in Nat, NEW n \in Nat, m <= n, Carries(t, n)
  PROVE  Carries(t, m)
<1>1. PICK size \in Nat : size = Framesize(t)
  BY SamplesIs DEF Framesize
<1>2. n * size <= 960
  BY <1>1 DEF Carries
<1>3. PICK k \in Nat : n = m + k
  <2>1. n - m \in Nat /\ n = m + (n - m)
    OBVIOUS
  <2> QED
    BY <2>1
<1>4. n * size = m * size + k * size /\ m * size \in Nat /\ k * size \in Nat
  BY <1>3
<1>5. m * size <= 960
  BY <1>2, <1>4
<1> QED
  BY <1>1, <1>5 DEF Carries

(* A new repacketizer holds no frames, and no packet is in hand.           *)
LEMMA InitRepacketizer == Init => RepacketizerInv
<1> SUFFICES ASSUME Init PROVE RepacketizerInv
  OBVIOUS
<1>1. setting \in DOMAIN Settings /\ toc = 0 /\ frames = <<>> /\ packet = NoPacket /\ form = "none"
  BY DEF Init
<1>2. HeldFrames(<<>>)
  <2>1. PICK x : x = <<>>
    OBVIOUS
  <2>2. x \in Seq(Elements(x)) /\ Len(x) = 0
    BY <2>1
  <2>3. Log(x) /\ \A i \in 1 .. Len(x) : FALSE
    BY <2>2 DEF Log
  <2>4. HeldFrames(x)
    BY <2>3, FramesLog DEF HeldFrames
  <2> QED
    BY <2>1, <2>4
<1>3. HeldInv
  BY <1>1, <1>2 DEF HeldInv
<1>4. PacketInv
  BY <1>1 DEF PacketInv
<1> QED
  BY <1>3, <1>4 DEF RepacketizerInv

(* What one call of the environment leaves alone.                          *)
LEMMA SettingKept ==
  ASSUME setting \in DOMAIN Settings
  PROVE  (\A w \in Inputs : WireOK(w)) /\ PadExtras \subseteq Nat
  BY SettingsAssumption DEF SettingsAssumption, Inputs, PadExtras

(* A packet comes, goes, or is left where it is.                           *)
LEMMA ReceiveStep ==
  ASSUME RepacketizerInv, setting' = setting, NEW w \in Inputs, Receive(w)
  PROVE  RepacketizerInv'
<1>1. WireOK(w)
  BY SettingKept DEF RepacketizerInv, HeldInv
<1>2. packet' = w /\ form' = "received"
  BY DEF Receive
<1>3. HeldInv'
  BY DEF RepacketizerInv, HeldInv, Receive
<1>4. PacketInv'
  BY <1>1, <1>2 DEF PacketInv
<1> QED
  BY <1>3, <1>4 DEF RepacketizerInv

(* The packet in hand goes away.                                           *)
LEMMA DiscardStep ==
  ASSUME RepacketizerInv, setting' = setting, Discard
  PROVE  RepacketizerInv'
<1>1. packet' = NoPacket /\ form' = "none"
  BY DEF Discard
<1>2. HeldInv'
  BY DEF RepacketizerInv, HeldInv, Discard
<1>3. PacketInv'
  BY <1>1 DEF PacketInv
<1> QED
  BY <1>2, <1>3 DEF RepacketizerInv

(* Repacketizer::reset: nothing is held.                                   *)
LEMMA ResetStep ==
  ASSUME RepacketizerInv, setting' = setting, Reset
  PROVE  RepacketizerInv'
<1>1. frames' = <<>> /\ UNCHANGED <<toc, framesize, packet, sent, form>>
  BY DEF Reset
<1>2. HeldFrames(<<>>)
  <2>1. PICK x : x = <<>>
    OBVIOUS
  <2>2. x \in Seq(Elements(x)) /\ Len(x) = 0
    BY <2>1
  <2>3. Log(x) /\ \A i \in 1 .. Len(x) : FALSE
    BY <2>2 DEF Log
  <2>4. HeldFrames(x)
    BY <2>3, FramesLog DEF HeldFrames
  <2> QED
    BY <2>1, <2>4
<1>3. HeldInv'
  BY <1>1, <1>2 DEF RepacketizerInv, HeldInv
<1>4. PacketInv'
  BY <1>1 DEF RepacketizerInv, PacketInv
<1> QED
  BY <1>3, <1>4 DEF RepacketizerInv

(* The packet an operation may take: bytes, of some length.                *)
LEMMA AddableIs ==
  ASSUME RepacketizerInv, Addable
  PROVE  /\ WireOK(packet) /\ WireLen(packet) > 0 /\ WireLen(packet) \in Nat
         /\ ByteAt(packet, 0) \in 0 .. 255
<1>1. WireOK(packet)
  BY DEF RepacketizerInv, PacketInv, Addable
<1> QED
  BY <1>1, BytesAre DEF Addable

(* Repacketizer::cat refuses: no frame is added, what it assigned before   *)
(* the checks stays.                                                       *)
LEMMA CatRejectedStep ==
  ASSUME RepacketizerInv, setting' = setting, CatRejected
  PROVE  RepacketizerInv'
<1>1. /\ Addable /\ toc' = HeldToc /\ framesize' = HeldFramesize
      /\ UNCHANGED <<frames, packet, sent, form>>
  BY DEF CatRejected
<1>2. HeldToc \in 0 .. 255
  BY <1>1, AddableIs DEF HeldToc, RepacketizerInv, HeldInv
<1>3. frames # <<>> => HeldToc = toc /\ HeldFramesize = framesize
  BY DEF HeldToc, HeldFramesize
<1>4. HeldInv'
  BY <1>1, <1>2, <1>3 DEF RepacketizerInv, HeldInv
<1>5. PacketInv'
  BY <1>1 DEF RepacketizerInv, PacketInv
<1> QED
  BY <1>4, <1>5 DEF RepacketizerInv

(* cat: the new frames are held, and with the others one packet carries    *)
(* them.                                                                   *)
LEMMA CatStep ==
  ASSUME RepacketizerInv, setting' = setting, Cat
  PROVE  RepacketizerInv'
<1>1. /\ Addable /\ CatAccepts /\ toc' = HeldToc /\ framesize' = HeldFramesize
      /\ frames' = frames \o Contents(packet, parse_frames(packet, FALSE))
      /\ packet' = NoPacket /\ form' = "none"
  BY DEF Cat
<1>2. PICK fs : fs = Contents(packet, parse_frames(packet, FALSE))
  OBVIOUS
<1>3. parse_frames(packet, FALSE).ok /\ (nb_frames(packet) + Len(frames)) * HeldFramesize <= 960
  BY <1>1 DEF CatAccepts
<1>4. Kept(packet, fs)
  BY <1>1, <1>2, <1>3, AddableIs, KeptIs
<1>5. HeldFrames(fs) /\ Len(fs) = nb_frames(packet)
  BY <1>4 DEF Kept
<1>6. HeldFrames(frames)
  BY DEF RepacketizerInv, HeldInv
<1>7. PICK all : all = frames \o fs
  OBVIOUS
<1>8. HeldFrames(all) /\ Len(all) = Len(frames) + Len(fs) /\ Len(frames) \in Nat /\ Len(fs) \in Nat
  BY <1>5, <1>6, <1>7, HeldBoth
<1>9. HeldToc \in 0 .. 255 /\ HeldFramesize = Framesize(HeldToc)
  <2>1. CASE frames = <<>>
    BY <1>1, <2>1, AddableIs DEF HeldToc, HeldFramesize, Framesize
  <2>2. CASE frames # <<>>
    BY <2>2 DEF HeldToc, HeldFramesize, RepacketizerInv, HeldInv
  <2> QED
    BY <2>1, <2>2
<1>10. Carries(HeldToc, Len(all))
  <2>1. Len(all) = nb_frames(packet) + Len(frames)
    BY <1>5, <1>8
  <2>2. Len(all) * HeldFramesize <= 960
    BY <1>3, <2>1
  <2> QED
    BY <1>9, <2>2 DEF Carries
<1>11. frames' = all
  BY <1>1, <1>2, <1>7
<1>12. HeldInv'
  BY <1>1, <1>8, <1>9, <1>10, <1>11 DEF RepacketizerInv, HeldInv
<1>13. PacketInv'
  BY <1>1 DEF PacketInv
<1> QED
  BY <1>12, <1>13 DEF RepacketizerInv

(***************************************************************************)
(* Writing.                                                                *)
(***************************************************************************)
(* What is written is a packet, of these frames.                           *)
LEMMA WriteStep ==
  ASSUME RepacketizerInv, setting' = setting, NEW fs, Selected(toc, fs), NEW padTo, Asked(fs, padTo),
         NEW as \in {"written", "padded"}, as = "written" <=> padTo = NoPad,
         Write(fs, padTo, FALSE, as)
  PROVE  RepacketizerInv'
<1>1. /\ packet' = write_range(toc, fs, padTo, FALSE) /\ sent' = fs /\ form' = as
      /\ UNCHANGED <<toc, framesize, frames>>
  BY DEF Write
<1>2. Written(packet', fs, padTo)
  BY <1>1, WrittenIs
<1>3. WireOK(packet')
  BY <1>2 DEF Written
<1>4. toc \in 0 .. 255 /\ padTo \in Int
  BY DEF Selected, Asked, NoPad
<1>5. WrittenSo(packet', fs, as)
  BY <1>1, <1>4 DEF WrittenSo
<1>6. HeldInv'
  BY <1>1 DEF RepacketizerInv, HeldInv
<1>7. PacketInv'
  BY <1>1, <1>3, <1>5 DEF PacketInv
<1> QED
  BY <1>6, <1>7 DEF RepacketizerInv

(* All the frames held fit one packet.                                     *)
LEMMA AllSelected ==
  ASSUME RepacketizerInv, frames # <<>>
  PROVE  Selected(toc, frames)
<1>1. HeldFrames(frames) /\ toc \in 0 .. 255 /\ Carries(toc, Len(frames))
  BY DEF RepacketizerInv, HeldInv
<1>2. frames \in Seq(Elements(frames))
  BY <1>1, FramesLog DEF HeldFrames, Log
<1>3. Len(frames) >= 1
  BY <1>2
<1> QED
  BY <1>1, <1>3 DEF Selected

(* Repacketizer::out_range: frames in hand are written.                    *)
LEMMA OutRangeStep ==
  ASSUME RepacketizerInv, setting' = setting, OutRange
  PROVE  RepacketizerInv'
<1>1. PICK b \in 0 .. Len(frames), e \in 0 .. Len(frames) :
        b < e /\ Write(SubSeq(frames, b + 1, e), NoPad, FALSE, "written")
  BY DEF OutRange
<1>2. HeldFrames(frames) /\ toc \in 0 .. 255
  BY DEF RepacketizerInv, HeldInv
<1>3. PICK n \in Nat : n = Len(frames)
  BY <1>2, HeldAre
<1>4. b \in Nat /\ e \in Nat /\ e <= n
  BY <1>1, <1>3
<1>5. frames # <<>>
  BY <1>1, <1>3
<1>6. PICK fs : fs = SubSeq(frames, b + 1, e)
  OBVIOUS
<1>7. HeldFrames(fs) /\ Len(fs) = e - b
  BY <1>1, <1>2, <1>3, <1>4, <1>6, HeldRange
<1>8. e - b \in Nat /\ e - b <= n /\ e - b >= 1
  BY <1>1, <1>4
<1>9. Carries(toc, n)
  BY <1>3, <1>5 DEF RepacketizerInv, HeldInv
<1>10. Carries(toc, e - b)
  BY <1>2, <1>3, <1>8, <1>9, CarriesFewer
<1>11. Selected(toc, fs)
  BY <1>2, <1>7, <1>8, <1>10 DEF Selected
<1>12. Asked(fs, NoPad)
  BY DEF Asked
<1> QED
  BY <1>1, <1>6, <1>11, <1>12, WriteStep

(* The held frames are written in the length asked for.                    *)
LEMMA OutPaddedStep ==
  ASSUME RepacketizerInv, setting' = setting, OutPadded
  PROVE  RepacketizerInv'
<1>1. PICK extra \in PadExtras : frames # <<>> /\ Write(frames, Code3Size(frames) + extra, FALSE, "padded")
  BY DEF OutPadded
<1>2. extra \in Nat
  BY SettingKept DEF RepacketizerInv, HeldInv
<1>3. Selected(toc, frames)
  BY <1>1, AllSelected
<1>4. PICK size \in Nat : size = Code3Size(frames) /\ size >= 2
  <2>1. HeldFrames(frames) /\ Len(frames) >= 1
    BY <1>3 DEF Selected
  <2>2. Asked(frames, NoPad)
    BY DEF Asked
  <2> QED
    BY <2>1, <2>2, PaddingIs
<1>5. PICK padTo \in Nat : padTo = size + extra
  BY <1>2
<1>6. padTo >= size /\ padTo # NoPad
  BY <1>2, <1>5 DEF NoPad
<1>7. Asked(frames, padTo)
  BY <1>4, <1>6 DEF Asked
<1> QED
  BY <1>1, <1>3, <1>4, <1>5, <1>6, <1>7, WriteStep

(* The held frames are written self-delimited.                             *)
LEMMA OutSelfDelimitedStep ==
  ASSUME RepacketizerInv, setting' = setting, OutSelfDelimited
  PROVE  RepacketizerInv'
<1>1. frames # <<>> /\ Write(frames, NoPad, TRUE, "self_delimited")
  BY DEF OutSelfDelimited
<1>2. /\ packet' = write_range(toc, frames, NoPad, TRUE) /\ sent' = frames /\ form' = "self_delimited"
      /\ UNCHANGED <<toc, framesize, frames>>
  BY <1>1 DEF Write
<1>3. Selected(toc, frames)
  BY <1>1, AllSelected
<1>4. Delimited(packet', frames)
  BY <1>2, <1>3, DelimitedIs
<1>5. WireOK(packet')
  BY <1>4 DEF Delimited
<1>6. toc \in 0 .. 255
  BY <1>3 DEF Selected
<1>7. DelimitedSo(packet', frames)
  BY <1>2, <1>3, <1>6 DEF DelimitedSo
<1>8. HeldInv'
  BY <1>2 DEF RepacketizerInv, HeldInv
<1>9. PacketInv'
  BY <1>2, <1>5, <1>7 DEF PacketInv
<1> QED
  BY <1>8, <1>9 DEF RepacketizerInv

(* pad_packet and unpad_packet: the frames of the packet, written again.   *)
Reframed(t, held, padTo, as) ==
  /\ Kept(packet, held) /\ Selected(t, held)
  /\ packet' = write_range(t, held, padTo, FALSE) /\ sent' = held /\ form' = as
  /\ UNCHANGED <<toc, framesize, frames>>

(* What is re-framed are the frames of the packet in hand.                 *)
LEMMA ReframeIs ==
  ASSUME RepacketizerInv, NEW padTo, NEW as, Reframe(padTo, as)
  PROVE  \E t \in 0 .. 255 : \E held : Reframed(t, held, padTo, as)
<1>1. PICK parsed : /\ parsed = parse_frames(packet, FALSE) /\ parsed.ok
                    /\ packet' = write_range(parsed.toc, Contents(packet, parsed), padTo, FALSE)
                    /\ sent' = Contents(packet, parsed)
  <2>0. \E p \in {parse_frames(packet, FALSE)} :
          /\ p.ok
          /\ \E held \in {Contents(packet, p)} :
               /\ packet' = write_range(p.toc, held, padTo, FALSE)
               /\ sent' = held
    <3> DEFINE small == nb_frames(packet) * samples_per_frame(ByteAt(packet, 0), 8000) <= 960
               rest == \E p \in {parse_frames(packet, FALSE)} :
                         /\ p.ok
                         /\ \E held \in {Contents(packet, p)} :
                              /\ packet' = write_range(p.toc, held, padTo, FALSE)
                              /\ sent' = held
    <3>1. Reframe(padTo, as) = /\ Addable /\ small /\ rest /\ form' = as
                               /\ UNCHANGED <<toc, framesize, frames>>
      BY DEF Reframe
    <3> HIDE DEF small
    <3>2. rest
      BY <3>1
    <3> QED
      BY <3>2
  <2>1. PICK p \in {parse_frames(packet, FALSE)} :
          /\ p.ok
          /\ \E held \in {Contents(packet, p)} :
               /\ packet' = write_range(p.toc, held, padTo, FALSE)
               /\ sent' = held
    BY <2>0
  <2>2. p = parse_frames(packet, FALSE)
    BY <2>1
  <2>3. packet' = write_range(p.toc, Contents(packet, p), padTo, FALSE) /\ sent' = Contents(packet, p)
    BY <2>1, Zenon
  <2> QED
    BY <2>1, <2>2, <2>3
<1>2. /\ Addable /\ nb_frames(packet) * Framesize(ByteAt(packet, 0)) <= 960
      /\ form' = as /\ UNCHANGED <<toc, framesize, frames>>
  BY DEF Reframe, Framesize
<1>3. PICK held : held = Contents(packet, parsed)
  OBVIOUS
<1>4. Kept(packet, held) /\ parsed.toc = ByteAt(packet, 0)
  BY <1>1, <1>2, <1>3, AddableIs, KeptIs
<1>5. PICK t \in 0 .. 255 : t = ByteAt(packet, 0)
  BY <1>2, AddableIs
<1>6. HeldFrames(held) /\ Len(held) >= 1 /\ Len(held) = nb_frames(packet)
  BY <1>4 DEF Kept
<1>7. Carries(t, Len(held))
  BY <1>2, <1>5, <1>6, Zenon DEF Carries
<1>8. Selected(t, held)
  BY <1>5, <1>6, <1>7 DEF Selected
<1>9. Reframed(t, held, padTo, as)
  BY <1>1, <1>2, <1>3, <1>4, <1>5, <1>8 DEF Reframed
<1> QED
  BY <1>9

(* They are written as one packet carries them.                            *)
LEMMA ReframeStep ==
  ASSUME RepacketizerInv, setting' = setting, NEW as \in {"written", "pad_packet"},
         NEW t \in 0 .. 255, NEW held, NEW padTo, Reframed(t, held, padTo, as),
         Asked(held, padTo), as = "written" <=> padTo = NoPad
  PROVE  RepacketizerInv' /\ Written(packet', held, padTo)
<1>1. /\ packet' = write_range(t, held, padTo, FALSE) /\ sent' = held /\ form' = as
      /\ UNCHANGED <<toc, framesize, frames>> /\ Selected(t, held)
  BY DEF Reframed
<1>2. Written(packet', held, padTo)
  BY <1>1, WrittenIs
<1>3. WireOK(packet')
  BY <1>2 DEF Written
<1>4. padTo \in Int
  BY DEF Asked, NoPad
<1>5. WrittenSo(packet', held, as)
  BY <1>1, <1>4 DEF WrittenSo
<1>6. HeldInv'
  BY <1>1 DEF RepacketizerInv, HeldInv
<1>7. PacketInv'
  BY <1>1, <1>3, <1>5 DEF PacketInv
<1> QED
  BY <1>2, <1>6, <1>7 DEF RepacketizerInv

(* unpad_packet: no longer than it was.                                    *)
LEMMA UnpadStep ==
  ASSUME RepacketizerInv, setting' = setting, UnpadPacket
  PROVE  RepacketizerInv' /\ WireLen(packet') <= WireLen(packet) /\ form' = "written"
<1>0. PICK t \in 0 .. 255 : \E held : Reframed(t, held, NoPad, "written")
  BY ReframeIs DEF UnpadPacket
<1>1. PICK held : Reframed(t, held, NoPad, "written")
  BY <1>0
<1>2. Asked(held, NoPad)
  BY DEF Asked
<1>3. RepacketizerInv' /\ Written(packet', held, NoPad)
  BY <1>1, <1>2, ReframeStep
<1>4. WireLen(packet') = Shortest(held)
  BY <1>3 DEF Written
<1>5. Shortest(held) <= WireLen(packet) /\ form' = "written"
  BY <1>1 DEF Reframed, Kept
<1> QED
  BY <1>3, <1>4, <1>5

(* pad_packet: the length asked for.                                       *)
LEMMA PadStep ==
  ASSUME RepacketizerInv, setting' = setting, PadPacket
  PROVE  /\ RepacketizerInv' /\ form' = "pad_packet"
         /\ \E extra \in PadExtras : WireLen(packet') = WireLen(packet) + extra /\ extra > 0
<1>1. PICK extra \in PadExtras : extra > 0 /\ Reframe(WireLen(packet) + extra, "pad_packet")
  BY DEF PadPacket
<1>2. extra \in Nat
  BY SettingKept DEF RepacketizerInv, HeldInv
<1>3. Addable
  BY <1>1 DEF Reframe
<1>4. PICK len \in Nat : len = WireLen(packet)
  BY <1>3, AddableIs
<1>5. PICK padTo \in Nat : padTo = len + extra /\ padTo >= len + 1 /\ padTo # NoPad
  <2>1. len + extra \in Nat /\ len + extra >= len + 1 /\ len + extra # NoPad
    BY <1>1, <1>2 DEF NoPad
  <2> QED
    BY <2>1
<1>0. PICK t \in 0 .. 255 : \E held : Reframed(t, held, padTo, "pad_packet")
  BY <1>1, <1>4, <1>5, ReframeIs
<1>6. PICK held : Reframed(t, held, padTo, "pad_packet")
  BY <1>0
<1>7. PICK size \in Nat : size = Code3Size(held)
  <2>1. HeldFrames(held) /\ Len(held) >= 1
    BY <1>6 DEF Reframed, Selected
  <2>2. Asked(held, NoPad)
    BY DEF Asked
  <2> QED
    BY <2>1, <2>2, PaddingIs
<1>8. size <= len + 1
  BY <1>4, <1>6, <1>7 DEF Reframed, Kept
<1>9. padTo >= size
  BY <1>5, <1>8
<1>10. Asked(held, padTo)
  BY <1>7, <1>9 DEF Asked
<1>11. RepacketizerInv' /\ Written(packet', held, padTo)
  BY <1>5, <1>6, <1>10, ReframeStep
<1>12. WireLen(packet') = padTo /\ form' = "pad_packet"
  BY <1>5, <1>6, <1>11 DEF Written, Reframed
<1> QED
  BY <1>1, <1>4, <1>5, <1>11, <1>12

(* No step leaves the invariant.                                           *)
LEMMA RepacketizerStep == RepacketizerInv /\ [Next]_vars => RepacketizerInv'
<1> SUFFICES ASSUME RepacketizerInv, [Next]_vars PROVE RepacketizerInv'
  OBVIOUS
<1>1. CASE UNCHANGED vars
  BY <1>1 DEF vars, RepacketizerInv, HeldInv, PacketInv
<1>2. CASE Next
  <2>0. setting' = setting
    BY <1>2 DEF Next
  <2>1. CASE \E w \in Inputs : Receive(w)
    BY <2>0, <2>1, ReceiveStep
  <2>2. CASE Discard
    BY <2>0, <2>2, DiscardStep
  <2>3. CASE Cat
    BY <2>0, <2>3, CatStep
  <2>4. CASE CatRejected
    BY <2>0, <2>4, CatRejectedStep
  <2>5. CASE Reset
    BY <2>0, <2>5, ResetStep
  <2>6. CASE OutRange
    BY <2>0, <2>6, OutRangeStep
  <2>7. CASE OutSelfDelimited
    BY <2>0, <2>7, OutSelfDelimitedStep
  <2>8. CASE OutPadded
    BY <2>0, <2>8, OutPaddedStep
  <2>9. CASE PadPacket
    BY <2>0, <2>9, PadStep
  <2>10. CASE UnpadPacket
    BY <2>0, <2>10, UnpadStep
  <2> QED
    BY <1>2, <2>1, <2>2, <2>3, <2>4, <2>5, <2>6, <2>7, <2>8, <2>9, <2>10 DEF Next
<1> QED
  BY <1>1, <1>2

(* Every packet in hand is bytes; one that was written is what write_range *)
(* makes of frames one packet carries; and so are those that are held      *)
(* (Repacketizer::cat and its limit of 120 ms).                            *)
THEOREM RepacketizerInvariant == Spec => []RepacketizerInv
<1>1. Init => RepacketizerInv
  BY InitRepacketizer
<1>2. RepacketizerInv /\ [Next]_vars => RepacketizerInv'
  BY RepacketizerStep
<1> QED
  BY <1>1, <1>2, PTL DEF Spec

(* What is written is read back by both parsers.                           *)
LEMMA ReadBack == RepacketizerInv => WriterMatchesParsers
<1> SUFFICES ASSUME RepacketizerInv, form \in {"written", "padded", "pad_packet"}
             PROVE  /\ CutsInto(packet, parse_frames(packet, FALSE), sent)
                    /\ CutsInto(packet, DecodeParse(packet), sent)
  BY DEF WriterMatchesParsers
<1>1. PICK t \in 0 .. 255, padTo \in Int :
        Selected(t, sent) /\ Asked(sent, padTo) /\ packet = write_range(t, sent, padTo, FALSE)
  BY DEF RepacketizerInv, PacketInv, WrittenSo
<1>2. Written(packet, sent, padTo)
  BY <1>1, WrittenIs
<1>3. PICK p : p = parse_frames(packet, FALSE)
  OBVIOUS
<1>4. PICK d : d = DecodeParse(packet)
  OBVIOUS
<1>5. p.ok = TRUE /\ Contents(packet, p) = sent
  BY <1>2, <1>3 DEF Written, Yields
<1>6. SameCut(d, p)
  BY <1>2, <1>3, <1>4, SameCuts DEF Written
<1>7. d.ok = TRUE /\ d.ranges = p.ranges
  BY <1>5, <1>6 DEF SameCut
<1>8. Contents(packet, d) = Contents(packet, p)
  BY <1>7 DEF Contents
<1> QED
  BY <1>3, <1>4, <1>5, <1>7, <1>8 DEF CutsInto

(* Its buffer was large enough.                                            *)
LEMMA BufferSuffices == RepacketizerInv => OutVecSuffices
<1> SUFFICES ASSUME RepacketizerInv, form \in {"written", "self_delimited", "padded", "pad_packet"}
             PROVE  WireLen(packet) <= OutVecBound(sent, IF form \in {"padded", "pad_packet"}
                                                         THEN WireLen(packet) ELSE NoPad)
  BY DEF OutVecSuffices
<1>1. CASE form \in {"padded", "pad_packet"}
  <2>1. PICK t \in 0 .. 255, padTo \in Int :
          Selected(t, sent) /\ Asked(sent, padTo) /\ packet = write_range(t, sent, padTo, FALSE)
          /\ padTo # NoPad
    BY <1>1 DEF RepacketizerInv, PacketInv, WrittenSo
  <2>2. Written(packet, sent, padTo) /\ HeldFrames(sent)
    BY <2>1, WrittenIs DEF Selected
  <2>3. WireLen(packet) = padTo /\ padTo \in Nat
    BY <2>1, <2>2 DEF Written, Asked
  <2>4. PICK n \in Nat, sum \in Nat : n = Len(sent) /\ sum = SumLens(sent)
    BY <2>2, HeldAre
  <2>5. OutVecBound(sent, padTo) = 2 + 2 * (n + 1) + sum + (padTo + (padTo \div 255) + 1)
    BY <2>1, <2>4, Zenon DEF OutVecBound
  <2>6. PICK q \in Nat : q = padTo \div 255
    BY <2>3
  <2>7. padTo <= 2 + 2 * (n + 1) + sum + (padTo + q + 1)
    BY <2>3
  <2> QED
    BY <1>1, <2>3, <2>5, <2>6, <2>7, Zenon
<1>2. CASE form = "written"
  <2>1. PICK t \in 0 .. 255, padTo \in Int :
          Selected(t, sent) /\ Asked(sent, padTo) /\ packet = write_range(t, sent, padTo, FALSE)
          /\ padTo = NoPad
    BY <1>2 DEF RepacketizerInv, PacketInv, WrittenSo
  <2>2. Written(packet, sent, NoPad) /\ HeldFrames(sent) /\ Len(sent) >= 1
    BY <2>1, WrittenIs DEF Selected
  <2>3. WireLen(packet) = Shortest(sent)
    BY <2>2 DEF Written
  <2>4. PICK n \in Nat, sum \in Nat : n = Len(sent) /\ sum = SumLens(sent) /\ n >= 1
    BY <2>2, HeldAre
  <2>5. PICK fields \in Nat : fields = FieldsLen(sent) /\ fields <= 2 * (n - 1)
    BY <2>2, <2>4, FieldsFew
  <2>6. Code3Size(sent) = 2 + sum + fields
    BY <2>2, <2>4, <2>5, FieldsOfAre
  <2>7. Shortest(sent) \in {2 + sum + fields, 2 + sum + fields - 1}
    BY <2>6 DEF Shortest
  <2>8. OutVecBound(sent, NoPad) = 2 + 2 * (n + 1) + sum + 0
    BY <2>4, Zenon DEF OutVecBound
  <2>9. \A x \in {2 + sum + fields, 2 + sum + fields - 1} : x <= 2 + 2 * (n + 1) + sum + 0
    BY <2>4, <2>5
  <2>10. form \notin {"padded", "pad_packet"}
    BY <1>2
  <2> QED
    BY <2>3, <2>7, <2>8, <2>9, <2>10, Zenon
<1>3. CASE form = "self_delimited"
  <2>1. PICK t \in 0 .. 255 : Selected(t, sent) /\ packet = write_range(t, sent, NoPad, TRUE)
    BY <1>3 DEF RepacketizerInv, PacketInv, DelimitedSo
  <2>2. Delimited(packet, sent) /\ HeldFrames(sent)
    BY <2>1, DelimitedIs DEF Selected
  <2>3. PICK n \in Nat, sum \in Nat : n = Len(sent) /\ sum = SumLens(sent)
    BY <2>2, HeldAre
  <2>4. PICK head \in Nat : head = Len(packet.head) /\ head <= 2 + 2 * n
    BY <2>2, <2>3, BytesAre DEF Delimited
  <2>5. WireLen(packet) = head + sum
    BY <2>2, <2>3, <2>4 DEF Delimited
  <2>6. OutVecBound(sent, NoPad) = 2 + 2 * (n + 1) + sum + 0
    BY <2>3, Zenon DEF OutVecBound
  <2>7. head + sum <= 2 + 2 * (n + 1) + sum + 0
    BY <2>4
  <2>8. form \notin {"padded", "pad_packet"}
    BY <1>3
  <2> QED
    BY <2>5, <2>6, <2>7, <2>8, Zenon
<1> QED
  BY <1>1, <1>2, <1>3

(* Whatever the repacketizer writes, of any frames, padded to any length,  *)
(* parse_frames and OpusDecoder::decode both read back as these frames,    *)
(* and the buffer out_vec allocated was large enough.                      *)
THEOREM WritingExact == Spec => []WritersExact
<1>1. RepacketizerInv => WritersExact
  BY ReadBack, BufferSuffices DEF WritersExact
<1> QED
  BY <1>1, RepacketizerInvariant, PTL

(* A self-delimited packet ends where the next stream begins.              *)
LEMMA BoundaryFound == RepacketizerInv => SelfDelimitedBoundary
<1> SUFFICES ASSUME RepacketizerInv, form = "self_delimited", NEW more \in {0, 1, 7}
             PROVE  \E stream \in {[packet EXCEPT !.tail = @ + more]} :
                      \E parsed \in {parse_frames(stream, TRUE)} :
                        CutsInto(stream, parsed, sent) /\ parsed.end = WireLen(packet)
  BY DEF SelfDelimitedBoundary
<1>1. PICK t \in 0 .. 255 : Selected(t, sent) /\ packet = write_range(t, sent, NoPad, TRUE)
  BY DEF RepacketizerInv, PacketInv, DelimitedSo
<1>2. more \in Nat
  OBVIOUS
<1>3. PICK v : v = Followed(packet, more)
  OBVIOUS
<1>4. PICK p : p = parse_frames(v, TRUE)
  OBVIOUS
<1>5. Yields(v, sent, p) /\ p.end = WireLen(packet)
  BY <1>1, <1>2, <1>3, <1>4, DelimitedFound
<1>6. CutsInto(v, p, sent)
  BY <1>5 DEF Yields, CutsInto
<1>7. v = [packet EXCEPT !.tail = @ + more]
  BY <1>3 DEF Followed
<1> QED
  BY <1>4, <1>5, <1>6, <1>7

(* parse_frames and the parser in OpusDecoder::decode cut every packet     *)
(* alike, malformed ones too; and a self-delimited packet, whatever lies   *)
(* behind it, is read to its end and no further.                           *)
THEOREM CuttingAlike == Spec => []PacketsCutAlike
<1>1. RepacketizerInv => ParsersAgree
  BY SameCuts DEF ParsersAgree, RepacketizerInv, PacketInv
<1>2. RepacketizerInv => PacketsCutAlike
  BY <1>1, BoundaryFound DEF PacketsCutAlike
<1> QED
  BY <1>2, RepacketizerInvariant, PTL

(* pad_packet makes the length asked for exactly, and unpad_packet never   *)
(* makes a packet longer, whatever packet they are given.                  *)
THEOREM RepaddingExact == Spec => RepadExact
<1>1. ASSUME RepacketizerInv, [Next]_vars, form' = "pad_packet", form # "pad_packet"
      PROVE  \E extra \in PadExtras : WireLen(packet') = WireLen(packet) + extra /\ extra > 0
  <2>1. PadPacket /\ setting' = setting
    BY <1>1 DEF Next, vars, Receive, Discard, Cat, CatRejected, Reset, OutRange, Write,
                OutSelfDelimited, OutPadded, UnpadPacket, Reframe
  <2> QED
    BY <1>1, <2>1, PadStep
<1>2. ASSUME RepacketizerInv, [Next]_vars, packet # NoPacket, packet' # NoPacket, form' = "written"
      PROVE  packet' = packet \/ WireLen(packet') <= WireLen(packet)
  <2>1. packet' = packet \/ (UnpadPacket /\ setting' = setting)
    <3>1. PadPacket => form' = "pad_packet"
      BY DEF PadPacket, Reframe
    <3>2. ~PadPacket
      BY <1>2, <3>1
    <3>3. \/ \E w \in Inputs : Receive(w)
          \/ Discard \/ Cat \/ CatRejected \/ Reset \/ OutRange \/ OutSelfDelimited \/ OutPadded
          \/ UnpadPacket /\ setting' = setting
          \/ packet' = packet
      BY <1>2, <3>2 DEF Next, vars
    <3>4. ~\E w \in Inputs : Receive(w)
      BY <1>2 DEF Receive
    <3>5. ~(Discard \/ Cat)
      BY <1>2 DEF Discard, Cat
    <3>6. CatRejected \/ Reset => packet' = packet
      BY DEF CatRejected, Reset
    <3>7. ~(OutRange \/ OutSelfDelimited \/ OutPadded)
      BY <1>2 DEF OutRange, OutSelfDelimited, OutPadded, Write
    <3> QED
      BY <3>3, <3>4, <3>5, <3>6, <3>7
  <2> QED
    BY <1>2, <2>1, UnpadStep
<1>3. ASSUME RepacketizerInv, packet # NoPacket PROVE WireLen(packet) <= WireLen(packet)
  BY <1>3, BytesAre DEF RepacketizerInv, PacketInv
<1>4. RepacketizerInv /\ [Next]_vars =>
        /\ [form' = "pad_packet" /\ form # "pad_packet" =>
              \E extra \in PadExtras : WireLen(packet') = WireLen(packet) + extra /\ extra > 0]_vars
        /\ [packet # NoPacket /\ packet' # NoPacket /\ form' = "written" =>
              WireLen(packet') <= WireLen(packet)]_vars
  BY <1>1, <1>2, <1>3
<1> QED
  BY <1>4, RepacketizerInvariant, PTL DEF Spec, RepadExact, PadExact, UnpadNeverGrows

(***************************************************************************)
(* The multistream packets.                                                *)
(***************************************************************************)
(* The one channel that takes a side of a stream is the one it is coded    *)
(* from.                                                                   *)
LEMMA FirstIsOnly ==
  ASSUME NEW l, WellFormed(l), NEW s, NEW side, NEW c \in TakenBy(l, s, side)
  PROVE  FirstChannel(l, s, side) = c
<1>1. TakenBy(l, s, side) = {c}
  BY DEF WellFormed, TakenBy
<1>2. c \in Int
  BY DEF TakenBy, ChannelsOf, WellFormed
<1> QED
  BY <1>1, <1>2 DEF FirstChannel

(* Every channel takes a side of some stream.                              *)
LEMMA AllTaken ==
  ASSUME NEW l, WellFormed(l), NEW c \in ChannelsOf(l)
  PROVE  \E s \in StreamsOf(l) : \E side \in Sides(l, s) : c \in TakenBy(l, s, side)
<1> DEFINE d == l.mapping[c]
           n == l.nb_coupled_streams
<1>1. d \in 0 .. l.nb_streams + n - 1 /\ n \in Nat /\ l.nb_streams \in Nat
  BY DEF WellFormed
<1>2. CASE d >= 2 * n
  <2>1. d - n \in StreamsOf(l) /\ ~IsCoupled(l, d - n)
    BY <1>1, <1>2 DEF StreamsOf, IsCoupled
  <2>2. c \in TakenBy(l, d - n, "mono")
    BY <1>1 DEF TakenBy, Decoded
  <2> QED
    BY <2>1, <2>2 DEF Sides
<1>3. CASE d < 2 * n
  <2> DEFINE s == d \div 2
  <2>1. s \in Nat /\ (d = 2 * s \/ d = 2 * s + 1)
    BY <1>1
  <2> HIDE DEF s
  <2>2. s \in StreamsOf(l) /\ IsCoupled(l, s)
    BY <1>1, <1>3, <2>1 DEF StreamsOf, IsCoupled, WellFormed
  <2>3. c \in TakenBy(l, s, "left") \/ c \in TakenBy(l, s, "right")
    BY <2>1 DEF TakenBy, Decoded
  <2> QED
    BY <2>2, <2>3 DEF Sides
<1> QED
  BY <1>1, <1>2, <1>3

(* Remuxing what was gathered puts each channel of the stream in its place *)
(* and disturbs no channel that is in place.                               *)
LEMMA RemuxInPlace ==
  ASSUME NEW l, WellFormed(l), NEW s \in StreamsOf(l), NEW output_, NEW c \in ChannelsOf(l)
  PROVE  /\ (\E side \in Sides(l, s) : c \in TakenBy(l, s, side))
              => Remux(l, s, Gather(l, s), output_)[c] = c
         /\ output_[c] = c => Remux(l, s, Gather(l, s), output_)[c] = c
<1>1. \A side \in Sides(l, s) : c \in TakenBy(l, s, side) => Gather(l, s)[side] = c
  BY FirstIsOnly DEF Gather
<1>2. \A side \in Sides(l, s) : c \in TakenBy(l, s, side) => FirstChannel(l, s, side) = c
  BY FirstIsOnly
<1>3. CASE IsCoupled(l, s)
  <2>1. Sides(l, s) = {"left", "right"}
    BY <1>3 DEF Sides
  <2>2. Remux(l, s, Gather(l, s), output_)[c] =
          IF c \in TakenBy(l, s, "right") THEN Gather(l, s)["right"]
          ELSE IF c \in TakenBy(l, s, "left") THEN Gather(l, s)["left"] ELSE output_[c]
    BY <1>3 DEF Remux, RemuxSide
  <2> QED
    BY <1>1, <2>1, <2>2
<1>4. CASE ~IsCoupled(l, s)
  <2>1. Sides(l, s) = {"mono"}
    BY <1>4 DEF Sides
  <2>2. Remux(l, s, Gather(l, s), output_)[c] =
          IF c \in TakenBy(l, s, "mono") THEN Gather(l, s)["mono"] ELSE output_[c]
    BY <1>4 DEF Remux, RemuxSide
  <2> QED
    BY <1>1, <2>1, <2>2
<1> QED
  BY <1>3, <1>4

(***************************************************************************)
(* The inductive invariant: what was gathered so far, and that the         *)
(* channels of the streams decoded so far are in place.                    *)
(***************************************************************************)
InPlaceSoFar ==
  \A s \in 0 .. Len(played) - 1 : \A side \in Sides(layout, s) :
    \A c \in TakenBy(layout, s, side) : output[c] = c

MultistreamInv ==
  /\ layout \in Layouts
  /\ Log(played) /\ Log(gathered) /\ Log(coded)
  /\ Len(gathered) = Len(coded)
  /\ \A k \in 1 .. Len(gathered) : gathered[k] = Gather(layout, k - 1)
  /\ call = "encode" => Len(played) = 0
  /\ call \in {"decode", "returned"} => Len(gathered) = layout.nb_streams
  /\ call \in {"decode", "returned"} /\ out # <<>> => InPlaceSoFar
  /\ call = "returned" => Len(played) = layout.nb_streams

(* Nothing logged yet.                                                     *)
LEMMA NoneLog ==
  ASSUME NEW x, x = <<>>
  PROVE  Log(x) /\ Len(x) = 0
<1>1. x \in Seq(Elements(x))
  OBVIOUS
<1>2. Len(x) = 0
  OBVIOUS
<1>3. Log(x)
  BY <1>1 DEF Log
<1> QED
  BY <1>2, <1>3

(* It holds before the first packet.                                       *)
LEMMA InitMultistream == MSInit => MultistreamInv
<1> SUFFICES ASSUME MSInit PROVE MultistreamInv
  OBVIOUS
<1>1. /\ Log(played) /\ Log(gathered) /\ Log(coded)
      /\ Len(played) = 0 /\ Len(gathered) = 0 /\ Len(coded) = 0
  BY NoneLog DEF MSInit
<1> QED
  BY <1>1 DEF MSInit, MultistreamInv

(* A stream that was decoded puts its channels in their place.             *)
LEMMA AcceptInPlace ==
  ASSUME MultistreamInv, call = "decode", NEW heard, NEW end,
         Len(played) < layout.nb_streams, Accept(Len(played), heard, end),
         UNCHANGED <<layout, coded, gathered, out>>
  PROVE  MultistreamInv'
<1> DEFINE s == Len(played)
<1>1. layout \in Layouts /\ WellFormed(layout) /\ Len(gathered) = layout.nb_streams
  BY LayoutsAssumption DEF LayoutsAssumption, MultistreamInv
<1>2. CASE ~heard.ok
  BY <1>2 DEF Accept, MultistreamInv
<1>3. CASE heard.ok
  <2>1. /\ played' = Append(played, heard.frames)
        /\ output' = Remux(layout, s, IF out = <<>> THEN [x \in Sides(layout, s) |-> Stale]
                                     ELSE gathered[s + 1], output)
        /\ call' = "decode"
    BY <1>3 DEF Accept
  <2>2. Log(played') /\ Len(played') = s + 1 /\ s \in Nat
    BY <2>1, AppendLog DEF MultistreamInv
  <2>3. s \in StreamsOf(layout) /\ gathered[s + 1] = Gather(layout, s)
    BY <1>1, <2>2 DEF StreamsOf, MultistreamInv, WellFormed
  <2>4. ASSUME out # <<>> PROVE InPlaceSoFar'
    <3> SUFFICES ASSUME NEW t \in 0 .. s, NEW side \in Sides(layout, t),
                        NEW c \in TakenBy(layout, t, side)
                 PROVE  output'[c] = c
      BY <2>2 DEF InPlaceSoFar
    <3>1. c \in ChannelsOf(layout)
      BY DEF TakenBy
    <3>2. output' = Remux(layout, s, Gather(layout, s), output)
      BY <2>1, <2>3, <2>4
    <3>3. CASE t = s
      BY <3>1, <3>2, <3>3, <1>1, <2>3, RemuxInPlace
    <3>4. CASE t # s
      <4>1. output[c] = c
        BY <3>4, <2>2, <2>4 DEF MultistreamInv, InPlaceSoFar
      <4> QED
        BY <3>1, <3>2, <4>1, <1>1, <2>3, RemuxInPlace
    <3> QED
      BY <3>3, <3>4
  <2> QED
    BY <2>1, <2>2, <2>4, <1>1 DEF MultistreamInv
<1> QED
  BY <1>2, <1>3

(* No step leaves the invariant.                                           *)
LEMMA MultistreamStep == MultistreamInv /\ [MSNext]_ms_vars => MultistreamInv'
<1> SUFFICES ASSUME MultistreamInv, [MSNext]_ms_vars PROVE MultistreamInv'
  OBVIOUS
<1>1. CASE EncodeStream
  <2>1. /\ call = "encode" /\ call' = "encode" /\ UNCHANGED <<layout, played>>
        /\ gathered' = Append(gathered, Gather(layout, Len(coded)))
        /\ \E f : coded' = Append(coded, f)
    BY <1>1 DEF EncodeStream
  <2>2. /\ Log(gathered') /\ Log(coded')
        /\ Len(gathered') = Len(gathered) + 1 /\ Len(coded') = Len(coded) + 1
        /\ Len(gathered) \in Nat
    BY <2>1, AppendLog DEF MultistreamInv
  <2>3. ASSUME NEW k \in 1 .. Len(gathered') PROVE gathered'[k] = Gather(layout, k - 1)
    <3>1. CASE k \in 1 .. Len(gathered)
      BY <3>1, <2>1, AppendLog DEF MultistreamInv
    <3>2. CASE k = Len(gathered) + 1
      <4>1. gathered'[k] = Gather(layout, Len(coded))
        BY <3>2, <2>1, AppendLog DEF MultistreamInv
      <4>2. k - 1 = Len(coded)
        BY <3>2, <2>2 DEF MultistreamInv
      <4> QED
        BY <4>1, <4>2
    <3> QED
      BY <2>2, <3>1, <3>2
  <2> QED
    BY <2>1, <2>2, <2>3 DEF MultistreamInv
<1>2. CASE Deliver
  <2>1. /\ Len(played) = 0 /\ call' = "decode" /\ Len(gathered) = layout.nb_streams
        /\ UNCHANGED <<layout, coded, gathered, played, output>>
    BY <1>2 DEF Deliver, MultistreamInv
  <2>2. InPlaceSoFar'
    BY <2>1 DEF InPlaceSoFar
  <2> QED
    BY <2>1, <2>2 DEF MultistreamInv
<1>3. CASE DecodeStream
  <2>1. /\ call = "decode" /\ Len(played) < layout.nb_streams
        /\ UNCHANGED <<layout, coded, gathered, out>>
    BY <1>3 DEF DecodeStream
  <2>2. CASE call' = "failed" /\ UNCHANGED <<played, output, pos>>
    BY <2>1, <2>2 DEF MultistreamInv
  <2>3. CASE \E heard, end : Accept(Len(played), heard, end)
    BY <2>1, <2>3, AcceptInPlace
  <2> QED
    BY <1>3, <2>2, <2>3 DEF DecodeStream
<1>4. CASE Finish
  <2>1. /\ call = "decode" /\ call' = "returned" /\ Len(played) = layout.nb_streams
        /\ output' = Silenced(layout, output)
        /\ UNCHANGED <<layout, coded, gathered, out, played>>
    BY <1>4 DEF Finish
  <2>2. WellFormed(layout)
    BY LayoutsAssumption DEF LayoutsAssumption, MultistreamInv
  <2>3. ASSUME NEW c \in ChannelsOf(layout) PROVE output'[c] = output[c]
    BY <2>1, <2>2 DEF Silenced, WellFormed
  <2>4. ASSUME out # <<>> PROVE InPlaceSoFar'
    <3>1. InPlaceSoFar
      BY <2>1, <2>4 DEF MultistreamInv
    <3> QED
      BY <2>1, <2>3, <3>1 DEF InPlaceSoFar, TakenBy
  <2> QED
    BY <2>1, <2>4 DEF MultistreamInv
<1>5. CASE NextFrame
  <2>1. /\ Log(played') /\ Log(gathered') /\ Log(coded')
        /\ Len(played') = 0 /\ Len(gathered') = 0 /\ Len(coded') = 0
    BY <1>5, NoneLog DEF NextFrame
  <2> QED
    BY <1>5, <2>1 DEF NextFrame, MultistreamInv
<1>6. CASE UNCHANGED ms_vars
  BY <1>6 DEF ms_vars, MultistreamInv, InPlaceSoFar
<1> QED
  BY <1>1, <1>2, <1>3, <1>4, <1>5, <1>6 DEF MSNext

(* Once all streams are decoded every channel is in place.                 *)
LEMMA ChannelsBack == MultistreamInv => ChannelsInPlace
<1> SUFFICES ASSUME MultistreamInv, call = "returned", out # <<>>, NEW c \in ChannelsOf(layout)
             PROVE  output[c] = c
  BY DEF ChannelsInPlace
<1>1. WellFormed(layout)
  BY LayoutsAssumption DEF LayoutsAssumption, MultistreamInv
<1>2. PICK s \in StreamsOf(layout) : \E side \in Sides(layout, s) : c \in TakenBy(layout, s, side)
  BY <1>1, AllTaken
<1> QED
  BY <1>2 DEF MultistreamInv, InPlaceSoFar, StreamsOf

(* Whatever the layout, the packets and their losses, a channel of a       *)
(* decoded multistream packet carries the input channel of its own number  *)
(* (OpusMSEncoder::encode against OpusMSDecoder::decode).                  *)
THEOREM ChannelsReturn == MSSpec => []ChannelsInPlace
<1>1. MSSpec => []MultistreamInv
  BY InitMultistream, MultistreamStep, PTL DEF MSSpec
<1> QED
  BY <1>1, ChannelsBack, PTL

(* The sum of positive numbers tells how many were added.                  *)
LEMMA SumTells ==
  ASSUME NEW seq, NEW n \in Nat, \A i \in 1 .. n : seq[i] \in Nat /\ seq[i] > 0,
         NEW i \in 0 .. n, NEW j \in 0 .. n, SumTo(seq, i) = SumTo(seq, j)
  PROVE  i = j
<1>1. ASSUME NEW a \in 0 .. n, NEW b \in 0 .. n, a < b, SumTo(seq, a) = SumTo(seq, b) PROVE FALSE
  <2>1. a + 1 \in 0 .. n /\ a + 1 <= b /\ a + 1 \in 1 .. n
    BY <1>1
  <2>2. SumTo(seq, a + 1) = SumTo(seq, a) + seq[a + 1]
    BY SumStep
  <2>3. \A k \in 1 .. b : seq[k] \in Nat
    OBVIOUS
  <2>4. \A k \in 0 .. b : SumTo(seq, k) \in Nat /\ SumTo(seq, k) <= SumTo(seq, b)
    BY <2>3, SumGrows
  <2>5. SumTo(seq, a) \in Nat /\ SumTo(seq, a + 1) <= SumTo(seq, b)
    BY <2>1, <2>4
  <2>6. seq[a + 1] \in Nat /\ seq[a + 1] > 0
    BY <2>1
  <2> QED
    BY <1>1, <2>2, <2>5, <2>6
<1>2. ~(i < j) /\ ~(j < i)
  BY <1>1
<1> QED
  BY <1>2

(* The frames an encoder makes of a payload are ones a packet carries.     *)
LEMMA FramesOfAre ==
  ASSUME NEW s, NEW lens \in Payloads
  PROVE  Selected(Toc, FramesOf(s, lens))
<1> DEFINE frame(i) == [id |-> IF lens[i] = 0 THEN Junk ELSE <<s, i>>, len |-> lens[i]]
<1>1. PICK fs : fs = FramesOf(s, lens)
  OBVIOUS
<1>2. Toc \in 0 .. 255 /\ lens \in Seq(0 .. MaxFrameBytes) /\ Len(lens) >= 1
  BY PayloadsAssumption DEF PayloadsAssumption
<1>11. lens \in Seq(0 .. MaxFrameBytes)
  BY <1>2
<1>12. Carries(Toc, Len(lens))
  BY PayloadsAssumption DEF PayloadsAssumption, Carries, Framesize
<1>3. PICK n \in Nat : n = Len(lens) /\ n >= 1 /\ DOMAIN lens = 1 .. n
  BY <1>2
<1>4. fs = [i \in 1 .. n |-> frame(i)]
  BY <1>1, <1>3 DEF FramesOf
<1>5. DOMAIN fs = 1 .. n /\ \A i \in 1 .. n : fs[i] = frame(i)
  BY <1>4
<1>6. Log(fs) /\ Len(fs) = n
  <2> HIDE DEF frame
  <2>1. fs \in Seq({fs[k] : k \in DOMAIN fs})
    BY <1>4, <1>5
  <2>2. Len(fs) = n
    BY <1>4
  <2> QED
    BY <2>1, <2>2 DEF Log, Elements
<1>7. \A i \in 1 .. n : lens[i] \in 0 .. MaxFrameBytes /\ lens[i] \in Nat
  <2>1. PICK S : S = 0 .. MaxFrameBytes
    OBVIOUS
  <2>0. lens \in Seq(S)
    BY <1>11, <2>1, Zenon
  <2>2. \A i \in 1 .. n : lens[i] \in S
    BY <1>3, <2>0
  <2>3. \A x \in S : x \in Nat
    BY <2>1 DEF MaxFrameBytes
  <2> QED
    BY <2>1, <2>2, <2>3, Zenon
<1>8. \A i \in 1 .. n : FrameOK(fs[i]) /\ fs[i].len = lens[i] /\ (fs[i].len = 0 => fs[i].id = Junk)
  BY <1>5, <1>7 DEF FrameOK
<1>9. HeldFrames(fs)
  <2>1. FramesOK(fs)
    BY <1>6, <1>8, FramesLog
  <2>2. \A i \in 1 .. Len(fs) : fs[i].len \in 0 .. MaxFrameBytes /\ (fs[i].len = 0 => fs[i].id = Junk)
    BY <1>6, <1>7, <1>8, Zenon
  <2> QED
    BY <2>1, <2>2, Zenon DEF HeldFrames
<1>10. Carries(Toc, Len(fs))
  BY <1>12, <1>3, <1>6, Zenon
<1> QED
  BY <1>1, <1>2, <1>3, <1>6, <1>9, <1>10 DEF Selected

(* A packet has the header it was put together with.                       *)
LEMMA HeadOf ==
  ASSUME NEW head, NEW body, NEW tail, NEW w, w = [head |-> head, body |-> body, tail |-> tail]
  PROVE  w.head = head
  OBVIOUS

(* The TOC byte of what was written says how long its frames are.          *)
LEMMA FirstByte ==
  ASSUME NEW t, NEW fs, Selected(t, fs), NEW w, w = write_range(t, fs, NoPad, FALSE)
  PROVE  Selected(ByteAt(w, 0), fs)
<1>1. t \in 0 .. 255 /\ HeldFrames(fs) /\ Len(fs) >= 1 /\ Carries(t, Len(fs))
  BY DEF Selected
<1>2. Trailer(fs, FALSE) = <<>>
  BY DEF Trailer
<1>3. PICK front : front = FrontBytes(t, fs, NoPad)
  OBVIOUS
<1>4. w.head = front \o <<>>
  <2>1. w = Assemble(front \o Trailer(fs, FALSE), fs, NoPad)
    BY <1>3, WriteIs
  <2>2. PICK head : head = front \o <<>>
    OBVIOUS
  <2>3. w = Assemble(head, fs, NoPad)
    BY <1>2, <2>1, <2>2, Zenon
  <2>4. PICK tail : tail = PadAmount(NoPad, Len(head) + SumLens(fs))
    OBVIOUS
  <2>5. w = [head |-> head, body |-> fs, tail |-> tail]
    BY <2>3, <2>4, Zenon DEF Assemble
  <2>6. w.head = head
    BY <2>5, HeadOf
  <2> QED
    BY <2>2, <2>6
<1>5. <<>> \in Seq(0 .. 255)
  OBVIOUS
<1>6. \E c \in 0 .. 3 : ByteAt(w, 0) = WithCode(t, c)
  <2>1. CASE Len(fs) > 2
    <3>1. front = HeadCode3(t, fs, IsVbr(fs), PadAmount(NoPad, Code3Size(fs)))
      BY <1>3, <2>1 DEF FrontBytes
    <3>2. Asked(fs, NoPad)
      BY DEF Asked
    <3>3. PadAmount(NoPad, Code3Size(fs)) = 0
      BY <1>1, <3>2, PaddingIs
    <3>4. w.head = HeadCode3(t, fs, IsVbr(fs), 0) \o <<>>
      BY <1>4, <3>1, <3>3
    <3>5. Code3Head(w, t, fs, 0, Len(PadField(0)), <<>>)
      BY <1>5, <3>4, Code3HeadIs
    <3>6. ByteAt(w, 0) = WithCode(t, 3)
      BY <3>5, Zenon DEF Code3Head
    <3>7. 3 \in 0 .. 3
      OBVIOUS
    <3> QED
      BY <3>6, <3>7, Zenon
  <2>2. CASE ~(Len(fs) > 2)
    <3>1. front = Head012(t, fs)
      BY <1>3, <2>2 DEF FrontBytes
    <3>2. Len(fs) \in {1, 2}
      <4>1. PICK n \in Nat : n = Len(fs) /\ n >= 1
        BY <1>1, HeldAre
      <4>2. n \in {1, 2}
        BY <2>2, <4>1
      <4> QED
        BY <4>1, <4>2
    <3>3. PICK k \in 0 .. 3, field \in Seq(0 .. 255) :
            Shape(fs, k, field) /\ Head012(t, fs) = <<WithCode(t, k)>> \o field
      BY <1>1, <3>2, Head012Is
    <3>4. w.head = (<<WithCode(t, k)>> \o field) \o <<>>
      BY <1>4, <3>1, <3>3
    <3>5. ShortHead(w, t, k, field, <<>>)
      BY <1>1, <1>5, <3>4, ShortHeadIs
    <3> QED
      BY <3>5 DEF ShortHead
  <2> QED
    BY <2>1, <2>2
<1>7. PICK c \in 0 .. 3 : ByteAt(w, 0) = WithCode(t, c)
  BY <1>6
<1>8. ByteAt(w, 0) \in 0 .. 255
  BY <1>1, <1>7, TocIs
<1>9. Framesize(ByteAt(w, 0)) = Framesize(t)
  BY <1>1, <1>7, FramesizeIs
<1>10. Carries(ByteAt(w, 0), Len(fs))
  BY <1>1, <1>9, Zenon DEF Carries
<1> QED
  BY <1>1, <1>8, <1>10 DEF Selected

(***************************************************************************)
(* What each part of the packet is: frames one packet carries, written     *)
(* self-delimited for all streams but the last.                            *)
(***************************************************************************)
PartSo(w, fs, last) ==
  IF last THEN \E t \in 0 .. 255 : Selected(t, fs) /\ w = write_range(t, fs, NoPad, FALSE)
  ELSE DelimitedSo(w, fs)

PartsInv ==
  /\ Log(out)
  /\ call = "encode" => Len(out) = Len(coded) /\ pos = 0
  /\ out # <<>> => Len(out) = Len(coded)
  /\ \A k \in 1 .. Len(out) : PartSo(out[k], coded[k], k = layout.nb_streams)
  /\ BoundariesFound
  /\ call \in {"decode", "returned"} /\ out # <<>> /\ Len(played) = layout.nb_streams =>
       played[layout.nb_streams] = coded[layout.nb_streams]
StreamsInv == MultistreamInv /\ PartsInv

(* A part is bytes, and some.                                              *)
LEMMA PartIs ==
  ASSUME NEW w, NEW fs, NEW last, PartSo(w, fs, last)
  PROVE  WireOK(w) /\ WireLen(w) \in Nat /\ WireLen(w) > 0
<1>1. WireOK(w) /\ WireLen(w) > 0
  <2>1. CASE last
    <3>1. PICK t \in 0 .. 255 : Selected(t, fs) /\ w = write_range(t, fs, NoPad, FALSE)
      BY <2>1 DEF PartSo
    <3>2. Asked(fs, NoPad)
      BY DEF Asked
    <3>3. Written(w, fs, NoPad)
      BY <3>1, <3>2, WrittenIs
    <3> QED
      BY <3>3, Zenon DEF Written
  <2>2. CASE ~last
    <3>1. PICK t \in 0 .. 255 : Selected(t, fs) /\ w = write_range(t, fs, NoPad, TRUE)
      BY <2>2 DEF PartSo, DelimitedSo
    <3>2. Delimited(w, fs)
      BY <3>1, DelimitedIs
    <3> QED
      BY <3>2, Zenon DEF Delimited
  <2> QED
    BY <2>1, <2>2
<1> QED
  BY <1>1, BytesAre

(* OpusMSEncoder::encode makes such parts.                                 *)
LEMMA PartMade ==
  ASSUME NEW l, l.nb_streams \in Nat, NEW s \in Nat, NEW lens \in Payloads
  PROVE  PartSo(Part(l, s, write_range(Toc, FramesOf(s, lens), NoPad, FALSE)), FramesOf(s, lens),
                s + 1 = l.nb_streams)
<1>1. PICK fs : fs = FramesOf(s, lens) /\ Selected(Toc, fs)
  BY FramesOfAre
<1>2. PICK w : w = write_range(Toc, fs, NoPad, FALSE)
  OBVIOUS
<1>3. Toc \in 0 .. 255
  BY <1>1 DEF Selected
<1>4. CASE s + 1 = l.nb_streams
  <2>1. Part(l, s, w) = w
    BY <1>4 DEF Part, Last_s
  <2>2. PartSo(w, fs, TRUE)
    BY <1>1, <1>2, <1>3 DEF PartSo
  <2> QED
    BY <1>1, <1>2, <1>4, <2>1, <2>2
<1>5. CASE s + 1 # l.nb_streams
  <2>1. Part(l, s, w) = SelfDelimited(w)
    BY <1>5 DEF Part, Last_s
  <2>2. Asked(fs, NoPad)
    BY DEF Asked
  <2>3. Written(w, fs, NoPad)
    BY <1>1, <1>2, <2>2, WrittenIs
  <2>4. Contents(w, parse_frames(w, FALSE)) = fs
    BY <2>3, Zenon DEF Written, Yields
  <2>5. PICK t : t = ByteAt(w, 0) /\ Selected(t, fs)
    BY <1>1, <1>2, FirstByte
  <2>6. SelfDelimited(w) = write_range(t, fs, NoPad, TRUE)
    BY <2>4, <2>5 DEF SelfDelimited
  <2>7. t \in 0 .. 255
    BY <2>5 DEF Selected
  <2>8. PartSo(Part(l, s, w), fs, FALSE)
    BY <2>1, <2>5, <2>6, <2>7 DEF PartSo, DelimitedSo
  <2> QED
    BY <1>1, <1>2, <1>5, <2>8
<1> QED
  BY <1>4, <1>5

(* Nothing behind a packet: the packet.                                    *)
LEMMA FollowedByNone ==
  ASSUME NEW w, WireOK(w)
  PROVE  Followed(w, 0) = w
<1>1. w = [head |-> w.head, body |-> w.body, tail |-> w.tail] /\ w.tail \in Nat
  BY DEF WireOK
<1>2. w.tail + 0 = w.tail
  BY <1>1
<1> QED
  BY <1>1, <1>2 DEF Followed

(* A part that ends at b, with the bytes up to a behind it.                *)
Widened(w, a, b) == [w EXCEPT !.tail = @ + a - b]

(* That is: its tail is longer.                                            *)
LEMMA WidenedIs ==
  ASSUME NEW w, w.tail \in Nat, NEW a \in Nat, NEW b \in Nat
  PROVE  Widened(w, a, b) = [w EXCEPT !.tail = (w.tail + a) - b]
  BY DEF Widened

(* Where the decoder of the next stream starts is its part of the packet,  *)
(* with the parts of the streams after it behind.                          *)
Located(s, more) ==
  /\ Data = Followed(out[s + 1], more) /\ more \in Nat
  /\ s + 1 = layout.nb_streams => more = 0
  /\ SumTo(PartLens, s + 1) = pos + WireLen(out[s + 1])

(* OpusMSDecoder::decode is there, whatever came before in the packet.     *)
LEMMA DataLocated ==
  ASSUME StreamsInv, call = "decode", out # <<>>,
         NEW s \in Nat, s = Len(played), s < layout.nb_streams
  PROVE  \E more : Located(s, more)
<1>1. PICK nb \in Nat : nb = layout.nb_streams
  BY LayoutsAssumption DEF LayoutsAssumption, StreamsInv, MultistreamInv, WellFormed
<1>2. Log(out) /\ Len(out) = nb /\ DOMAIN out = 1 .. nb
  <2>1. Log(out) /\ Len(out) = nb
    BY <1>1 DEF StreamsInv, MultistreamInv, PartsInv
  <2> QED
    BY <2>1 DEF Log
<1>3. \A k \in 1 .. nb : WireOK(out[k]) /\ WireLen(out[k]) \in Nat /\ WireLen(out[k]) > 0
  BY <1>2, PartIs DEF StreamsInv, PartsInv
<1>4. PICK L : L = PartLens
  OBVIOUS
<1>5. DOMAIN L = 1 .. nb /\ \A k \in 1 .. nb : L[k] = WireLen(out[k])
  BY <1>2, <1>4 DEF PartLens
<1>6. \A k \in 1 .. nb : L[k] \in Nat /\ L[k] > 0
  BY <1>3, <1>5
<1>7. pos = SumTo(L, s)
  BY <1>4 DEF StreamsInv, PartsInv, BoundariesFound
<1>8. PICK k \in 1 .. nb : k = s + 1
  BY <1>1
<1>9. SumTo(L, k) = SumTo(L, s) + L[k]
  BY <1>8, SumStep
<1>10. {j \in DOMAIN out : Begin(j) = pos} = {k}
  <2>1. ASSUME NEW j \in 1 .. nb, Begin(j) = pos PROVE j = k
    <3>1. SumTo(L, j - 1) = SumTo(L, s)
      BY <1>4, <1>7, <2>1 DEF Begin
    <3>2. j - 1 \in 0 .. nb /\ s \in 0 .. nb
      BY <1>1
    <3>3. j - 1 = s
      BY <1>6, <3>1, <3>2, SumTells
    <3> QED
      BY <1>8, <3>3
  <2>2. Begin(k) = pos
    <3>1. k - 1 = s
      BY <1>8
    <3> QED
      BY <1>4, <1>7, <3>1 DEF Begin
  <2> QED
    BY <1>2, <2>1, <2>2
<1>11. PICK w : w = out[k] /\ WireOK(w)
  BY <1>3
<1>12. Data = Widened(w, End(Len(out)), End(k))
  <2>1. PICK here : here = {j \in DOMAIN out : Begin(j) = pos}
    OBVIOUS
  <2>2. here = {k} /\ here # {} /\ (CHOOSE j \in here : TRUE) = k
    BY <1>10, <2>1
  <2> QED
    BY <1>11, <2>1, <2>2, Zenon DEF Data, Widened
<1>13. \A j \in 0 .. nb : SumTo(L, j) \in Nat /\ SumTo(L, j) <= SumTo(L, nb)
  BY <1>6, SumGrows
<1>14. PICK more \in Nat : more = SumTo(L, nb) - SumTo(L, k)
  <2>1. k \in 0 .. nb /\ nb \in 0 .. nb
    OBVIOUS
  <2>2. PICK a \in Nat, b \in Nat : a = SumTo(L, nb) /\ b = SumTo(L, k) /\ b <= a
    BY <1>13, <2>1
  <2>3. a - b \in Nat
    BY <2>2
  <2> QED
    BY <2>2, <2>3
<1>15. Data = Followed(w, more)
  <2>1. k \in 0 .. nb /\ nb \in 0 .. nb
    OBVIOUS
  <2>2. PICK a \in Nat, b \in Nat : a = SumTo(L, nb) /\ b = SumTo(L, k)
    BY <1>13, <2>1
  <2>3. End(Len(out)) = a /\ End(k) = b
    BY <1>2, <1>4, <2>2 DEF End
  <2>4. PICK tail \in Nat : tail = w.tail
    BY <1>11 DEF WireOK
  <2>5. (tail + a) - b = tail + more
    BY <1>14, <2>2
  <2>6. [w EXCEPT !.tail = (w.tail + a) - b] = [w EXCEPT !.tail = w.tail + more]
    BY <2>4, <2>5, Zenon
  <2>7. Data = Widened(w, a, b)
    BY <1>12, <2>3, Zenon
  <2>9. Widened(w, a, b) = [w EXCEPT !.tail = (w.tail + a) - b]
    BY <2>2, <2>4, WidenedIs
  <2>8. Followed(w, more) = [w EXCEPT !.tail = w.tail + more]
    BY DEF Followed
  <2> QED
    BY <2>6, <2>7, <2>8, <2>9, Zenon
<1>16. s + 1 = layout.nb_streams => more = 0
  <2>1. SumTo(L, nb) \in Nat
    BY <1>13
  <2> QED
    BY <1>1, <1>8, <1>14, <2>1
<1>17. SumTo(PartLens, s + 1) = pos + WireLen(out[s + 1])
  BY <1>4, <1>5, <1>7, <1>8, <1>9
<1>18. Located(s, more)
  BY <1>8, <1>11, <1>15, <1>16, <1>17 DEF Located
<1> QED
  BY <1>18

(* The last part: its decoder plays the frames that were coded.            *)
LEMMA LastPlayed ==
  ASSUME NEW w, NEW fs, PartSo(w, fs, TRUE)
  PROVE  Play(w) = [ok |-> TRUE, frames |-> fs]
<1>1. PICK t \in 0 .. 255 : Selected(t, fs) /\ w = write_range(t, fs, NoPad, FALSE)
  BY DEF PartSo
<1>2. Asked(fs, NoPad)
  BY DEF Asked
<1>3. Written(w, fs, NoPad)
  BY <1>1, <1>2, WrittenIs
<1>4. WireOK(w) /\ WireLen(w) > 0 /\ WireLen(w) \in Nat
  BY PartIs
<1>5. PICK p : p = parse_frames(w, FALSE) /\ p.ok = TRUE /\ Contents(w, p) = fs
  BY <1>3, Zenon DEF Written, Yields
<1>6. PICK d : d = DecodeParse(w)
  OBVIOUS
<1>7. d.ok = TRUE /\ d.ranges = p.ranges
  BY <1>4, <1>5, <1>6, SameCuts DEF SameCut
<1>8. Contents(w, d) = fs
  BY <1>5, <1>7 DEF Contents
<1>9. WireLen(w) # 0
  BY <1>4
<1> QED
  BY <1>6, <1>7, <1>8, <1>9, Zenon DEF Play

(* The other parts: OpusMSDecoder::decode moves on to where they end.      *)
LEMMA OtherEnds ==
  ASSUME NEW w, NEW fs, PartSo(w, fs, FALSE), NEW more \in Nat
  PROVE  parse_frames(Followed(w, more), TRUE).end = WireLen(w)
<1>1. PICK t \in 0 .. 255 : Selected(t, fs) /\ w = write_range(t, fs, NoPad, TRUE)
  BY DEF PartSo, DelimitedSo
<1> QED
  BY <1>1, DelimitedFound

(* A stream decoded: it starts, and ends, where its part does.             *)
LEMMA StreamMoved ==
  ASSUME StreamsInv, DecodeStream, out # <<>>,
         NEW s \in Nat, s = Len(played), s < layout.nb_streams
  PROVE  \/ call' = "failed"
         \/ /\ call' = "decode"
            /\ pos' = SumTo(PartLens, s + 1)
            /\ \E f : /\ played' = Append(played, f)
                      /\ s + 1 = layout.nb_streams => f = coded[s + 1]
<1>1. call = "decode"
  BY DEF DecodeStream
<1>2. PICK more : Located(s, more)
  BY <1>1, DataLocated
<1>3. PICK w : w = out[s + 1]
  OBVIOUS
<1>4. /\ Data = Followed(w, more) /\ more \in Nat
      /\ s + 1 = layout.nb_streams => more = 0
      /\ SumTo(PartLens, s + 1) = pos + WireLen(w)
  BY <1>2, <1>3 DEF Located
<1>5. PICK nb \in Nat : nb = layout.nb_streams
  BY LayoutsAssumption DEF LayoutsAssumption, StreamsInv, MultistreamInv, WellFormed
<1>6. PartSo(w, coded[s + 1], s + 1 = nb)
  <2>1. Len(out) = nb
    BY <1>1, <1>5 DEF StreamsInv, MultistreamInv, PartsInv
  <2>2. s + 1 \in 1 .. Len(out)
    BY <1>5, <2>1
  <2> QED
    BY <1>3, <1>5, <2>2 DEF StreamsInv, PartsInv
<1>7. WireOK(w)
  BY <1>6, PartIs
<1>8. ASSUME NEW heard, NEW end, Accept(s, heard, end)
      PROVE  \/ call' = "failed"
             \/ call' = "decode" /\ pos' = end /\ played' = Append(played, heard.frames)
  BY <1>1, <1>8 DEF Accept
<1>9. CASE s + 1 = nb
  <2>1. Data = w
    BY <1>4, <1>5, <1>7, <1>9, FollowedByNone
  <2>2. PartSo(w, coded[s + 1], TRUE)
    BY <1>6, <1>9
  <2>3. PICK heard : heard = Play(w) /\ heard = [ok |-> TRUE, frames |-> coded[s + 1]]
    BY <2>2, LastPlayed
  <2>4. s = Last_s(layout)
    BY <1>5, <1>9 DEF Last_s
  <2>5. Accept(s, heard, pos + WireLen(w))
    BY <2>1, <2>3, <2>4 DEF DecodeStream
  <2>6. \/ call' = "failed"
        \/ call' = "decode" /\ pos' = pos + WireLen(w) /\ played' = Append(played, heard.frames)
    BY <1>8, <2>5
  <2>7. heard.frames = coded[s + 1]
    BY <2>3
  <2> QED
    BY <1>4, <2>6, <2>7
<1>10. CASE s + 1 # nb
  <2>1. PartSo(w, coded[s + 1], FALSE)
    BY <1>6, <1>10
  <2>2. PICK parsed : parsed = parse_frames(Data, TRUE) /\ parsed.end = WireLen(w)
    BY <1>4, <2>1, OtherEnds
  <2>3. s # Last_s(layout)
    BY <1>5, <1>10 DEF Last_s
  <2>4. \/ \E heard : Accept(s, heard, pos + parsed.end)
        \/ call' = "failed"
    BY <2>2, <2>3 DEF DecodeStream
  <2>5. \/ call' = "failed"
        \/ call' = "decode" /\ pos' = pos + WireLen(w) /\ \E f : played' = Append(played, f)
    BY <1>8, <2>2, <2>4
  <2> QED
    BY <1>4, <1>5, <1>10, <2>5
<1> QED
  BY <1>9, <1>10

(* A part is added.                                                        *)
LEMMA EncodeParts == ASSUME StreamsInv, EncodeStream PROVE PartsInv'
<1> DEFINE s == Len(coded)
<1>1. PICK lens \in Payloads :
        /\ coded' = Append(coded, FramesOf(s, lens))
        /\ out' = Append(out, Part(layout, s, write_range(Toc, FramesOf(s, lens), NoPad, FALSE)))
  BY DEF EncodeStream
<1>2. call = "encode" /\ call' = "encode" /\ UNCHANGED <<layout, pos, played>>
  BY DEF EncodeStream
<1>3. PICK part : part = Part(layout, s, write_range(Toc, FramesOf(s, lens), NoPad, FALSE))
  OBVIOUS
<1>4. PICK fs : fs = FramesOf(s, lens)
  OBVIOUS
<1>5. PICK n \in Nat : n = Len(coded) /\ n = Len(out) /\ Log(coded) /\ Log(out)
  <2>1. Log(coded) /\ Log(out) /\ Len(out) = Len(coded)
    BY <1>2 DEF StreamsInv, MultistreamInv, PartsInv
  <2>2. Len(out) \in Nat
    BY <2>1, AppendLog
  <2> QED
    BY <2>1, <2>2
<1>6. /\ Log(coded') /\ Len(coded') = n + 1 /\ coded'[n + 1] = fs
      /\ \A k \in 1 .. n : coded'[k] = coded[k]
  <2>1. coded' = Append(coded, fs)
    BY <1>1, <1>4
  <2>2. PICK x : x = Append(coded, fs)
    OBVIOUS
  <2>3. Log(coded)
    BY <1>5
  <2>4. Log(x) /\ Len(x) = Len(coded) + 1 /\ x[Len(coded) + 1] = fs
    BY <2>2, <2>3, AppendLog
  <2>5. \A k \in 1 .. Len(coded) : x[k] = coded[k]
    BY <2>2, <2>3, AppendLog
  <2> QED
    BY <1>5, <2>1, <2>2, <2>4, <2>5, Zenon
<1>7. /\ Log(out') /\ Len(out') = n + 1 /\ out'[n + 1] = part
      /\ \A k \in 1 .. n : out'[k] = out[k]
  <2>1. out' = Append(out, part)
    BY <1>1, <1>3
  <2> QED
    BY <1>5, <2>1, AppendLog
<1>8. PartSo(part, fs, n + 1 = layout.nb_streams)
  <2>1. layout.nb_streams \in Nat
    BY LayoutsAssumption DEF LayoutsAssumption, StreamsInv, MultistreamInv, WellFormed
  <2> QED
    BY <1>3, <1>4, <1>5, <2>1, PartMade
<1>9. ASSUME NEW k \in 1 .. n + 1 PROVE PartSo(out'[k], coded'[k], k = layout.nb_streams)
  <2>1. CASE k \in 1 .. n
    <3>1. PartSo(out[k], coded[k], k = layout.nb_streams)
      BY <1>5, <2>1 DEF StreamsInv, PartsInv
    <3> QED
      BY <1>6, <1>7, <2>1, <3>1
  <2>2. CASE k = n + 1
    BY <1>6, <1>7, <1>8, <2>2
  <2> QED
    BY <2>1, <2>2
<1>10. pos' = 0
  BY <1>2 DEF StreamsInv, PartsInv
<1>11. \A k \in 1 .. Len(out') : PartSo(out'[k], coded'[k], k = layout'.nb_streams)
  BY <1>2, <1>7, <1>9
<1>12. BoundariesFound'
  BY <1>2 DEF BoundariesFound
<1> QED
  BY <1>2, <1>6, <1>7, <1>10, <1>11, <1>12 DEF PartsInv

(* The packet arrives, or is lost.                                         *)
LEMMA DeliverParts == ASSUME StreamsInv, Deliver PROVE PartsInv'
<1>1. /\ call = "encode" /\ call' = "decode" /\ UNCHANGED <<layout, coded, pos, played>>
      /\ out' \in {out, <<>>} /\ pos = 0 /\ Len(played) = 0 /\ Len(out) = Len(coded)
  BY DEF Deliver, StreamsInv, MultistreamInv, PartsInv
<1>2. layout.nb_streams \in Nat /\ Len(coded) = layout.nb_streams
  BY LayoutsAssumption DEF LayoutsAssumption, StreamsInv, MultistreamInv, WellFormed, Deliver
<1>3. CASE out' = <<>>
  <2>1. Log(out') /\ Len(out') = 0
    BY <1>3, NoneLog
  <2>2. BoundariesFound'
    BY <1>3 DEF BoundariesFound
  <2> QED
    BY <1>1, <1>3, <2>1, <2>2 DEF PartsInv
<1>4. CASE out' = out /\ out # <<>>
  <2>1. Log(out) /\ \A k \in 1 .. Len(out) : PartSo(out[k], coded[k], k = layout.nb_streams)
    BY DEF StreamsInv, PartsInv
  <2>2. SumTo(PartLens', 0) = 0
    BY SumStep
  <2>3. BoundariesFound'
    BY <1>1, <2>2 DEF BoundariesFound
  <2>4. layout.nb_streams # 0
    <3>1. out \in Seq(Elements(out))
      BY <2>1 DEF Log
    <3>2. Len(out) # 0
      BY <1>4, <3>1
    <3> QED
      BY <1>1, <1>2, <3>2
  <2>5. Len(played') # layout'.nb_streams
    BY <1>1, <2>4
  <2> QED
    BY <1>1, <1>4, <2>1, <2>3, <2>5 DEF PartsInv
<1> QED
  BY <1>1, <1>3, <1>4

(* A stream is decoded.                                                    *)
LEMMA DecodeParts == ASSUME StreamsInv, DecodeStream PROVE PartsInv'
<1>1. call = "decode" /\ UNCHANGED <<layout, coded, out>> /\ Len(played) < layout.nb_streams
  BY DEF DecodeStream
<1>2. call' \in {"decode", "failed"}
  BY <1>1 DEF DecodeStream, Accept
<1>3. /\ Log(out')
      /\ out' # <<>> => Len(out') = Len(coded')
      /\ \A k \in 1 .. Len(out') : PartSo(out'[k], coded'[k], k = layout'.nb_streams)
  BY <1>1 DEF StreamsInv, PartsInv
<1>4. CASE out = <<>> \/ call' = "failed"
  <2>1. BoundariesFound'
    BY <1>1, <1>4 DEF BoundariesFound
  <2>2. ~(call' \in {"decode", "returned"} /\ out' # <<>>) /\ call' # "encode"
    BY <1>1, <1>2, <1>4
  <2> QED
    BY <1>3, <2>1, <2>2, Zenon DEF PartsInv
<1>5. CASE out # <<>> /\ call' # "failed"
  <2>1. Log(played)
    BY DEF StreamsInv, MultistreamInv
  <2>2. PICK s \in Nat : s = Len(played)
    BY <2>1, AppendLog
  <2>3. PICK f : /\ call' = "decode" /\ pos' = SumTo(PartLens, s + 1) /\ played' = Append(played, f)
                 /\ s + 1 = layout.nb_streams => f = coded[s + 1]
    BY <1>1, <1>5, <2>2, StreamMoved
  <2>4. Len(played') = s + 1 /\ played'[s + 1] = f
    BY <2>1, <2>2, <2>3, AppendLog
  <2>5. PartLens' = PartLens
    BY <1>1 DEF PartLens
  <2>6. BoundariesFound'
    BY <2>3, <2>4, <2>5 DEF BoundariesFound
  <2>7. Len(played') = layout'.nb_streams => played'[layout'.nb_streams] = coded'[layout'.nb_streams]
    BY <1>1, <2>3, <2>4
  <2>8. call' # "encode"
    BY <2>3
  <2> QED
    BY <1>3, <2>6, <2>7, <2>8, Zenon DEF PartsInv
<1> QED
  BY <1>4, <1>5

(* No step leaves the invariant.                                           *)
LEMMA StreamsStep == StreamsInv /\ [MSNext]_ms_vars => StreamsInv'
<1> SUFFICES ASSUME StreamsInv, [MSNext]_ms_vars PROVE PartsInv'
  BY MultistreamStep DEF StreamsInv
<1>1. CASE EncodeStream
  BY <1>1, EncodeParts
<1>2. CASE Deliver
  BY <1>2, DeliverParts
<1>3. CASE DecodeStream
  BY <1>3, DecodeParts
<1>4. CASE Finish
  <2>1. /\ call = "decode" /\ call' = "returned" /\ UNCHANGED <<layout, coded, out, played>>
    BY <1>4 DEF Finish
  <2>2. BoundariesFound'
    BY <2>1 DEF BoundariesFound
  <2> QED
    BY <2>1, <2>2 DEF StreamsInv, PartsInv
<1>5. CASE NextFrame
  <2>1. out' = <<>> /\ coded' = <<>> /\ pos' = 0 /\ call' = "encode"
    BY <1>5 DEF NextFrame
  <2>2. Log(out') /\ Len(out') = 0 /\ Len(coded') = 0
    BY <2>1, NoneLog
  <2>3. BoundariesFound'
    BY <2>1 DEF BoundariesFound
  <2> QED
    BY <2>1, <2>2, <2>3 DEF PartsInv
<1>6. CASE UNCHANGED ms_vars
  <2>1. PartLens' = PartLens
    BY <1>6 DEF ms_vars, PartLens
  <2> QED
    BY <1>6, <2>1 DEF ms_vars, StreamsInv, PartsInv, BoundariesFound
<1> QED
  BY <1>1, <1>2, <1>3, <1>4, <1>5, <1>6 DEF MSNext

(* The decoder starts every stream of a packet where the encoder did, and  *)
(* the last stream's decoder plays the frames that were coded, for every   *)
(* layout and all frames (OpusMSDecoder::decode against                    *)
(* OpusMSEncoder::encode).                                                 *)
THEOREM StreamsCutApart == MSSpec => []StreamsFound
<1>1. MSInit => StreamsInv
  <2> SUFFICES ASSUME MSInit PROVE PartsInv
    BY InitMultistream DEF StreamsInv
  <2>1. out = <<>> /\ coded = <<>> /\ pos = 0 /\ call = "encode"
    BY DEF MSInit
  <2>2. Log(out) /\ Len(out) = 0 /\ Len(coded) = 0
    BY <2>1, NoneLog
  <2> QED
    BY <2>1, <2>2 DEF PartsInv, BoundariesFound
<1>2. StreamsInv => StreamsFound
  <2>1. StreamsInv => BoundariesFound
    BY DEF StreamsInv, PartsInv
  <2>2. StreamsInv => LastStreamPlayed
    BY DEF StreamsInv, MultistreamInv, PartsInv, LastStreamPlayed
  <2> QED
    BY <2>1, <2>2 DEF StreamsFound
<1> QED
  BY <1>1, <1>2, StreamsStep, PTL DEF MSSpec
================================================================================

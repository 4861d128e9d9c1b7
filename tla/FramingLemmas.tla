---------------------------- MODULE FramingLemmas ----------------------------
(***************************************************************************)
(* Lemmas about packet framing, for packets of any bytes and any frames:   *)
(* the two parsers cut every packet alike (SameCuts), what write_range     *)
(* makes is read back as the frames that went in (WrittenIs, DelimitedIs,  *)
(* DelimitedFound), and no packet that parses is shorter than what its own *)
(* frames are written in (KeptIs).  The loops over frames and size fields  *)
(* are unfolded by the induction of DataInduction.                         *)
(***************************************************************************)
EXTENDS PacketFraming, DataInduction

(***************************************************************************)
(* Sums.                                                                   *)
(***************************************************************************)
(* f adds up the first numbers of a sequence, one at a time.               *)
Sums(f, seq, n) == f[0] = 0 /\ \A i \in 1 .. n : f[i] = f[i - 1] + seq[i]

(* There are such sums of every length: SumTo is what it says.             *)
LEMMA SumsExist ==
  ASSUME NEW seq
  PROVE  \A n \in Nat : \E f : f = [i \in 0 .. n |-> IF i = 0 THEN 0 ELSE f[i - 1] + seq[i]]
<1> DEFINE U(f, n) == f = [i \in 0 .. n |-> IF i = 0 THEN 0 ELSE f[i - 1] + seq[i]]
           T == {n \in Nat : \E f : U(f, n)}
<1>1. 0 \in T
  <2> DEFINE g == [i \in 0 .. 0 |-> 0]
  <2>1. U(g, 0)
    OBVIOUS
  <2> QED
    BY <2>1
<1>2. ASSUME NEW n \in Nat, n \in T
      PROVE  n + 1 \in T
  <2>1. PICK f : U(f, n)
    BY <1>2
  <2> DEFINE g == [i \in 0 .. n + 1 |-> IF i = n + 1 THEN f[n] + seq[n + 1] ELSE f[i]]
  <2>2. ASSUME NEW i \in 0 .. n + 1
        PROVE  g[i] = IF i = 0 THEN 0 ELSE g[i - 1] + seq[i]
    <3>1. CASE i = n + 1
      BY <3>1
    <3>2. CASE i = 0
      BY <3>2, <2>1
    <3>3. CASE i \in 1 .. n
      <4>1. i - 1 \in 0 .. n + 1 /\ g[i - 1] = f[i - 1] /\ g[i] = f[i]
        BY <3>3
      <4>2. f[i] = f[i - 1] + seq[i]
        BY <3>3, <2>1
      <4> QED
        BY <4>1, <4>2, <3>3
    <3> QED
      BY <3>1, <3>2, <3>3
  <2>3. U(g, n + 1)
    BY <2>2
  <2> HIDE DEF g
  <2> QED
    BY <2>3
<1> HIDE DEF T
<1>3. T = Nat
  <2>1. T \in SUBSET Nat
    BY DEF T
  <2> QED
    BY <1>1, <1>2, <2>1, NatSetInduction
<1> QED
  BY <1>3 DEF T

(* Any such f tells the sum.                                               *)
LEMMA SumIs ==
  ASSUME NEW seq, NEW n \in Nat, NEW f, Sums(f, seq, n)
  PROVE  SumTo(seq, n) = f[n]
<1> DEFINE U(s) == s = [i \in 0 .. n |-> IF i = 0 THEN 0 ELSE s[i - 1] + seq[i]]
           s == CHOOSE s : U(s)
           T == {i \in Nat : i <= n => s[i] = f[i]}
<1>1. U(s)
  BY SumsExist
<1>2. SumTo(seq, n) = s[n]
  BY DEF SumTo
<1> HIDE DEF s
<1>3. 0 \in T
  BY <1>1 DEF Sums
<1>4. ASSUME NEW i \in Nat, i \in T
      PROVE  i + 1 \in T
  <2> SUFFICES ASSUME i + 1 <= n PROVE s[i + 1] = f[i + 1]
    OBVIOUS
  <2>1. s[i] = f[i]
    BY <1>4
  <2>2. i + 1 \in 1 .. n /\ (i + 1) - 1 = i
    OBVIOUS
  <2>3. s[i + 1] = s[i] + seq[i + 1]
    BY <1>1, <2>2
  <2>4. f[i + 1] = f[i] + seq[i + 1]
    BY <2>2 DEF Sums
  <2> QED
    BY <2>1, <2>3, <2>4
<1>5. T = Nat
  <2>1. T \in SUBSET Nat
    OBVIOUS
  <2> HIDE DEF T
  <2> QED
    BY <1>3, <1>4, <2>1, NatSetInduction
<1> QED
  BY <1>2, <1>5

(* A sum is the sum of all but the last, and the last.                     *)
LEMMA SumStep ==
  ASSUME NEW seq
  PROVE  /\ SumTo(seq, 0) = 0
         /\ \A n \in Nat : SumTo(seq, n + 1) = SumTo(seq, n) + seq[n + 1]
<1>1. ASSUME NEW n \in Nat
      PROVE  SumTo(seq, 0) = 0 /\ SumTo(seq, n + 1) = SumTo(seq, n) + seq[n + 1]
  <2>0. n + 1 \in Nat
    OBVIOUS
  <2>1. PICK f : f = [i \in 0 .. n + 1 |-> IF i = 0 THEN 0 ELSE f[i - 1] + seq[i]]
    BY <2>0, SumsExist
  <2>2. Sums(f, seq, n + 1)
    BY <2>1 DEF Sums
  <2>3. Sums(f, seq, n) /\ Sums(f, seq, 0)
    BY <2>2 DEF Sums
  <2>4. n + 1 \in Nat /\ n + 1 \in 1 .. n + 1 /\ (n + 1) - 1 = n
    OBVIOUS
  <2>5. f[n + 1] = f[n] + seq[n + 1] /\ f[0] = 0
    BY <2>2, <2>4 DEF Sums
  <2> HIDE DEF Sums
  <2>6. SumTo(seq, n + 1) = f[n + 1]
    BY <2>2, <2>4, SumIs
  <2>7. SumTo(seq, n) = f[n] /\ SumTo(seq, 0) = f[0]
    BY <2>3, SumIs
  <2> QED
    BY <2>5, <2>6, <2>7
<1> QED
  BY <1>1

(* Sums of natural numbers are natural numbers and grow.                   *)
LEMMA SumGrows ==
  ASSUME NEW seq, NEW n \in Nat, \A i \in 1 .. n : seq[i] \in Nat
  PROVE  /\ SumTo(seq, n) \in Nat
         /\ \A i \in 0 .. n : SumTo(seq, i) \in Nat /\ SumTo(seq, i) <= SumTo(seq, n)
         /\ \A i \in 1 .. n : SumTo(seq, i - 1) + seq[i] <= SumTo(seq, n)
<1> DEFINE s(i) == SumTo(seq, i)
           T == {i \in Nat : i <= n => s(i) \in Nat /\ \A j \in 0 .. i : s(j) \in Nat /\ s(j) <= s(i)}
<1>1. s(0) = 0 /\ \A i \in Nat : s(i + 1) = s(i) + seq[i + 1]
  BY SumStep
<1> HIDE DEF s
<1>2. 0 \in T
  BY <1>1
<1>3. ASSUME NEW i \in Nat, i \in T
      PROVE  i + 1 \in T
  <2> SUFFICES ASSUME i + 1 <= n
               PROVE  s(i + 1) \in Nat /\ \A j \in 0 .. i + 1 : s(j) \in Nat /\ s(j) <= s(i + 1)
    OBVIOUS
  <2>1. s(i) \in Nat /\ \A j \in 0 .. i : s(j) \in Nat /\ s(j) <= s(i)
    BY <1>3
  <2>2. s(i + 1) = s(i) + seq[i + 1] /\ seq[i + 1] \in Nat
    BY <1>1
  <2> QED
    BY <2>1, <2>2
<1>4. T = Nat
  <2>1. T \in SUBSET Nat
    OBVIOUS
  <2> HIDE DEF T
  <2> QED
    BY <1>2, <1>3, <2>1, NatSetInduction
<1>5. s(n) \in Nat /\ \A i \in 0 .. n : s(i) \in Nat /\ s(i) <= s(n)
  BY <1>4
<1>6. ASSUME NEW i \in 1 .. n
      PROVE  s(i - 1) + seq[i] <= s(n)
  <2>1. i - 1 \in Nat /\ (i - 1) + 1 = i
    OBVIOUS
  <2>2. s((i - 1) + 1) = s(i - 1) + seq[(i - 1) + 1]
    BY <1>1, <2>1
  <2> QED
    BY <1>5, <2>1, <2>2
<1> QED
  BY <1>5, <1>6 DEF s

(* Only the numbers that are added matter.                                 *)
LEMMA SumSame ==
  ASSUME NEW a, NEW b, NEW n \in Nat, \A i \in 1 .. n : a[i] = b[i]
  PROVE  \A m \in 0 .. n : SumTo(a, m) = SumTo(b, m)
<1> DEFINE T == {i \in Nat : i <= n => SumTo(a, i) = SumTo(b, i)}
<1>1. 0 \in T
  BY SumStep
<1>2. ASSUME NEW i \in Nat, i \in T
      PROVE  i + 1 \in T
  <2> SUFFICES ASSUME i + 1 <= n PROVE SumTo(a, i + 1) = SumTo(b, i + 1)
    OBVIOUS
  <2>1. SumTo(a, i) = SumTo(b, i) /\ a[i + 1] = b[i + 1]
    BY <1>2
  <2> QED
    BY <2>1, SumStep
<1>3. T = Nat
  <2>1. T \in SUBSET Nat
    OBVIOUS
  <2> HIDE DEF T
  <2> QED
    BY <1>1, <1>2, <2>1, NatSetInduction
<1> QED
  BY <1>3

(* A sum of n equal numbers.                                               *)
LEMMA SumEqual ==
  ASSUME NEW a, NEW n \in Nat, NEW size \in Nat, \A i \in 1 .. n : a[i] = size
  PROVE  \A m \in 0 .. n : SumTo(a, m) = m * size
<1> DEFINE T == {i \in Nat : i <= n => SumTo(a, i) = i * size}
<1>1. 0 \in T
  BY SumStep
<1>2. ASSUME NEW i \in Nat, i \in T
      PROVE  i + 1 \in T
  <2> SUFFICES ASSUME i + 1 <= n PROVE SumTo(a, i + 1) = (i + 1) * size
    OBVIOUS
  <2>1. SumTo(a, i) = i * size /\ a[i + 1] = size
    BY <1>2
  <2>2. SumTo(a, i + 1) = i * size + size
    BY <2>1, SumStep
  <2>3. (i + 1) * size = i * size + size
    OBVIOUS
  <2> QED
    BY <2>2, <2>3
<1>3. T = Nat
  <2>1. T \in SUBSET Nat
    OBVIOUS
  <2> HIDE DEF T
  <2> QED
    BY <1>1, <1>2, <2>1, NatSetInduction
<1> QED
  BY <1>3

(* One number more.                                                        *)
LEMMA SumAppend ==
  ASSUME NEW S, NEW a \in Seq(S), NEW x \in S
  PROVE  SumTo(Append(a, x), Len(a) + 1) = SumTo(a, Len(a)) + x
<1> DEFINE b == Append(a, x)
           n == Len(a)
<1>1. n \in Nat /\ \A i \in 1 .. n : a[i] = b[i]
  OBVIOUS
<1>2. b[n + 1] = x
  OBVIOUS
<1> HIDE DEF b, n
<1>3. SumTo(a, n) = SumTo(b, n)
  <2>1. n \in 0 .. n
    BY <1>1
  <2> QED
    BY <1>1, <2>1, SumSame
<1>4. SumTo(b, n + 1) = SumTo(b, n) + b[n + 1]
  BY <1>1, SumStep
<1>5. SumTo(b, n + 1) = SumTo(a, n) + x
  BY <1>2, <1>3, <1>4
<1> QED
  BY <1>5 DEF b, n

(* A quotient and what is left.                                            *)
LEMMA Quotient ==
  ASSUME NEW a \in Nat, NEW n \in Nat \ {0}
  PROVE  /\ a \div n \in Nat /\ (a % n) \in 0 .. (n - 1)
         /\ a = n * (a \div n) + (a % n)
  BY SMT

(***************************************************************************)
(* Packets and their bytes.                                                *)
(***************************************************************************)
(* Frames are a log.                                                       *)
LEMMA FramesLog ==
  ASSUME NEW fs
  PROVE  FramesOK(fs) <=> Log(fs) /\ \A i \in 1 .. Len(fs) : FrameOK(fs[i])
<1>1. Range(fs) = Elements(fs)
  BY DEF Range, Elements
<1> QED
  BY <1>1 DEF FramesOK, Log, Range, Elements

(* The lengths of frames are natural numbers, and so are their sums.       *)
LEMMA LensAre ==
  ASSUME NEW fs, FramesOK(fs)
  PROVE  /\ Len(fs) \in Nat /\ \A i \in 1 .. Len(fs) : Lens(fs)[i] = fs[i].len /\ fs[i].len \in Nat
         /\ SumLens(fs) \in Nat
         /\ \A i \in 0 .. Len(fs) : SumTo(Lens(fs), i) \in Nat /\ SumTo(Lens(fs), i) <= SumLens(fs)
<1>1. DOMAIN fs = 1 .. Len(fs) /\ Len(fs) \in Nat
  BY FramesLog DEF Log
<1>2. \A i \in 1 .. Len(fs) : Lens(fs)[i] = fs[i].len /\ fs[i].len \in Nat
  BY <1>1 DEF Lens, FramesOK, FrameOK
<1> QED
  BY <1>1, <1>2, SumGrows DEF SumLens

(* An element of a sequence.                                               *)
LEMMA ElementIs ==
  ASSUME NEW S, NEW h \in Seq(S), NEW k \in 1 .. Len(h)
  PROVE  h[k] \in S
  OBVIOUS

(* A packet has a length, its parts no more than that, and bytes.          *)
LEMMA BytesAre ==
  ASSUME NEW w, WireOK(w)
  PROVE  /\ WireLen(w) \in Nat /\ WireLen(w) >= Len(w.head) + SumLens(w.body)
         /\ Len(w.head) \in Nat /\ SumLens(w.body) \in Nat
         /\ \A i \in Nat : ByteAt(w, i) \in 0 .. 255
<1>1. Len(w.head) \in Nat /\ w.tail \in Nat /\ SumLens(w.body) \in Nat
  BY LensAre DEF WireOK
<1>2. ASSUME NEW i \in Nat
      PROVE  ByteAt(w, i) \in 0 .. 255
  <2> DEFINE h == w.head
  <2>1. h \in Seq(0 .. 255)
    BY DEF WireOK
  <2>2. ByteAt(w, i) = IF i < Len(h) THEN h[i + 1] ELSE 0
    BY DEF ByteAt
  <2> HIDE DEF h
  <2>3. CASE i < Len(h)
    <3>1. i + 1 \in 1 .. Len(h)
      BY <2>1, <2>3
    <3>2. h[i + 1] \in 0 .. 255
      BY <2>1, <3>1, ElementIs
    <3>3. ByteAt(w, i) = h[i + 1]
      BY <2>2, <2>3
    <3> QED
      BY <3>2, <3>3
  <2>4. CASE ~(i < Len(h))
    BY <2>2, <2>4
  <2> QED
    BY <2>3, <2>4
<1> QED
  BY <1>1, <1>2 DEF WireLen

(* A size field, read: at most two bytes, at most 1275.                    *)
LEMMA SizeIs ==
  ASSUME NEW w, WireOK(w), NEW pos \in Nat, NEW avail \in Int
  PROVE  LET s == parse_size(w, pos, avail)
             size == SizeOf(ByteAt(w, pos), ByteAt(w, pos + 1)) IN
         /\ size \in 0 .. MaxFrameBytes
         /\ ByteAt(w, pos) < 252 => size < 252
         /\ ByteAt(w, pos) >= 252 => size >= 252
         /\ s.bytes \in {-1, 1, 2}
         /\ s.bytes = -1 <=> avail <= 0 \/ (ByteAt(w, pos) >= 252 /\ avail < 2)
         /\ s.bytes = 1 <=> avail > 0 /\ ByteAt(w, pos) < 252
         /\ s.bytes = 2 <=> avail >= 2 /\ ByteAt(w, pos) >= 252
         /\ s.bytes # -1 => s.size = size
<1> DEFINE b0 == ByteAt(w, pos)
           b1 == ByteAt(w, pos + 1)
<1>1. b0 \in 0 .. 255 /\ b1 \in 0 .. 255
  BY BytesAre
<1>2. parse_size(w, pos, avail) =
        CASE avail <= 0 -> [bytes |-> -1, size |-> -1]
          [] avail > 0 /\ b0 < 252 -> [bytes |-> 1, size |-> SizeOf(b0, b1)]
          [] avail > 0 /\ b0 >= 252 /\ avail < 2 -> [bytes |-> -1, size |-> -1]
          [] avail >= 2 /\ b0 >= 252 -> [bytes |-> 2, size |-> SizeOf(b0, b1)]
  BY DEF parse_size
<1> HIDE DEF b0, b1
<1>3. /\ SizeOf(b0, b1) \in 0 .. MaxFrameBytes
      /\ b0 < 252 => SizeOf(b0, b1) < 252
      /\ b0 >= 252 => SizeOf(b0, b1) >= 252
  BY <1>1 DEF SizeOf, MaxFrameBytes
<1> DEFINE s == parse_size(w, pos, avail)
<1>4. /\ avail <= 0 => s.bytes = -1
      /\ avail > 0 /\ b0 < 252 => s.bytes = 1 /\ s.size = SizeOf(b0, b1)
      /\ avail > 0 /\ b0 >= 252 /\ avail < 2 => s.bytes = -1
      /\ avail >= 2 /\ b0 >= 252 => s.bytes = 2 /\ s.size = SizeOf(b0, b1)
  BY <1>1, <1>2
<1> HIDE DEF s
<1>5. /\ s.bytes \in {-1, 1, 2}
      /\ s.bytes = -1 <=> avail <= 0 \/ (b0 >= 252 /\ avail < 2)
      /\ s.bytes = 1 <=> avail > 0 /\ b0 < 252
      /\ s.bytes = 2 <=> avail >= 2 /\ b0 >= 252
      /\ s.bytes # -1 => s.size = SizeOf(b0, b1)
  BY <1>1, <1>4
<1> QED
  BY <1>3, <1>5 DEF s, b0, b1

(* The size field at a place.                                              *)
LEMMA SizeAtIs ==
  ASSUME NEW w, WireOK(w), NEW pos \in Nat
  PROVE  /\ SizeAt(w, pos).bytes \in {-1, 1, 2}
         /\ SizeAt(w, pos).bytes # -1 => SizeAt(w, pos).size \in Nat
<1> DEFINE avail == WireLen(w) - pos
           size == SizeOf(ByteAt(w, pos), ByteAt(w, pos + 1))
<1>1. avail \in Int
  BY BytesAre
<1>2. SizeAt(w, pos) = parse_size(w, pos, avail)
  BY DEF SizeAt
<1> HIDE DEF avail
<1>3. /\ size \in 0 .. MaxFrameBytes
      /\ parse_size(w, pos, avail).bytes \in {-1, 1, 2}
      /\ parse_size(w, pos, avail).bytes # -1 => parse_size(w, pos, avail).size = size
  BY <1>1, SizeIs
<1>4. size \in Nat
  BY <1>3 DEF MaxFrameBytes
<1> HIDE DEF size
<1> QED
  BY <1>2, <1>3, <1>4

(* The decoder's reader reads the same field, up to its own end.           *)
LEMMA FrameLenIs ==
  ASSUME NEW w, WireOK(w), NEW pos \in Nat, NEW end \in Int
  PROVE  LET l == read_opus_frame_len(w, pos, end)
             size == SizeOf(ByteAt(w, pos), ByteAt(w, pos + 1)) IN
         /\ l.ok <=> pos < end /\ (ByteAt(w, pos) >= 252 => pos + 1 < end)
         /\ l.ok => l.size = size /\ l.bytes = IF ByteAt(w, pos) < 252 THEN 1 ELSE 2
<1> DEFINE b0 == ByteAt(w, pos)
           b1 == ByteAt(w, pos + 1)
           l == read_opus_frame_len(w, pos, end)
<1>1. b0 \in 0 .. 255 /\ b1 \in 0 .. 255
  BY BytesAre
<1>2. l = CASE pos >= end -> [ok |-> FALSE, size |-> 0, bytes |-> 0]
            [] pos < end /\ b0 < 252 -> [ok |-> TRUE, size |-> SizeOf(b0, b1), bytes |-> 1]
            [] pos < end /\ b0 >= 252 ->
                 [ok |-> pos + 1 < end, size |-> SizeOf(b0, b1), bytes |-> 2]
  BY DEF read_opus_frame_len
<1> HIDE DEF b0, b1, l
<1>3. CASE pos >= end
  <2>1. l.ok = FALSE
    BY <1>1, <1>2, <1>3
  <2> QED
    BY <2>1, <1>3 DEF l, b0, b1
<1>4. CASE pos < end /\ b0 < 252
  <2>1. l.ok = TRUE /\ l.size = SizeOf(b0, b1) /\ l.bytes = 1
    BY <1>1, <1>2, <1>4
  <2> QED
    BY <2>1, <1>1, <1>4 DEF l, b0, b1
<1>5. CASE pos < end /\ b0 >= 252
  <2>1. l = [ok |-> pos + 1 < end, size |-> SizeOf(b0, b1), bytes |-> 2]
    BY <1>1, <1>2, <1>5
  <2>2. l.ok = (pos + 1 < end)
    BY <2>1
  <2>3. l.ok <=> pos + 1 < end
    BY <2>2
  <2>4. l.size = SizeOf(b0, b1) /\ l.bytes = 2
    BY <2>1
  <2>5. ~(b0 < 252)
    BY <1>1, <1>5
  <2>6. /\ l.ok <=> pos < end /\ (b0 >= 252 => pos + 1 < end)
        /\ l.ok => l.size = SizeOf(b0, b1) /\ l.bytes = IF b0 < 252 THEN 1 ELSE 2
    BY <2>3, <2>4, <2>5, <1>5
  <2> QED
    BY <2>6 DEF l, b0, b1
<1> QED
  BY <1>1, <1>3, <1>4, <1>5

(***************************************************************************)
(* Explicit sizes: the two loops over them.                                *)
(***************************************************************************)
CursorFields == {"ok", "pos", "len", "last", "sizes", "count", "cbr"}
IsCursor(c) == c = [x \in CursorFields |-> c[x]]

(* Fail clears ok and leaves a cursor.                                     *)
LEMMA FailIs ==
  ASSUME NEW c, IsCursor(c)
  PROVE  IsCursor(Fail(c)) /\ Fail(c).ok = FALSE
  BY DEF IsCursor, Fail, CursorFields

(* A size is taken, or the packet refused.                                 *)
LEMMA TakeSizeIs ==
  ASSUME NEW c, IsCursor(c), NEW s, s.bytes \in Int, s.size \in Int, c.len \in Int
  PROVE  LET t == TakeSizeAs(c, s)
             refused == s.bytes < 0 \/ s.size > c.len - s.bytes IN
         /\ IsCursor(t)
         /\ refused => t.ok = FALSE
         /\ ~refused => /\ t.ok = c.ok /\ t.pos = c.pos + s.bytes /\ t.len = c.len - s.bytes
                        /\ t.last = c.last - s.bytes - s.size /\ t.sizes = Append(c.sizes, s.size)
                        /\ t.count = c.count /\ t.cbr = c.cbr
<1>1. CASE s.bytes < 0 \/ s.size > c.len - s.bytes
  BY <1>1, FailIs DEF TakeSizeAs
<1>2. CASE ~(s.bytes < 0 \/ s.size > c.len - s.bytes)
  BY <1>2 DEF TakeSizeAs, IsCursor, CursorFields
<1> QED
  BY <1>1, <1>2

(* The decoder's header after one more size.                               *)
LEMMA ReadLenIs ==
  ASSUME NEW h, h = [ok |-> h.ok, pos |-> h.pos, sizes |-> h.sizes], NEW l
  PROVE  LET r == ReadLen(h, l) IN
         /\ r = [ok |-> r.ok, pos |-> r.pos, sizes |-> r.sizes]
         /\ ~(h.ok /\ l.ok) => r.ok = FALSE
         /\ h.ok /\ l.ok => r.ok = h.ok /\ r.pos = h.pos + l.bytes /\ r.sizes = Append(h.sizes, l.size)
  BY DEF ReadLen, Reject

(* Where the loops stand, end the end of the frames in the decoder: both   *)
(* have read the same sizes, or the parser has refused the packet and the  *)
(* decoder has too, or will, since the sizes leave no room.                *)
SizesRead(h, n) == h.pos \in Nat /\ h.sizes \in Seq(0 .. MaxFrameBytes) /\ Len(h.sizes) = n
Room(h, end) == end - h.pos - SumTo(h.sizes, Len(h.sizes))
InStep(c, h, end, n) ==
  /\ IsCursor(c) /\ h = [ok |-> h.ok, pos |-> h.pos, sizes |-> h.sizes]
  /\ c.ok \in BOOLEAN /\ h.ok \in BOOLEAN
  /\ h.ok => SizesRead(h, n)
  /\ c.ok => /\ h.ok /\ c.pos = h.pos /\ c.sizes = h.sizes
             /\ c.len = end - h.pos /\ c.len >= 0 /\ c.last = Room(h, end)
  /\ ~c.ok /\ h.ok => Room(h, end) < 0

(* A sequence of sizes has a sum.                                          *)
LEMMA RoomIs ==
  ASSUME NEW h, NEW n \in Nat, SizesRead(h, n), NEW end \in Int
  PROVE  SumTo(h.sizes, Len(h.sizes)) \in Nat /\ Room(h, end) \in Int
<1>1. \A i \in 1 .. Len(h.sizes) : h.sizes[i] \in Nat
  <2>1. TAKE i \in 1 .. Len(h.sizes)
  <2>2. h.sizes[i] \in 0 .. MaxFrameBytes
    BY ElementIs DEF SizesRead
  <2>3. 0 .. MaxFrameBytes \subseteq Nat
    BY DEF MaxFrameBytes
  <2> HIDE DEF MaxFrameBytes
  <2> QED
    BY <2>2, <2>3
<1>2. SumTo(h.sizes, Len(h.sizes)) \in Nat
  BY <1>1, SumGrows DEF SizesRead
<1> QED
  BY <1>2 DEF Room, SizesRead

(* What a size field gives when avail bytes are left.                      *)
Given(s, b0, avail, size) ==
  /\ s.bytes \in {-1, 1, 2}
  /\ s.bytes = -1 <=> avail <= 0 \/ (b0 >= 252 /\ avail < 2)
  /\ s.bytes = 1 <=> avail > 0 /\ b0 < 252
  /\ s.bytes # -1 => s.size = size

(* parse_size gives the size its bytes stand for, or runs out.             *)
LEMMA GivenIs ==
  ASSUME NEW w, WireOK(w), NEW pos \in Nat, NEW avail \in Int
  PROVE  Given(parse_size(w, pos, avail), ByteAt(w, pos), avail,
               SizeOf(ByteAt(w, pos), ByteAt(w, pos + 1)))
  BY SizeIs DEF Given

(* One more size keeps the two loops in step.                              *)
LEMMA StepInStep ==
  ASSUME NEW w, WireOK(w), NEW end \in Int, end <= WireLen(w), NEW n \in Nat,
         NEW c, NEW h, InStep(c, h, end, n)
  PROVE  InStep(TakeNext(w, c), ReadNext(w, h, end), end, n + 1)
<1> DEFINE l == read_opus_frame_len(w, h.pos, end)
           s == SizeAt(w, c.pos)
           size == SizeOf(ByteAt(w, h.pos), ByteAt(w, h.pos + 1))
           b0 == ByteAt(w, h.pos)
           d == TakeNext(w, c)
           g == ReadNext(w, h, end)
<1>1. /\ IsCursor(c) /\ h = [ok |-> h.ok, pos |-> h.pos, sizes |-> h.sizes]
      /\ c.ok \in BOOLEAN /\ h.ok \in BOOLEAN
  BY DEF InStep
<1>2. /\ g = [ok |-> g.ok, pos |-> g.pos, sizes |-> g.sizes]
      /\ ~(h.ok /\ l.ok) => g.ok = FALSE
      /\ h.ok /\ l.ok => g.ok = h.ok /\ g.pos = h.pos + l.bytes /\ g.sizes = Append(h.sizes, l.size)
  BY <1>1, ReadLenIs DEF ReadNext
<1>3. CASE ~h.ok
  <2>1. ~c.ok /\ d = c
    BY <1>1, <1>3 DEF InStep, TakeNext
  <2>2. g.ok = FALSE
    BY <1>2, <1>3
  <2> HIDE DEF d, g
  <2>3. InStep(d, g, end, n + 1)
    BY <1>1, <1>2, <2>1, <2>2 DEF InStep
  <2> QED
    BY <2>3 DEF d, g
<1>4. CASE h.ok
  <2>1. SizesRead(h, n)
    BY <1>4 DEF InStep
  <2>2. h.pos \in Nat /\ WireLen(w) \in Nat /\ b0 \in 0 .. 255
    BY <2>1, BytesAre DEF SizesRead
  <2>3. /\ l.ok <=> h.pos < end /\ (b0 >= 252 => h.pos + 1 < end)
        /\ l.ok => l.size = size /\ l.bytes = IF b0 < 252 THEN 1 ELSE 2
    BY <2>2, FrameLenIs
  <2>4. size \in 0 .. MaxFrameBytes
    BY <2>2, SizeIs
  <2>5. SumTo(h.sizes, Len(h.sizes)) \in Nat /\ Room(h, end) \in Int
    BY <2>1, RoomIs
  <2>6. ASSUME l.ok
        PROVE  /\ SizesRead(g, n + 1) /\ g.ok
               /\ Room(g, end) = Room(h, end) - l.bytes - size
    <3>1. g.ok /\ g.pos = h.pos + l.bytes /\ g.sizes = Append(h.sizes, size) /\ l.bytes \in {1, 2}
      BY <1>2, <1>4, <2>3, <2>6
    <3> HIDE DEF g, l, size
    <3>2. g.pos \in Nat /\ g.sizes \in Seq(0 .. MaxFrameBytes) /\ Len(g.sizes) = n + 1
      BY <2>1, <2>4, <3>1 DEF SizesRead
    <3>3. SumTo(g.sizes, Len(g.sizes)) = SumTo(h.sizes, Len(h.sizes)) + size
      <4>1. h.sizes \in Seq(0 .. MaxFrameBytes) /\ Len(h.sizes) = n
        BY <2>1 DEF SizesRead
      <4> QED
        BY <2>4, <3>1, <3>2, <4>1, SumAppend
    <3>4. size \in Int
      BY <2>4 DEF MaxFrameBytes
    <3>5. Room(g, end) = Room(h, end) - l.bytes - size
      <4> DEFINE before == SumTo(h.sizes, Len(h.sizes))
                 after == SumTo(g.sizes, Len(g.sizes))
      <4>1. before \in Nat /\ after = before + size
        BY <2>5, <3>3
      <4>2. Room(g, end) = end - g.pos - after /\ Room(h, end) = end - h.pos - before
        BY DEF Room
      <4> HIDE DEF before, after
      <4>3. h.pos \in Int /\ l.bytes \in Int /\ g.pos = h.pos + l.bytes
        BY <2>2, <3>1
      <4> QED
        BY <3>4, <4>1, <4>2, <4>3
    <3> QED
      BY <3>1, <3>2, <3>5 DEF SizesRead
  <2>7. CASE ~c.ok
    <3>1. d = c /\ Room(h, end) < 0
      BY <1>1, <1>4, <2>7 DEF InStep, TakeNext
    <3> HIDE DEF d, g, l, size
    <3>2. l.ok => SizesRead(g, n + 1) /\ g.ok /\ Room(g, end) < 0
      <4> SUFFICES ASSUME l.ok PROVE SizesRead(g, n + 1) /\ g.ok /\ Room(g, end) < 0
        OBVIOUS
      <4>1. size \in Nat /\ l.bytes \in {1, 2}
        BY <2>3, <2>4 DEF MaxFrameBytes
      <4> QED
        BY <2>5, <2>6, <3>1, <4>1
    <3>3. ~l.ok => g.ok = FALSE
      BY <1>2
    <3>4. g.ok \in BOOLEAN
      BY <1>1, <1>2
    <3>5. InStep(d, g, end, n + 1)
      BY <1>1, <1>2, <2>7, <3>1, <3>2, <3>3, <3>4 DEF InStep
    <3> QED
      BY <3>5 DEF d, g
  <2>8. CASE c.ok
    <3>1. /\ c.pos = h.pos /\ c.sizes = h.sizes
          /\ c.len = end - h.pos /\ c.len >= 0 /\ c.last = Room(h, end)
      BY <2>8 DEF InStep
    <3>2. d = TakeSizeAs(c, s)
      BY <2>8 DEF TakeNext, TakeSize
    <3>3. /\ s.bytes \in {-1, 1, 2}
          /\ s.bytes = -1 <=> WireLen(w) - h.pos <= 0 \/ (b0 >= 252 /\ WireLen(w) - h.pos < 2)
          /\ s.bytes = 1 <=> WireLen(w) - h.pos > 0 /\ b0 < 252
          /\ s.bytes # -1 => s.size = size
      <4>1. PICK avail \in Int : avail = WireLen(w) - h.pos
        BY <2>2
      <4>2. s = parse_size(w, h.pos, avail)
        BY <3>1, <4>1 DEF SizeAt
      <4> HIDE DEF s, size, b0
      <4>3. /\ s.bytes \in {-1, 1, 2}
            /\ s.bytes = -1 <=> avail <= 0 \/ (b0 >= 252 /\ avail < 2)
            /\ s.bytes = 1 <=> avail > 0 /\ b0 < 252
            /\ s.bytes # -1 => s.size = size
        <5>1. Given(parse_size(w, h.pos, avail), ByteAt(w, h.pos), avail,
                    SizeOf(ByteAt(w, h.pos), ByteAt(w, h.pos + 1)))
          BY <2>2, GivenIs, Zenon
        <5>2. Given(s, b0, avail, size)
          BY <4>2, <5>1, Zenon DEF size, b0
        <5> QED
          BY <5>2, Zenon DEF Given
      <4> QED
        BY <4>1, <4>3
    <3>4. size \in Nat
      BY <2>4 DEF MaxFrameBytes
    <3> HIDE DEF s, size, l, d, g, b0
    <3>5. CASE s.bytes = -1
      <4>0. d = Fail(c)
        <5>1. s.bytes < 0
          BY <3>5
        <5> QED
          BY <3>2, <5>1 DEF TakeSizeAs
      <4>1. IsCursor(d) /\ d.ok = FALSE
        BY <1>1, <4>0, FailIs
      <4>2. ~l.ok
        BY <2>2, <2>3, <3>3, <3>5
      <4>3. g.ok = FALSE
        BY <1>2, <4>2
      <4>4. InStep(d, g, end, n + 1)
        BY <1>2, <4>1, <4>3 DEF InStep
      <4> QED
        BY <4>4 DEF d, g
    <3>6. CASE s.bytes # -1
      <4>1. s.bytes \in {1, 2} /\ s.size = size /\ s.bytes = IF b0 < 252 THEN 1 ELSE 2
        BY <2>2, <3>3, <3>6
      <4>2. c.len \in Int /\ s.bytes \in Int /\ s.size \in Int
        BY <2>2, <3>1, <3>4, <4>1
      <4>3. /\ IsCursor(d)
            /\ s.size > c.len - s.bytes => d.ok = FALSE
            /\ s.size <= c.len - s.bytes =>
                 /\ d.ok = c.ok /\ d.pos = c.pos + s.bytes /\ d.len = c.len - s.bytes
                 /\ d.last = c.last - s.bytes - s.size /\ d.sizes = Append(c.sizes, s.size)
        <5>1. ~(s.bytes < 0)
          BY <4>1
        <5>2. (s.size <= c.len - s.bytes) <=> ~(s.size > c.len - s.bytes)
          BY <4>2
        <5> QED
          BY <1>1, <3>2, <4>2, <5>1, <5>2, TakeSizeIs
      <4>4. CASE size > c.len - s.bytes
        <5>1. d.ok = FALSE
          BY <4>1, <4>3, <4>4
        <5>2. ASSUME l.ok PROVE SizesRead(g, n + 1) /\ g.ok /\ Room(g, end) < 0
          <6>1. l.bytes = s.bytes
            BY <2>3, <4>1, <5>2
          <6>2. Room(h, end) <= c.len
            BY <2>2, <2>5, <3>1 DEF Room
          <6> QED
            BY <2>5, <2>6, <3>4, <4>2, <4>4, <5>2, <6>1, <6>2
        <5>3. ~l.ok => g.ok = FALSE
          BY <1>2
        <5>4. g.ok \in BOOLEAN
          BY <5>2, <5>3
        <5>5. InStep(d, g, end, n + 1)
          BY <1>1, <1>2, <4>3, <5>1, <5>2, <5>3, <1>4 DEF InStep
        <5> QED
          BY <5>5 DEF d, g
      <4>5. CASE size <= c.len - s.bytes
        <5>1. l.ok /\ l.bytes = s.bytes
          BY <2>2, <2>3, <3>1, <3>4, <4>1, <4>5
        <5>2. SizesRead(g, n + 1) /\ g.ok /\ Room(g, end) = Room(h, end) - s.bytes - size
          BY <2>6, <5>1
        <5>3. g.pos = h.pos + s.bytes /\ g.sizes = Append(h.sizes, size)
          BY <1>2, <1>4, <2>3, <5>1
        <5>4. /\ d.ok = c.ok /\ d.pos = c.pos + s.bytes /\ d.len = c.len - s.bytes
              /\ d.last = c.last - s.bytes - size /\ d.sizes = Append(c.sizes, size)
          BY <4>1, <4>3, <4>5
        <5>5. d.len = end - g.pos /\ d.len >= 0
          BY <2>2, <3>1, <3>4, <4>1, <4>2, <4>5, <5>3, <5>4
        <5>6. d.ok /\ d.pos = g.pos /\ d.sizes = g.sizes /\ d.last = Room(g, end)
          BY <2>8, <3>1, <5>2, <5>3, <5>4
        <5>7. d.ok \in BOOLEAN /\ g.ok \in BOOLEAN
          BY <1>1, <1>2, <1>4, <5>1, <5>4
        <5>8. InStep(d, g, end, n + 1)
          BY <1>2, <4>3, <5>2, <5>5, <5>6, <5>7 DEF InStep
        <5> QED
          BY <5>8 DEF d, g
      <4> QED
        BY <3>4, <4>2, <4>4, <4>5
    <3> QED
      BY <3>5, <3>6
  <2> QED
    BY <1>1, <2>7, <2>8
<1> QED
  BY <1>1, <1>3, <1>4

(* The loop of parse_frames over explicit sizes, unfolded.              *)
LEMMA TakesExist ==
  ASSUME NEW w, NEW c
  PROVE  \A n \in Nat : \E f : f = [i \in 0 .. n |-> IF i = 0 THEN c ELSE TakeNext(w, f[i - 1])]
<1> DEFINE U(f, n) == f = [i \in 0 .. n |-> IF i = 0 THEN c ELSE TakeNext(w, f[i - 1])]
           T == {n \in Nat : \E f : U(f, n)}
<1>1. 0 \in T
  <2> DEFINE g == [i \in 0 .. 0 |-> c]
  <2>1. U(g, 0)
    OBVIOUS
  <2> QED
    BY <2>1
<1>2. ASSUME NEW n \in Nat, n \in T
      PROVE  n + 1 \in T
  <2>1. PICK f : U(f, n)
    BY <1>2
  <2> DEFINE g == [i \in 0 .. n + 1 |-> IF i = n + 1 THEN TakeNext(w, f[n]) ELSE f[i]]
  <2>2. ASSUME NEW i \in 0 .. n + 1
        PROVE  g[i] = IF i = 0 THEN c ELSE TakeNext(w, g[i - 1])
    <3>1. CASE i = n + 1
      BY <3>1
    <3>2. CASE i = 0
      BY <3>2, <2>1
    <3>3. CASE i \in 1 .. n
      <4>1. i - 1 \in 0 .. n + 1 /\ g[i - 1] = f[i - 1] /\ g[i] = f[i]
        BY <3>3
      <4>2. f[i] = TakeNext(w, f[i - 1])
        BY <3>3, <2>1
      <4> QED
        BY <4>1, <4>2, <3>3
    <3> QED
      BY <3>1, <3>2, <3>3
  <2>3. U(g, n + 1)
    BY <2>2
  <2> HIDE DEF g
  <2> QED
    BY <2>3
<1> HIDE DEF T
<1>3. T = Nat
  <2>1. T \in SUBSET Nat
    BY DEF T
  <2> QED
    BY <1>1, <1>2, <2>1, NatSetInduction
<1> QED
  BY <1>3 DEF T

(* The loop of the decoder over them, unfolded.                          *)
LEMMA ReadsExist ==
  ASSUME NEW w, NEW pos, NEW end
  PROVE  \A n \in Nat : \E f : f = [i \in 0 .. n |-> IF i = 0 THEN NoneRead(pos) ELSE ReadNext(w, f[i - 1], end)]
<1> DEFINE U(f, n) == f = [i \in 0 .. n |-> IF i = 0 THEN NoneRead(pos) ELSE ReadNext(w, f[i - 1], end)]
           T == {n \in Nat : \E f : U(f, n)}
<1>1. 0 \in T
  <2> DEFINE g == [i \in 0 .. 0 |-> NoneRead(pos)]
  <2>1. U(g, 0)
    OBVIOUS
  <2> QED
    BY <2>1
<1>2. ASSUME NEW n \in Nat, n \in T
      PROVE  n + 1 \in T
  <2>1. PICK f : U(f, n)
    BY <1>2
  <2> DEFINE g == [i \in 0 .. n + 1 |-> IF i = n + 1 THEN ReadNext(w, f[n], end) ELSE f[i]]
  <2>2. ASSUME NEW i \in 0 .. n + 1
        PROVE  g[i] = IF i = 0 THEN NoneRead(pos) ELSE ReadNext(w, g[i - 1], end)
    <3>1. CASE i = n + 1
      BY <3>1
    <3>2. CASE i = 0
      BY <3>2, <2>1
    <3>3. CASE i \in 1 .. n
      <4>1. i - 1 \in 0 .. n + 1 /\ g[i - 1] = f[i - 1] /\ g[i] = f[i]
        BY <3>3
      <4>2. f[i] = ReadNext(w, f[i - 1], end)
        BY <3>3, <2>1
      <4> QED
        BY <4>1, <4>2, <3>3
    <3> QED
      BY <3>1, <3>2, <3>3
  <2>3. U(g, n + 1)
    BY <2>2
  <2> HIDE DEF g
  <2> QED
    BY <2>3
<1> HIDE DEF T
<1>3. T = Nat
  <2>1. T \in SUBSET Nat
    BY DEF T
  <2> QED
    BY <1>1, <1>2, <2>1, NatSetInduction
<1> QED
  BY <1>3 DEF T

(* What parse_frames has after each size.                                *)
LEMMA TakesUnfold ==
  ASSUME NEW w, NEW c, NEW n \in Nat
  PROVE  \E f : /\ f[0] = c /\ TakeSizes(w, c, n) = f[n]
               /\ \A i \in Nat : i < n => f[i + 1] = TakeNext(w, f[i])
<1> DEFINE U(s) == s = [i \in 0 .. n |-> IF i = 0 THEN c ELSE TakeNext(w, s[i - 1])]
           s == CHOOSE s : U(s)
<1>1. U(s)
  BY TakesExist
<1>2. TakeSizes(w, c, n) = s[n]
  BY DEF TakeSizes
<1> HIDE DEF s
<1>3. s[0] = c
  BY <1>1
<1>4. ASSUME NEW i \in Nat, i < n PROVE s[i + 1] = TakeNext(w, s[i])
  <2>1. i + 1 \in 0 .. n /\ (i + 1) - 1 = i /\ i + 1 # 0
    BY <1>4
  <2> QED
    BY <1>1, <2>1
<1> QED
  BY <1>2, <1>3, <1>4

(* What the decoder has after each size.                                 *)
LEMMA ReadsUnfold ==
  ASSUME NEW w, NEW pos, NEW end, NEW n \in Nat
  PROVE  \E f : /\ f[0] = NoneRead(pos) /\ ReadLens(w, pos, end, n) = f[n]
               /\ \A i \in Nat : i < n => f[i + 1] = ReadNext(w, f[i], end)
<1> DEFINE U(s) == s = [i \in 0 .. n |-> IF i = 0 THEN NoneRead(pos) ELSE ReadNext(w, s[i - 1], end)]
           s == CHOOSE s : U(s)
<1>1. U(s)
  BY ReadsExist
<1>2. ReadLens(w, pos, end, n) = s[n]
  BY DEF ReadLens
<1> HIDE DEF s
<1>3. s[0] = NoneRead(pos)
  BY <1>1
<1>4. ASSUME NEW i \in Nat, i < n PROVE s[i + 1] = ReadNext(w, s[i], end)
  <2>1. i + 1 \in 0 .. n /\ (i + 1) - 1 = i /\ i + 1 # 0
    BY <1>4
  <2> QED
    BY <1>1, <2>1
<1> QED
  BY <1>2, <1>3, <1>4

(* All the sizes keep the two in step.                                     *)
LEMMA SizesInStep ==
  ASSUME NEW w, WireOK(w), NEW end \in Int, end <= WireLen(w), NEW n \in Nat, NEW pos,
         NEW c, InStep(c, NoneRead(pos), end, 0)
  PROVE  InStep(TakeSizes(w, c, n), ReadLens(w, pos, end, n), end, n)
<1>1. PICK f : /\ f[0] = c /\ TakeSizes(w, c, n) = f[n]
               /\ \A i \in Nat : i < n => f[i + 1] = TakeNext(w, f[i])
  BY TakesUnfold
<1>2. PICK g : /\ g[0] = NoneRead(pos) /\ ReadLens(w, pos, end, n) = g[n]
               /\ \A i \in Nat : i < n => g[i + 1] = ReadNext(w, g[i], end)
  BY ReadsUnfold
<1> DEFINE T == {i \in Nat : i <= n => InStep(f[i], g[i], end, i)}
<1>5. 0 \in T
  BY <1>1, <1>2
<1>6. ASSUME NEW i \in Nat, i \in T
      PROVE  i + 1 \in T
  <2> SUFFICES ASSUME i + 1 <= n PROVE InStep(f[i + 1], g[i + 1], end, i + 1)
    OBVIOUS
  <2>1. InStep(f[i], g[i], end, i)
    BY <1>6
  <2>3. f[i + 1] = TakeNext(w, f[i]) /\ g[i + 1] = ReadNext(w, g[i], end)
    BY <1>1, <1>2
  <2> QED
    BY <2>1, <2>3, StepInStep
<1>7. T = Nat
  <2>1. T \in SUBSET Nat
    OBVIOUS
  <2> HIDE DEF T
  <2> QED
    BY <1>5, <1>6, <2>1, NatSetInduction
<1> QED
  BY <1>1, <1>2, <1>7

(* Where the length of the padding ends.                                   *)
LEMMA PadStopIs ==
  ASSUME NEW w, WireOK(w), NEW pos \in Nat, pos <= WireLen(w)
  PROVE  /\ PadStop(w, pos) \in pos .. WireLen(w)
         /\ \A j \in pos .. (PadStop(w, pos) - 1) : ByteAt(w, j) = 255
         /\ ByteAt(w, PadStop(w, pos)) # 255 \/ PadStop(w, pos) = WireLen(w)
<1> DEFINE n == WireLen(w)
           Stop(k) == /\ \A j \in pos .. (k - 1) : ByteAt(w, j) = 255
                      /\ ByteAt(w, k) # 255 \/ k = n
<1>1. n \in Nat
  BY BytesAre
<1>2. \E k \in pos .. n : Stop(k)
  <2> SUFFICES ASSUME ~\E k \in pos .. n : Stop(k) PROVE FALSE
    OBVIOUS
  <2> DEFINE T == {i \in Nat : pos + i <= n => \A j \in pos .. (pos + i - 1) : ByteAt(w, j) = 255}
  <2> HIDE DEF n
  <2>1. 0 \in T
    OBVIOUS
  <2>2. ASSUME NEW i \in Nat, i \in T
        PROVE  i + 1 \in T
    <3> SUFFICES ASSUME pos + (i + 1) <= n
                 PROVE  \A j \in pos .. (pos + (i + 1) - 1) : ByteAt(w, j) = 255
      OBVIOUS
    <3>1. \A j \in pos .. (pos + i - 1) : ByteAt(w, j) = 255
      BY <1>1, <2>2
    <3>2. pos + i \in pos .. n
      BY <1>1
    <3>3. ByteAt(w, pos + i) = 255
      BY <3>1, <3>2
    <3>4. \A j \in pos .. (pos + (i + 1) - 1) : j = pos + i \/ j \in pos .. (pos + i - 1)
      OBVIOUS
    <3> QED
      BY <3>1, <3>3, <3>4
  <2>3. T = Nat
    <3>1. T \in SUBSET Nat
      OBVIOUS
    <3> HIDE DEF T
    <3> QED
      BY <2>1, <2>2, <3>1, NatSetInduction
  <2>4. n - pos \in T /\ pos + (n - pos) = n
    <3>1. n - pos \in Nat
      BY <1>1 DEF n
    <3> HIDE DEF T
    <3> QED
      BY <1>1, <2>3, <3>1
  <2>5. \A j \in pos .. (n - 1) : ByteAt(w, j) = 255
    BY <1>1, <2>4
  <2>6. n \in pos .. n
    BY <1>1 DEF n
  <2> QED
    BY <2>5, <2>6
<1>3. PadStop(w, pos) = CHOOSE k \in pos .. n : Stop(k)
  BY DEF PadStop
<1> DEFINE k == CHOOSE k \in pos .. n : Stop(k)
<1>4. k \in pos .. n /\ Stop(k)
  <2> HIDE DEF Stop, n
  <2> QED
    BY <1>2
<1> HIDE DEF k
<1> QED
  BY <1>3, <1>4

(***************************************************************************)
(* The two parsers.                                                        *)
(***************************************************************************)
(* c: where parse_frames ends, h: where the decoder does.                  *)
Accepted(w, c) ==
  /\ c.pos \in Nat /\ c.sizes \in Seq(0 .. MaxFrameBytes) /\ Len(c.sizes) \in 1 .. MAX_FRAMES
  /\ SumTo(c.sizes, Len(c.sizes)) \in Nat
  /\ c.pos + SumTo(c.sizes, Len(c.sizes)) <= WireLen(w)
TooLong(h) == \E i \in DOMAIN h.sizes : h.sizes[i] > MaxFrameBytes
Agree(w, c, h) ==
  /\ c.ok \in BOOLEAN /\ h.ok \in BOOLEAN
  /\ c.ok => h.ok /\ c.pos = h.pos /\ c.sizes = h.sizes /\ Accepted(w, c)
  /\ ~c.ok => ~h.ok \/ TooLong(h)

(* Then they cut the packet alike.                                         *)
LEMMA AgreeCuts ==
  ASSUME NEW w, WireOK(w), NEW c, NEW h, Agree(w, c, h)
  PROVE  SameCut(Playable(h), Cut(w, c))
<1> DEFINE end == c.pos + SumTo(c.sizes, Len(c.sizes))
<1>1. Cut(w, c) = CutFrames(w, c, end)
  BY DEF Cut
<1>2. CASE c.ok
  <2>1. h.ok /\ c.pos = h.pos /\ c.sizes = h.sizes /\ Accepted(w, c)
    BY <1>2 DEF Agree
  <2>2. \A i \in DOMAIN c.sizes : c.sizes[i] \in 0 .. MaxFrameBytes
    <3>1. c.sizes \in Seq(0 .. MaxFrameBytes)
      BY <2>1 DEF Accepted
    <3>2. DOMAIN c.sizes = 1 .. Len(c.sizes)
      BY <3>1
    <3> HIDE DEF MaxFrameBytes
    <3> QED
      BY <3>1, <3>2, ElementIs
  <2>3. ~TooLong(h)
    <3>1. \A x \in 0 .. MaxFrameBytes : ~(x > MaxFrameBytes)
      BY DEF MaxFrameBytes
    <3> QED
      BY <2>1, <2>2, <3>1 DEF TooLong
  <2>4. Playable(h) = [ok |-> TRUE, ranges |-> RangesFrom(h.pos, h.sizes)]
    BY <2>1, <2>3 DEF Playable, TooLong
  <2>5. CutFrames(w, c, end).ok = TRUE /\ CutFrames(w, c, end).ranges = RangesFrom(c.pos, c.sizes)
    <3>1. ~(Len(c.sizes) > MAX_FRAMES) /\ ~(end > WireLen(w))
      <4>1. Len(c.sizes) \in 1 .. MAX_FRAMES
        BY <2>1 DEF Accepted
      <4>2. ~(Len(c.sizes) > MAX_FRAMES)
        <5>1. \A x \in 1 .. MAX_FRAMES : ~(x > MAX_FRAMES)
          BY DEF MAX_FRAMES
        <5> QED
          BY <4>1, <5>1
      <4>3. end \in Int /\ WireLen(w) \in Int
        BY <2>1, BytesAre DEF Accepted
      <4> QED
        BY <2>1, <4>2, <4>3 DEF Accepted
    <3> QED
      BY <1>2, <3>1 DEF CutFrames
  <2>6. Playable(h).ok = TRUE /\ Playable(h).ranges = RangesFrom(c.pos, c.sizes)
    BY <2>1, <2>4
  <2>7. Cut(w, c).ok = TRUE /\ Cut(w, c).ranges = RangesFrom(c.pos, c.sizes)
    BY <1>1, <2>5
  <2> QED
    BY <2>6, <2>7, Zenon DEF SameCut
<1>3. CASE ~c.ok
  <2>1. Playable(h) = [ok |-> FALSE, ranges |-> <<>>]
    BY <1>3 DEF Agree, Playable, TooLong
  <2>2. CutFrames(w, c, end) = NoFrames
    BY <1>3 DEF CutFrames
  <2>3. Playable(h).ok = FALSE /\ Playable(h).ranges = <<>>
    BY <2>1
  <2>4. Cut(w, c).ok = FALSE /\ Cut(w, c).ranges = <<>>
    BY <1>1, <2>2 DEF NoFrames
  <2> QED
    BY <2>3, <2>4, Zenon DEF SameCut
<1> QED
  BY <1>2, <1>3 DEF Agree

(* The last frame takes what is left, in parse_frames and in the decoder.  *)
LEMMA LastSizeIs ==
  ASSUME NEW w, NEW c, IsCursor(c), c.ok \in BOOLEAN, c.ok => c.last \in Int
  PROVE  LET d == LastSize(w, c, FALSE) IN
         /\ d.ok \in BOOLEAN
         /\ d.ok <=> c.ok /\ c.last <= MaxFrameBytes
         /\ d.ok => d.pos = c.pos /\ d.sizes = Append(c.sizes, c.last)
<1> DEFINE d == LastSize(w, c, FALSE)
<1>1. CASE ~c.ok
  <2>1. d = c
    BY <1>1 DEF LastSize
  <2> HIDE DEF d
  <2> QED
    BY <1>1, <2>1 DEF d
<1>2. CASE c.ok
  <2>1. d = IF c.last > MaxFrameBytes THEN Fail(c) ELSE [c EXCEPT !.sizes = Append(@, c.last)]
    BY <1>2 DEF LastSize
  <2> HIDE DEF d
  <2>2. CASE c.last > MaxFrameBytes
    <3>1. d.ok = FALSE
      BY <2>1, <2>2, FailIs
    <3>2. ~(c.last <= MaxFrameBytes)
      BY <1>2, <2>2 DEF MaxFrameBytes
    <3> QED
      BY <3>1, <3>2 DEF d
  <2>3. CASE ~(c.last > MaxFrameBytes)
    <3>1. d = [c EXCEPT !.sizes = Append(@, c.last)]
      BY <2>1, <2>3
    <3>2. d.ok = c.ok /\ d.pos = c.pos /\ d.sizes = Append(c.sizes, c.last)
      BY <3>1 DEF IsCursor, CursorFields
    <3>3. c.last <= MaxFrameBytes
      BY <1>2, <2>3 DEF MaxFrameBytes
    <3> QED
      BY <1>2, <3>2, <3>3 DEF d
  <2> QED
    BY <2>2, <2>3
<1> QED
  BY <1>1, <1>2

(* WithRemainder leaves the last frame the room that is left.              *)
LEMMA RemainderIs ==
  ASSUME NEW h, h = [ok |-> h.ok, pos |-> h.pos, sizes |-> h.sizes], h.ok \in BOOLEAN,
         NEW end \in Int, h.ok => Room(h, end) \in Int
  PROVE  LET r == WithRemainder(h, end) IN
         /\ r.ok \in BOOLEAN
         /\ r.ok <=> h.ok /\ Room(h, end) >= 0
         /\ r.ok => r.pos = h.pos /\ r.sizes = Append(h.sizes, Room(h, end))
<1> DEFINE r == WithRemainder(h, end)
           rest == end - h.pos - SumTo(h.sizes, Len(h.sizes))
<1>1. r = IF ~h.ok \/ rest < 0 THEN Reject ELSE [h EXCEPT !.sizes = Append(@, rest)]
  BY DEF WithRemainder
<1>2. rest = Room(h, end)
  BY DEF Room
<1> HIDE DEF r, rest
<1>3. CASE ~h.ok \/ rest < 0
  <2>1. r.ok = FALSE
    BY <1>1, <1>3 DEF Reject
  <2>2. ~(h.ok /\ Room(h, end) >= 0)
    BY <1>2, <1>3
  <2> QED
    BY <2>1, <2>2 DEF r
<1>4. CASE ~(~h.ok \/ rest < 0)
  <2>1. r = [h EXCEPT !.sizes = Append(@, rest)]
    BY <1>1, <1>4
  <2>2. r.ok = h.ok /\ r.pos = h.pos /\ r.sizes = Append(h.sizes, rest)
    BY <2>1
  <2>3. h.ok /\ Room(h, end) >= 0
    BY <1>2, <1>4
  <2> QED
    BY <1>2, <2>2, <2>3 DEF r
<1> QED
  BY <1>3, <1>4

(* The last of a sequence made one longer.                                 *)
LEMMA AppendIs ==
  ASSUME NEW S, NEW a \in Seq(S), NEW x
  PROVE  /\ Len(a) + 1 \in DOMAIN Append(a, x) /\ Append(a, x)[Len(a) + 1] = x
         /\ Len(Append(a, x)) = Len(a) + 1 /\ DOMAIN Append(a, x) = 1 .. Len(a) + 1
         /\ \A i \in 1 .. Len(a) : Append(a, x)[i] = a[i]
<1>1. a \in Seq(S \cup {x})
  OBVIOUS
<1> QED
  BY <1>1

(* A packet whose last frame takes what is left.                           *)
LEMMA RestAgree ==
  ASSUME NEW w, WireOK(w), NEW end \in Int, end <= WireLen(w), NEW n \in 0 .. (MAX_FRAMES - 1),
         NEW c, NEW h, InStep(c, h, end, n),
         NEW f, IsCursor(f), f.ok \in BOOLEAN, f.ok <=> c.ok /\ c.last >= 0,
         f.ok => f.pos = c.pos /\ f.last = c.last /\ f.sizes = c.sizes
  PROVE  Agree(w, LastSize(w, f, FALSE), WithRemainder(h, end))
<1> DEFINE d == LastSize(w, f, FALSE)
           r == WithRemainder(h, end)
           rest == Room(h, end)
<1>1. /\ h = [ok |-> h.ok, pos |-> h.pos, sizes |-> h.sizes] /\ h.ok \in BOOLEAN
      /\ h.ok => SizesRead(h, n)
      /\ c.ok => h.ok /\ c.pos = h.pos /\ c.sizes = h.sizes /\ c.last = rest
      /\ ~c.ok /\ h.ok => rest < 0
  BY DEF InStep
<1>2. n \in Nat /\ n + 1 \in 1 .. MAX_FRAMES
  BY DEF MAX_FRAMES
<1>3. h.ok => SumTo(h.sizes, Len(h.sizes)) \in Nat /\ rest \in Int
  BY <1>1, <1>2, RoomIs
<1> HIDE DEF rest
<1>4. /\ d.ok \in BOOLEAN
      /\ d.ok <=> f.ok /\ f.last <= MaxFrameBytes
      /\ d.ok => d.pos = f.pos /\ d.sizes = Append(f.sizes, f.last)
  <2>1. f.ok => f.last \in Int
    BY <1>1, <1>3
  <2> QED
    BY <2>1, LastSizeIs
<1>5. /\ r.ok \in BOOLEAN
      /\ r.ok <=> h.ok /\ rest >= 0
      /\ r.ok => r.pos = h.pos /\ r.sizes = Append(h.sizes, rest)
  BY <1>1, <1>3, RemainderIs DEF rest
<1> HIDE DEF d, r
<1>6. ASSUME d.ok
      PROVE  r.ok /\ d.pos = r.pos /\ d.sizes = r.sizes /\ Accepted(w, d)
  <2>1. c.ok /\ f.ok /\ h.ok /\ rest >= 0 /\ f.last = rest /\ rest <= MaxFrameBytes
    BY <1>1, <1>4, <1>6
  <2>2. r.ok /\ d.pos = h.pos /\ d.sizes = Append(h.sizes, rest) /\ r.pos = h.pos /\ r.sizes = d.sizes
    BY <1>1, <1>4, <1>5, <1>6, <2>1
  <2>3. SizesRead(h, n) /\ rest \in Int /\ SumTo(h.sizes, Len(h.sizes)) \in Nat
    BY <1>1, <1>3, <2>1
  <2>4. rest \in 0 .. MaxFrameBytes
    <3>1. rest \in Int /\ rest >= 0 /\ rest <= MaxFrameBytes
      BY <2>1, <2>3
    <3> QED
      BY <3>1 DEF MaxFrameBytes
  <2>5. d.pos \in Nat /\ d.sizes \in Seq(0 .. MaxFrameBytes) /\ Len(d.sizes) = n + 1
    <3> HIDE DEF MaxFrameBytes
    <3> QED
      BY <2>2, <2>3, <2>4 DEF SizesRead
  <2>6. SumTo(d.sizes, Len(d.sizes)) = SumTo(h.sizes, Len(h.sizes)) + rest
    <3>1. h.sizes \in Seq(0 .. MaxFrameBytes) /\ Len(h.sizes) = n
      BY <2>3 DEF SizesRead
    <3> QED
      BY <2>2, <2>4, <2>5, <3>1, SumAppend
  <2>7. d.pos + SumTo(d.sizes, Len(d.sizes)) = end
    <3> DEFINE before == SumTo(h.sizes, Len(h.sizes))
               all == SumTo(d.sizes, Len(d.sizes))
    <3>1. before \in Nat /\ all = before + rest /\ rest = end - h.pos - before /\ d.pos = h.pos /\ h.pos \in Nat
      BY <2>2, <2>3, <2>6 DEF rest, Room, SizesRead
    <3> HIDE DEF before, all
    <3>2. d.pos + all = end
      BY <3>1
    <3> QED
      BY <3>2 DEF all
  <2>8. SumTo(d.sizes, Len(d.sizes)) \in Nat
    <3>1. rest \in Nat
      BY <2>1, <2>3
    <3> QED
      BY <2>3, <2>6, <3>1
  <2> QED
    BY <1>2, <2>2, <2>5, <2>7, <2>8 DEF Accepted
<1>7. ASSUME ~d.ok
      PROVE  ~r.ok \/ TooLong(r)
  <2> SUFFICES ASSUME r.ok PROVE TooLong(r)
    OBVIOUS
  <2>1. h.ok /\ rest >= 0 /\ rest \in Int
    BY <1>3, <1>5
  <2>2. c.ok /\ f.ok /\ f.last = rest
    BY <1>1, <2>1
  <2>3. rest > MaxFrameBytes
    BY <1>4, <1>7, <2>1, <2>2 DEF MaxFrameBytes
  <2>4. r.sizes = Append(h.sizes, rest) /\ h.sizes \in Seq(0 .. MaxFrameBytes) /\ Len(h.sizes) = n
    BY <1>1, <1>5, <2>1 DEF SizesRead
  <2>5. n + 1 \in DOMAIN r.sizes /\ r.sizes[n + 1] = rest
    <3>1. h.sizes \in Seq(0 .. MaxFrameBytes)
      BY <2>4
    <3> HIDE DEF MaxFrameBytes
    <3>2. Len(h.sizes) + 1 \in DOMAIN r.sizes /\ r.sizes[Len(h.sizes) + 1] = rest
      BY <2>4, <3>1, AppendIs
    <3> QED
      BY <2>4, <3>2
  <2> QED
    BY <2>3, <2>5 DEF TooLong
<1> QED
  BY <1>4, <1>5, <1>6, <1>7 DEF Agree, d, r

(* A packet of equal frames.                                               *)
LEMMA EqualAgree ==
  ASSUME NEW w, WireOK(w), NEW pos \in Nat, NEW end \in Int, pos <= end, end <= WireLen(w),
         NEW m \in 1 .. MAX_FRAMES,
         NEW c, IsCursor(c), c.ok = TRUE, c.pos = pos, c.len = end - pos, c.count = m
  PROVE  Agree(w, LastSize(w, TakeEqual(c), FALSE), EqualFrames(pos, end, m))
<1> DEFINE len == end - pos
           q == len \div m
           f == TakeEqual(c)
           d == LastSize(w, f, FALSE)
           h == EqualFrames(pos, end, m)
           all == [i \in 1 .. m |-> q]
<1>1. len \in Nat /\ m \in Nat \ {0}
  BY DEF MAX_FRAMES
<1>2. q \in Nat /\ len % m \in 0 .. (m - 1) /\ len = m * q + (len % m)
  <2> HIDE DEF len
  <2> QED
    BY <1>1, Quotient
<1>3. CASE len % m # 0
  <2>1. f = Fail(c) /\ h = Reject
    BY <1>3 DEF TakeEqual, EqualFrames
  <2> HIDE DEF f, h
  <2>2. IsCursor(f) /\ f.ok = FALSE /\ h.ok = FALSE
    BY <2>1, FailIs DEF Reject
  <2>3. d.ok \in BOOLEAN /\ ~d.ok
    BY <2>2, LastSizeIs
  <2> HIDE DEF d
  <2> QED
    BY <2>2, <2>3 DEF Agree, d, f, h
<1>4. CASE len % m = 0
  <2>1. h = [ok |-> TRUE, pos |-> pos, sizes |-> all]
    BY <1>4 DEF EqualFrames
  <2>2. f = [c EXCEPT !.last = q, !.sizes = [i \in 1 .. (m - 1) |-> q]]
    BY <1>4 DEF TakeEqual
  <2> HIDE DEF q, h, f
  <2>3. IsCursor(f) /\ f.ok = TRUE /\ f.pos = pos /\ f.last = q /\ f.sizes = [i \in 1 .. (m - 1) |-> q]
    BY <2>2 DEF IsCursor, CursorFields
  <2>4. /\ d.ok \in BOOLEAN
        /\ d.ok <=> q <= MaxFrameBytes
        /\ d.ok => d.pos = pos /\ d.sizes = Append(f.sizes, q)
    <3>0. f.ok \in BOOLEAN /\ f.ok
      BY <2>3
    <3>1. f.ok \in BOOLEAN /\ f.ok /\ f.last \in Int
      <4>1. f.last \in Int
        BY <1>2, <2>3
      <4> QED
        BY <3>0, <4>1
    <3>2. /\ d.ok \in BOOLEAN
          /\ d.ok <=> f.ok /\ f.last <= MaxFrameBytes
          /\ d.ok => d.pos = f.pos /\ d.sizes = Append(f.sizes, f.last)
      BY <2>3, <3>1, LastSizeIs
    <3> HIDE DEF d
    <3> QED
      BY <2>3, <3>1, <3>2
  <2>5. all \in Seq(Nat) /\ Len(all) = m /\ \A i \in 1 .. m : all[i] = q
    BY <1>1, <1>2
  <2>6. Append(f.sizes, q) = all
    <3>1. f.sizes \in Seq(Nat) /\ Len(f.sizes) = m - 1
      BY <1>1, <1>2, <2>3
    <3> QED
      BY <1>1, <1>2, <2>3, <3>1
  <2> HIDE DEF d
  <2>7. h.ok = TRUE /\ h.pos = pos /\ h.sizes = all
    BY <2>1
  <2> HIDE DEF all
  <2>8. ASSUME d.ok
        PROVE  d.pos = h.pos /\ d.sizes = h.sizes /\ Accepted(w, d)
    <3>1. d.pos = h.pos /\ d.sizes = all /\ h.sizes = all /\ q <= MaxFrameBytes
      BY <2>4, <2>6, <2>7, <2>8
    <3>2. SumTo(all, m) = m * q
      <4>1. m \in 0 .. m /\ m \in Nat
        BY <1>1
      <4>2. \A k \in 0 .. m : SumTo(all, k) = k * q
        <5>1. q \in Nat /\ m \in Nat /\ \A i \in 1 .. m : all[i] = q
          BY <1>1, <1>2, <2>5
        <5> QED
          BY <5>1, SumEqual
      <4> QED
        BY <4>1, <4>2
    <3>3. m * q = len
      BY <1>1, <1>2, <1>4
    <3>4. all \in Seq(0 .. MaxFrameBytes)
      <4>1. q \in 0 .. MaxFrameBytes
        BY <1>2, <3>1 DEF MaxFrameBytes
      <4> HIDE DEF MaxFrameBytes
      <4> QED
        BY <1>1, <4>1 DEF all
    <3>5. d.pos + SumTo(d.sizes, Len(d.sizes)) = end /\ SumTo(d.sizes, Len(d.sizes)) \in Nat
      <4>1. d.pos = pos /\ SumTo(d.sizes, Len(d.sizes)) = len
        BY <2>5, <2>7, <3>1, <3>2, <3>3
      <4> QED
        BY <1>1, <4>1
    <3>6. d.pos \in Nat /\ Len(d.sizes) \in 1 .. MAX_FRAMES
      BY <2>5, <2>7, <3>1
    <3> QED
      BY <3>1, <3>4, <3>5, <3>6 DEF Accepted
  <2>9. ASSUME ~d.ok
        PROVE  TooLong(h)
    <3>1. q > MaxFrameBytes
      BY <1>2, <2>4, <2>9 DEF MaxFrameBytes
    <3>2. 1 \in DOMAIN h.sizes /\ h.sizes[1] = q
      BY <1>1, <2>5, <2>7 DEF all
    <3> QED
      BY <3>1, <3>2 DEF TooLong
  <2> QED
    BY <2>4, <2>7, <2>8, <2>9 DEF Agree, d, f, h
<1> QED
  BY <1>2, <1>3, <1>4

(* Where a parser starts.                                                  *)
LEMMA CursorIs ==
  ASSUME NEW w, WireOK(w), WireLen(w) > 0
  PROVE  /\ IsCursor(Cursor(w)) /\ Cursor(w).ok = TRUE /\ Cursor(w).pos = 1
         /\ Cursor(w).len = WireLen(w) - 1 /\ Cursor(w).last = WireLen(w) - 1
         /\ Cursor(w).sizes = <<>> /\ Cursor(w).count = 1 /\ Cursor(w).cbr = FALSE
         /\ WireLen(w) \in Nat
<1>1. WireLen(w) \in Nat
  BY BytesAre
<1>2. (WireLen(w) > 0) = TRUE
  OBVIOUS
<1> QED
  BY <1>1, <1>2 DEF Cursor, IsCursor, CursorFields

(* Before any size is read the two are in step.                            *)
LEMMA StartInStep ==
  ASSUME NEW end \in Int, NEW pos \in Nat, pos <= end,
         NEW c, IsCursor(c), c.ok = TRUE, c.pos = pos, c.len = end - pos, c.last = end - pos,
         c.sizes = <<>>
  PROVE  InStep(c, NoneRead(pos), end, 0)
<1> DEFINE h == NoneRead(pos)
<1>1. h = [ok |-> h.ok, pos |-> h.pos, sizes |-> h.sizes] /\ h.ok = TRUE /\ h.pos = pos /\ h.sizes = <<>>
  BY DEF NoneRead
<1>2. Room(h, end) = end - pos
  <2>1. SumTo(h.sizes, Len(h.sizes)) = 0
    BY <1>1, SumStep
  <2> QED
    BY <1>1, <2>1 DEF Room
<1>3. SizesRead(h, 0)
  <2>1. <<>> \in Seq(0 .. MaxFrameBytes) /\ Len(<<>>) = 0
    OBVIOUS
  <2> QED
    BY <1>1, <2>1 DEF SizesRead
<1> HIDE DEF h
<1>4. c.ok = TRUE /\ c.sizes = h.sizes /\ c.len >= 0 /\ c.len = end - h.pos /\ c.last = Room(h, end)
  BY <1>1, <1>2
<1>5. InStep(c, h, end, 0)
  BY <1>1, <1>3, <1>4 DEF InStep
<1> QED
  BY <1>5 DEF h

(* A packet both refuse.                                                   *)
LEMMA RefusedAgree ==
  ASSUME NEW w, NEW c, IsCursor(c)
  PROVE  Agree(w, LastSize(w, Fail(c), FALSE), Reject)
<1> DEFINE f == Fail(c)
           d == LastSize(w, f, FALSE)
<1>1. IsCursor(f) /\ f.ok = FALSE
  BY FailIs
<1> HIDE DEF f
<1>2. d = f
  BY <1>1 DEF LastSize
<1>3. d.ok = FALSE /\ Reject.ok = FALSE
  BY <1>1, <1>2 DEF Reject
<1> HIDE DEF d
<1>4. Agree(w, d, Reject)
  BY <1>3 DEF Agree
<1> QED
  BY <1>4 DEF d, f

(* LastFits refuses a cursor whose last frame has no room.                 *)
LEMMA FitsIs ==
  ASSUME NEW c, IsCursor(c), c.ok \in BOOLEAN, c.ok => c.last \in Int
  PROVE  LET f == LastFits(c) IN
         /\ IsCursor(f) /\ f.ok \in BOOLEAN
         /\ f.ok <=> c.ok /\ c.last >= 0
         /\ f.ok => f = c
<1> DEFINE f == LastFits(c)
<1>1. CASE c.last < 0
  <2>1. f = Fail(c)
    BY <1>1 DEF LastFits
  <2>2. IsCursor(f) /\ f.ok = FALSE
    BY <2>1, FailIs
  <2>3. ~(c.ok /\ c.last >= 0)
    BY <1>1
  <2> HIDE DEF f
  <2> QED
    BY <2>2, <2>3 DEF f
<1>2. CASE ~(c.last < 0)
  <2>1. f = c
    BY <1>2 DEF LastFits
  <2>2. c.ok => c.last >= 0
    BY <1>2
  <2> HIDE DEF f
  <2>3. f.ok <=> c.ok
    BY <2>1
  <2> QED
    BY <2>1, <2>2, <2>3 DEF f
<1> QED
  BY <1>1, <1>2

(* A cursor of a code-3 packet whose count byte has been read.             *)
AtFrames(c, ch, pos, len) ==
  /\ IsCursor(c) /\ c.ok = TRUE /\ c.pos = pos /\ c.len = len /\ c.sizes = <<>>
  /\ ch \in 0 .. 255 /\ ch % 64 \in 1 .. MAX_FRAMES /\ c.count = ch % 64
  /\ c.cbr <=> ch < 128

(* The frames of a code-3 packet, past its count and padding length.       *)
LEMMA CutAgree ==
  ASSUME NEW w, WireOK(w), NEW start \in Nat, NEW end \in Int, end <= WireLen(w),
         NEW ch, NEW c, AtFrames(c, ch, start, end - start)
  PROVE  Agree(w, LastSize(w, CutCode3(w, c, FALSE), FALSE), DecodeFramesIn(w, ch, start, end))
<1>a. /\ IsCursor(c) /\ c.ok = TRUE /\ c.pos = start /\ c.len = end - start /\ c.sizes = <<>>
      /\ ch \in 0 .. 255 /\ ch % 64 \in 1 .. MAX_FRAMES /\ c.count = ch % 64
      /\ c.cbr <=> ch < 128
  BY DEF AtFrames
<1>b. \A x \in 1 .. MAX_FRAMES : x - 1 \in 0 .. (MAX_FRAMES - 1) /\ x - 1 \in Nat
  BY DEF MAX_FRAMES
<1>c. ~(ch < 128) => ch >= 128
  <2>1. ch \in 0 .. 255
    BY DEF AtFrames
  <2> QED
    BY <2>1
<1> USE <1>a
<1> DEFINE k == ch % 64
           h == DecodeFramesIn(w, ch, start, end)
           f == CutCode3(w, c, FALSE)
<1>0. k \in 1 .. MAX_FRAMES /\ k - 1 \in 0 .. (MAX_FRAMES - 1) /\ k - 1 \in Nat
  BY <1>b
<1>1. CASE start > end
  <2>1. h = Reject
    BY <1>1 DEF DecodeFramesIn
  <2>2. f = Fail(c)
    BY <1>1 DEF CutCode3
  <2> QED
    BY <2>1, <2>2, RefusedAgree
<1>2. CASE start <= end /\ ch < 128
  <2>1. c.cbr /\ c.len >= 0 /\ end >= 0
    BY <1>2
  <2>2. h = EqualFrames(start, end, k)
    BY <1>2, <2>1 DEF DecodeFramesIn
  <2>3. f = TakeEqual(c)
    BY <2>1 DEF CutCode3
  <2> HIDE DEF f, h, k
  <2>4. c.count = k
    BY DEF k
  <2>5. Agree(w, LastSize(w, TakeEqual(c), FALSE), EqualFrames(start, end, k))
    BY <1>0, <1>2, <2>4, EqualAgree
  <2> QED
    BY <2>2, <2>3, <2>5 DEF f, h
<1>3. CASE start <= end /\ ~(ch < 128)
  <2>1. ~c.cbr /\ c.len >= 0 /\ ~(end < 0) /\ ch >= 128
    <3>1. ~c.cbr /\ ch >= 128
      BY <1>3, <1>c
    <3>2. c.len >= 0 /\ ~(end < 0)
      <4>1. PICK left \in Int : left = end - start
        OBVIOUS
      <4>2. left >= 0 /\ ~(end < 0)
        BY <1>3, <4>1
      <4> QED
        BY <4>1, <4>2
    <3> QED
      BY <3>1, <3>2
  <2> DEFINE c0 == [c EXCEPT !.last = c.len]
             ct == TakeSizes(w, c0, k - 1)
             hr == ReadLens(w, start, end, k - 1)
  <2>2. h = WithRemainder(hr, end)
    BY <1>3, <2>1 DEF DecodeFramesIn
  <2>3. f = LastFits(ct)
    BY <2>1 DEF CutCode3
  <2>4. /\ IsCursor(c0) /\ c0.ok = TRUE /\ c0.pos = start /\ c0.len = end - start
        /\ c0.last = end - start /\ c0.sizes = <<>>
    BY DEF IsCursor, CursorFields
  <2> HIDE DEF c0, f, h, k
  <2>5. InStep(c0, NoneRead(start), end, 0)
    BY <1>3, <2>4, StartInStep
  <2>6. InStep(ct, hr, end, k - 1)
    BY <1>0, <2>5, SizesInStep
  <2> HIDE DEF ct, hr
  <2>7. IsCursor(ct) /\ ct.ok \in BOOLEAN /\ (ct.ok => ct.last \in Int)
    <3>1. IsCursor(ct) /\ ct.ok \in BOOLEAN
      BY <2>6 DEF InStep
    <3>2. ct.ok => SizesRead(hr, k - 1) /\ ct.last = Room(hr, end)
      BY <2>6 DEF InStep
    <3>3. ct.ok => ct.last \in Int
      BY <1>0, <3>2, RoomIs
    <3> QED
      BY <3>1, <3>3
  <2>8. /\ IsCursor(f) /\ f.ok \in BOOLEAN
        /\ f.ok <=> ct.ok /\ ct.last >= 0
        /\ f.ok => f = ct
    BY <2>3, <2>7, FitsIs
  <2>9. f.ok => f.pos = ct.pos /\ f.last = ct.last /\ f.sizes = ct.sizes
    BY <2>8
  <2>10. Agree(w, LastSize(w, f, FALSE), WithRemainder(hr, end))
    BY <1>0, <2>6, <2>8, <2>9, RestAgree
  <2> QED
    BY <2>2, <2>10 DEF f, h
<1>4. start > end \/ (start <= end /\ ch < 128) \/ (start <= end /\ ~(ch < 128))
  OBVIOUS
<1> HIDE DEF f, h, k
<1> QED
  BY <1>1, <1>2, <1>3, <1>4 DEF f, h

(* The length of a frame does not depend on the code, and is 2.5 ms or     *)
(* more.                                                                   *)
LEMMA SamplesIs ==
  ASSUME NEW toc \in 0 .. 255
  PROVE  /\ samples_per_frame(toc, 8000) \in Nat /\ samples_per_frame(toc, 8000) >= 20
         /\ samples_per_frame(toc, 48000) = 6 * samples_per_frame(toc, 8000)
<1> DEFINE a == (toc \div 8) % 4
<1>1. a \in 0 .. 3
  OBVIOUS
<1> DEFINE doubled == <<1, 2, 4, 8>>[a + 1]
<1>2. doubled \in {1, 2, 4, 8}
  <2> HIDE DEF a
  <2> QED
    BY <1>1
<1>3. \A fs : samples_per_frame(toc, fs) =
        IF toc >= 128 THEN (fs * doubled) \div 400
        ELSE IF (toc \div 32) % 4 = 3 THEN (IF a % 2 = 1 THEN fs \div 50 ELSE fs \div 100)
        ELSE IF a = 3 THEN (fs * 60) \div 1000 ELSE (fs * doubled) \div 100
  BY DEF samples_per_frame
<1> HIDE DEF a, doubled
<1>4. /\ (8000 * doubled) \div 400 = 20 * doubled /\ (48000 * doubled) \div 400 = 120 * doubled
      /\ (8000 * doubled) \div 100 = 80 * doubled /\ (48000 * doubled) \div 100 = 480 * doubled
      /\ 8000 \div 50 = 160 /\ 48000 \div 50 = 960 /\ 8000 \div 100 = 80 /\ 48000 \div 100 = 480
      /\ (8000 * 60) \div 1000 = 480 /\ (48000 * 60) \div 1000 = 2880
  BY <1>2
<1>5. /\ samples_per_frame(toc, 8000) =
           IF toc >= 128 THEN 20 * doubled
           ELSE IF (toc \div 32) % 4 = 3 THEN (IF a % 2 = 1 THEN 160 ELSE 80)
           ELSE IF a = 3 THEN 480 ELSE 80 * doubled
      /\ samples_per_frame(toc, 48000) =
           IF toc >= 128 THEN 120 * doubled
           ELSE IF (toc \div 32) % 4 = 3 THEN (IF a % 2 = 1 THEN 960 ELSE 480)
           ELSE IF a = 3 THEN 2880 ELSE 480 * doubled
  BY <1>3, <1>4
<1> QED
  BY <1>2, <1>5

(* So 120 ms are at most 48 frames.                                        *)
LEMMA FewFrames ==
  ASSUME NEW toc \in 0 .. 255, NEW k \in Nat,
         samples_per_frame(toc, 48000) * k <= MaxPacketSamples48k
  PROVE  k <= MAX_FRAMES
<1> DEFINE s == samples_per_frame(toc, 48000)
<1>1. s \in Nat /\ s >= 120
  BY SamplesIs
<1>2. s * k <= 5760
  BY DEF MaxPacketSamples48k
<1> HIDE DEF s
<1>3. 120 * k <= s * k /\ s * k \in Int
  BY <1>1
<1>4. 120 * k <= 5760
  BY <1>2, <1>3
<1> QED
  BY <1>4 DEF MAX_FRAMES

(* A cursor past the padding, or a packet refused.                         *)
LEMMA SkipIs ==
  ASSUME NEW w, NEW c, IsCursor(c), NEW start, NEW b, b = ByteAt(w, start)
  PROVE  LET d == SkipTo(w, c, start)
             short == c.len - 255 * (start - c.pos) <= 0 IN
         /\ short => d = Fail(c)
         /\ ~short => /\ IsCursor(d) /\ d.ok = c.ok /\ d.pos = start + 1
                      /\ d.len = c.len - 255 * (start - c.pos) - 1 - b
                      /\ d.sizes = c.sizes /\ d.count = c.count /\ d.cbr = c.cbr
<1>1. CASE c.len - 255 * (start - c.pos) <= 0
  BY <1>1 DEF SkipTo
<1>2. CASE ~(c.len - 255 * (start - c.pos) <= 0)
  BY <1>2 DEF SkipTo, IsCursor, CursorFields
<1> QED
  BY <1>1, <1>2

(* The frames of a code-3 packet, past its count.                          *)
LEMMA SkipAgree ==
  ASSUME NEW w, WireOK(w), NEW n \in Nat, n = WireLen(w), NEW start \in 2 .. n,
         NEW ch, NEW c, AtFrames(c, ch, 2, n - 2)
  PROVE  Agree(w, LastSize(w, CutCode3(w, SkipTo(w, c, start), FALSE), FALSE),
               DecodePadding(w, ch, n, start))
<1>0. start \in Int /\ start >= 2 /\ start \in Nat /\ n \in Int
  OBVIOUS
<1>1. PICK b \in 0 .. 255 : b = ByteAt(w, start)
  <2>1. ByteAt(w, start) \in 0 .. 255
    BY <1>0, BytesAre
  <2> QED
    BY <2>1
<1>2. PICK end \in Int : end = n - 254 * (start - 2) - b
  BY <1>0
<1>3. PICK left \in Int : left = (n - 2) - 255 * (start - 2)
  BY <1>0
<1>4. left - 1 - b = end - (start + 1)
  BY <1>0, <1>2, <1>3
<1>5. left <= 0 => start + 1 > end
  BY <1>0, <1>4
<1>6. ~(left <= 0) => start < n /\ end <= n
  BY <1>0, <1>2, <1>3
<1>7. PICK past : past = SkipTo(w, c, start)
  OBVIOUS
<1>8. PICK h : h = DecodePadding(w, ch, n, start)
  OBVIOUS
<1>9. IsCursor(c) /\ c.ok = TRUE /\ c.sizes = <<>>
  BY DEF AtFrames
<1>10. /\ left <= 0 => past = Fail(c)
       /\ ~(left <= 0) => /\ IsCursor(past) /\ past.ok = c.ok /\ past.pos = start + 1
                          /\ past.len = left - 1 - b
                          /\ past.sizes = c.sizes /\ past.count = c.count /\ past.cbr = c.cbr
  <2>1. c.len - 255 * (start - c.pos) = left
    BY <1>0, <1>3 DEF AtFrames
  <2>2. /\ c.len - 255 * (start - c.pos) <= 0 => past = Fail(c)
        /\ ~(c.len - 255 * (start - c.pos) <= 0) =>
            /\ IsCursor(past) /\ past.ok = c.ok /\ past.pos = start + 1
            /\ past.len = c.len - 255 * (start - c.pos) - 1 - b
            /\ past.sizes = c.sizes /\ past.count = c.count /\ past.cbr = c.cbr
    BY <1>1, <1>7, <1>9, SkipIs
  <2> QED
    BY <2>1, <2>2
<1>11. /\ start >= n => h = Reject
       /\ ~(start >= n) => h = DecodeFramesIn(w, ch, start + 1, end)
  BY <1>1, <1>2, <1>8 DEF DecodePadding
<1>12. CASE left <= 0
  <2>1. IsCursor(past) /\ past.ok = FALSE
    BY <1>9, <1>10, <1>12, FailIs
  <2>2. CutCode3(w, past, FALSE) = Fail(past)
    BY <2>1 DEF CutCode3
  <2>3. h = Reject
    <3>1. start + 1 > end
      BY <1>5, <1>12
    <3>2. DecodeFramesIn(w, ch, start + 1, end) = Reject
      BY <3>1 DEF DecodeFramesIn
    <3> QED
      BY <1>11, <3>2
  <2>4. Agree(w, LastSize(w, Fail(past), FALSE), Reject)
    BY <2>1, RefusedAgree
  <2> QED
    BY <1>7, <1>8, <2>2, <2>3, <2>4, Zenon
<1>13. CASE ~(left <= 0)
  <2>1. start < n /\ end <= WireLen(w) /\ start + 1 \in Nat
    BY <1>0, <1>6, <1>13
  <2>2. past.len = end - (start + 1)
    BY <1>4, <1>10, <1>13
  <2>3. AtFrames(past, ch, start + 1, end - (start + 1))
    BY <1>9, <1>10, <1>13, <2>2, Zenon DEF AtFrames
  <2>4. h = DecodeFramesIn(w, ch, start + 1, end)
    BY <1>0, <1>11, <2>1
  <2>5. Agree(w, LastSize(w, CutCode3(w, past, FALSE), FALSE), DecodeFramesIn(w, ch, start + 1, end))
    BY <2>1, <2>3, CutAgree
  <2> QED
    BY <1>7, <1>8, <2>4, <2>5, Zenon
<1> QED
  BY <1>12, <1>13

(* A cursor past the count byte.                                           *)
LEMMA CountedIs ==
  ASSUME NEW c, IsCursor(c), NEW ch \in 0 .. 255, c.len \in Int
  PROVE  LET d == Counted(c, ch) IN
         /\ IsCursor(d) /\ d.ok = c.ok /\ d.pos = 2 /\ d.len = c.len - 1 /\ d.last = c.last
         /\ d.sizes = c.sizes /\ d.count = ch % 64
         /\ d.cbr <=> ch < 128
<1> DEFINE d == Counted(c, ch)
<1>1. IsCursor(d) /\ d.ok = c.ok /\ d.pos = 2 /\ d.last = c.last /\ d.sizes = c.sizes
  BY DEF Counted, IsCursor, CursorFields
<1>2. d.len = c.len - 1 /\ d.count = ch % 64
  BY DEF Counted, IsCursor, CursorFields
<1>3. d.cbr = (ch < 128)
  BY DEF Counted, IsCursor, CursorFields
<1> HIDE DEF d
<1>4. d.cbr <=> ch < 128
  BY <1>3
<1> QED
  BY <1>1, <1>2, <1>4 DEF d

(* The count byte of no packet.                                            *)
NoCount(w, c, ch) ==
  \/ c.len < 1
  \/ ch % 64 = 0
  \/ samples_per_frame(ByteAt(w, 0), 48000) * (ch % 64) > MaxPacketSamples48k

(* ParseCode3, step by step.                                               *)
LEMMA Code3Steps ==
  ASSUME NEW w, NEW c, NEW ch, NEW sd
  PROVE  /\ NoCount(w, c, ch) => ParseCode3(w, c, ch, sd) = Fail(c)
         /\ ~NoCount(w, c, ch) => ParseCode3(w, c, ch, sd) =
              CutCode3(w, IF (ch \div 64) % 2 = 1 THEN SkipPadding(w, Counted(c, ch)) ELSE Counted(c, ch),
                       sd)
<1> DEFINE rest == CutCode3(w, IF (ch \div 64) % 2 = 1 THEN SkipPadding(w, Counted(c, ch))
                               ELSE Counted(c, ch), sd)
<1>1. ParseCode3(w, c, ch, sd) = IF NoCount(w, c, ch) THEN Fail(c) ELSE rest
  BY DEF ParseCode3, NoCount
<1> HIDE DEF rest
<1> QED
  BY <1>1 DEF rest

(* A packet of code 3.                                                     *)
LEMMA Code3Agree ==
  ASSUME NEW w, WireOK(w), WireLen(w) > 0
  PROVE  Agree(w, LastSize(w, ParseCode3(w, Cursor(w), ByteAt(w, 1), FALSE), FALSE),
               DecodeCode3(w, WireLen(w), ByteAt(w, 1)))
<1>1. PICK c : c = Cursor(w)
  OBVIOUS
<1>2. PICK n \in Nat : n = WireLen(w)
  BY BytesAre
<1>3. PICK ch \in 0 .. 255 : ch = ByteAt(w, 1)
  BY BytesAre
<1>4. PICK spf \in Nat : spf = samples_per_frame(ByteAt(w, 0), 48000)
  <2>1. ByteAt(w, 0) \in 0 .. 255
    BY BytesAre
  <2>2. samples_per_frame(ByteAt(w, 0), 48000) \in Nat
    BY <2>1, SamplesIs
  <2> QED
    BY <2>2
<1>5. PICK k \in 0 .. 63 : k = ch % 64
  OBVIOUS
<1>6. PICK p : p = ParseCode3(w, c, ch, FALSE)
  OBVIOUS
<1>7. PICK h : h = DecodeCode3(w, n, ch)
  OBVIOUS
<1>8. /\ IsCursor(c) /\ c.ok = TRUE /\ c.pos = 1 /\ c.len = n - 1 /\ c.sizes = <<>>
  BY <1>1, <1>2, CursorIs
<1>9. spf * k = k * spf /\ spf * k \in Nat
  OBVIOUS
<1>10. CASE n < 2 \/ k = 0 \/ spf * k > MaxPacketSamples48k
  <2>1. p = Fail(c)
    <3>1. c.len < 1 \/ k = 0 \/ spf * k > MaxPacketSamples48k
      BY <1>8, <1>10
    <3>2. c.len < 1 \/ ch % 64 = 0
             \/ samples_per_frame(ByteAt(w, 0), 48000) * (ch % 64) > MaxPacketSamples48k
      BY <1>4, <1>5, <3>1
    <3> QED
      <4>1. NoCount(w, c, ch)
        BY <3>2 DEF NoCount
      <4> QED
        BY <1>6, <4>1, Code3Steps
  <2>2. h = Reject
    <3>1. n < 2 \/ k \notin 1 .. MAX_FRAMES \/ k * spf > MaxPacketSamples48k
      BY <1>9, <1>10
    <3> QED
      BY <1>4, <1>5, <1>7, <3>1 DEF DecodeCode3
  <2> QED
    BY <1>1, <1>2, <1>3, <1>6, <1>7, <1>8, <2>1, <2>2, RefusedAgree
<1>11. CASE ~(n < 2 \/ k = 0 \/ spf * k > MaxPacketSamples48k)
  <2>1. n >= 2 /\ k \in 1 .. MAX_FRAMES
    <3>1. spf * k <= MaxPacketSamples48k
      BY <1>9, <1>11 DEF MaxPacketSamples48k
    <3>2. k <= MAX_FRAMES
      <4>1. ByteAt(w, 0) \in 0 .. 255 /\ k \in Nat
        BY BytesAre
      <4> QED
        BY <1>4, <3>1, <4>1, FewFrames
    <3> QED
      BY <1>11, <3>2 DEF MAX_FRAMES
  <2>2. PICK counted : counted = Counted(c, ch)
    OBVIOUS
  <2>20. /\ IsCursor(counted) /\ counted.ok = c.ok /\ counted.pos = 2 /\ counted.len = c.len - 1
         /\ counted.sizes = c.sizes /\ counted.count = ch % 64
         /\ counted.cbr <=> ch < 128
    <3>1. IsCursor(c) /\ c.len \in Int
      BY <1>8
    <3>2. LET d == Counted(c, ch) IN
         /\ IsCursor(d) /\ d.ok = c.ok /\ d.pos = 2 /\ d.len = c.len - 1 /\ d.last = c.last
         /\ d.sizes = c.sizes /\ d.count = ch % 64
         /\ d.cbr <=> ch < 128
      BY <3>1, CountedIs, Zenon
    <3> QED
      BY <2>2, <3>2, Zenon
  <2>3. /\ IsCursor(counted) /\ counted.ok = TRUE /\ counted.pos = 2 /\ counted.len = n - 2
        /\ counted.sizes = <<>>
    <3>3. counted.len = n - 2
      BY <1>8, <2>20
    <3> QED
      BY <1>8, <2>20, <3>3
  <2>4. (counted.cbr <=> ch < 128) /\ counted.count = ch % 64
    BY <2>20
  <2>5. (ch % 64) \in 1 .. MAX_FRAMES
    BY <1>5, <2>1
  <2>6. p = CutCode3(w, IF (ch \div 64) % 2 = 1 THEN SkipPadding(w, counted) ELSE counted, FALSE)
    <3>1. ~(c.len < 1 \/ ch % 64 = 0
             \/ samples_per_frame(ByteAt(w, 0), 48000) * (ch % 64) > MaxPacketSamples48k)
      <4>1. ~(c.len < 1)
        BY <1>8, <1>11
      <4>2. ch % 64 # 0
        BY <1>5, <1>11
      <4>3. ~(samples_per_frame(ByteAt(w, 0), 48000) * (ch % 64) > MaxPacketSamples48k)
        BY <1>4, <1>5, <1>11
      <4> QED
        BY <4>1, <4>2, <4>3
    <3> QED
      <4>1. ~NoCount(w, c, ch)
        BY <3>1 DEF NoCount
      <4> QED
        <5>1. ParseCode3(w, c, ch, FALSE) =
                CutCode3(w, IF (ch \div 64) % 2 = 1 THEN SkipPadding(w, Counted(c, ch)) ELSE Counted(c, ch),
                         FALSE)
          BY <4>1, Code3Steps, Zenon
        <5> QED
          BY <1>6, <2>2, <5>1, Zenon
  <2>7. h = IF (ch \div 64) % 2 = 1 THEN DecodePadding(w, ch, n, PadStop(w, 2))
            ELSE DecodeFramesIn(w, ch, 2, n)
    <3>1. ~(n < 2 \/ (ch % 64) \notin 1 .. MAX_FRAMES
             \/ (ch % 64) * samples_per_frame(ByteAt(w, 0), 48000) > MaxPacketSamples48k)
      BY <1>4, <1>5, <1>9, <1>11, <2>1
    <3> QED
      BY <1>7, <3>1 DEF DecodeCode3
  <2>8. CASE ~((ch \div 64) % 2 = 1)
    <3>1. p = CutCode3(w, counted, FALSE) /\ h = DecodeFramesIn(w, ch, 2, n)
      BY <2>6, <2>7, <2>8
    <3>2. Agree(w, LastSize(w, CutCode3(w, counted, FALSE), FALSE), DecodeFramesIn(w, ch, 2, n))
      <4>1. n \in Int /\ n <= WireLen(w) /\ 2 \in Nat
        BY <1>2
      <4>2. AtFrames(counted, ch, 2, n - 2)
        BY <2>3, <2>4, <2>5, Zenon DEF AtFrames
      <4> QED
        BY <4>1, <4>2, CutAgree
    <3> QED
      BY <1>1, <1>2, <1>3, <1>6, <1>7, <3>1, <3>2
  <2>9. CASE (ch \div 64) % 2 = 1
    <3>1. PICK start \in 2 .. n : start = PadStop(w, 2)
      BY <1>2, <2>1, PadStopIs
    <3>2. p = CutCode3(w, SkipTo(w, counted, start), FALSE) /\ h = DecodePadding(w, ch, n, start)
      BY <2>3, <2>6, <2>7, <2>9, <3>1 DEF SkipPadding
    <3>3. Agree(w, LastSize(w, CutCode3(w, SkipTo(w, counted, start), FALSE), FALSE),
                DecodePadding(w, ch, n, start))
      <4>1. AtFrames(counted, ch, 2, n - 2)
        BY <2>3, <2>4, <2>5, Zenon DEF AtFrames
      <4> QED
        BY <1>2, <4>1, SkipAgree
    <3> QED
      BY <1>1, <1>2, <1>3, <1>6, <1>7, <3>2, <3>3
  <2> QED
    BY <2>8, <2>9
<1> QED
  BY <1>10, <1>11

(* The steps of parse_frames, by code.                                     *)
LEMMA SizesByCode ==
  ASSUME NEW w, NEW c, NEW sd \in BOOLEAN
  PROVE  /\ Code(ByteAt(w, 0)) = 0 => ParseSizes(w, c, sd) = c
         /\ Code(ByteAt(w, 0)) = 1 /\ sd => ParseSizes(w, c, sd) = TwoEqual(c)
         /\ Code(ByteAt(w, 0)) = 1 /\ ~sd => ParseSizes(w, c, sd) = TakeEqual(TwoEqual(c))
         /\ Code(ByteAt(w, 0)) = 2 => ParseSizes(w, c, sd) = TakeSize(w, Two(c))
         /\ Code(ByteAt(w, 0)) = 3 => ParseSizes(w, c, sd) = ParseCode3(w, c, ByteAt(w, 1), sd)
<1> DEFINE code == Code(ByteAt(w, 0))
           p == ParseSizes(w, c, sd)
<1>1. p = CASE code = 0 -> c
            [] code = 1 -> IF sd THEN TwoEqual(c) ELSE TakeEqual(TwoEqual(c))
            [] code = 2 -> TakeSize(w, Two(c))
            [] code = 3 -> ParseCode3(w, c, ByteAt(w, 1), sd)
  BY DEF ParseSizes
<1> HIDE DEF code, p
<1>2. code = 0 => p = c
  BY <1>1
<1>3. code = 1 => p = IF sd THEN TwoEqual(c) ELSE TakeEqual(TwoEqual(c))
  BY <1>1
<1>4. code = 2 => p = TakeSize(w, Two(c))
  BY <1>1
<1>5. code = 3 => p = ParseCode3(w, c, ByteAt(w, 1), sd)
  BY <1>1
<1>6. (code = 1 /\ sd => p = TwoEqual(c)) /\ (code = 1 /\ ~sd => p = TakeEqual(TwoEqual(c)))
  BY <1>3
<1> QED
  BY <1>2, <1>4, <1>5, <1>6 DEF code, p

(* Those of the decoder.                                                   *)
LEMMA HeaderByCode ==
  ASSUME NEW w, NEW n
  PROVE  /\ Code(ByteAt(w, 0)) = 0 => DecodeHeader(w, n) = EqualFrames(1, n, 1)
         /\ Code(ByteAt(w, 0)) = 1 => DecodeHeader(w, n) = EqualFrames(1, n, 2)
         /\ Code(ByteAt(w, 0)) = 2 => DecodeHeader(w, n) = WithRemainder(ReadLens(w, 1, n, 1), n)
         /\ Code(ByteAt(w, 0)) = 3 => DecodeHeader(w, n) = DecodeCode3(w, n, ByteAt(w, 1))
<1> DEFINE code == Code(ByteAt(w, 0))
           p == DecodeHeader(w, n)
<1>1. p = CASE code = 0 -> EqualFrames(1, n, 1)
            [] code = 1 -> EqualFrames(1, n, 2)
            [] code = 2 -> WithRemainder(ReadLens(w, 1, n, 1), n)
            [] code = 3 -> DecodeCode3(w, n, ByteAt(w, 1))
  BY DEF DecodeHeader
<1> HIDE DEF code, p
<1>2. /\ code = 0 => p = EqualFrames(1, n, 1)
      /\ code = 1 => p = EqualFrames(1, n, 2)
      /\ code = 2 => p = WithRemainder(ReadLens(w, 1, n, 1), n)
      /\ code = 3 => p = DecodeCode3(w, n, ByteAt(w, 1))
  BY <1>1
<1> QED
  BY <1>2 DEF code, p

(* A TOC byte has one of four codes.                                       *)
LEMMA CodeIs ==
  ASSUME NEW w, WireOK(w)
  PROVE  Code(ByteAt(w, 0)) \in 0 .. 3
<1>1. ByteAt(w, 0) \in 0 .. 255
  BY BytesAre
<1> QED
  BY <1>1 DEF Code

(* A cursor whose packet is of two frames.                                 *)
LEMMA TwoIs ==
  ASSUME NEW c, IsCursor(c)
  PROVE  /\ IsCursor(Two(c)) /\ Two(c).ok = c.ok /\ Two(c).pos = c.pos /\ Two(c).len = c.len
         /\ Two(c).last = c.last /\ Two(c).sizes = c.sizes /\ Two(c).count = 2 /\ Two(c).cbr = c.cbr
         /\ IsCursor(TwoEqual(c)) /\ TwoEqual(c).ok = c.ok /\ TwoEqual(c).pos = c.pos
         /\ TwoEqual(c).len = c.len /\ TwoEqual(c).last = c.last /\ TwoEqual(c).sizes = c.sizes
         /\ TwoEqual(c).count = 2 /\ TwoEqual(c).cbr = TRUE
  BY DEF IsCursor, CursorFields, Two, TwoEqual

(* The two parsers agree on every packet.                                  *)
LEMMA CutAlike ==
  ASSUME NEW w, WireOK(w), WireLen(w) > 0
  PROVE  Agree(w, LastSize(w, ParseSizes(w, Cursor(w), FALSE), FALSE), DecodeHeader(w, WireLen(w)))
<1>1. PICK c : c = Cursor(w)
  OBVIOUS
<1>2. PICK n \in Nat : n = WireLen(w)
  BY BytesAre
<1>3. PICK p : p = ParseSizes(w, c, FALSE)
  OBVIOUS
<1>4. PICK h : h = DecodeHeader(w, n)
  OBVIOUS
<1>5. /\ IsCursor(c) /\ c.ok = TRUE /\ c.pos = 1 /\ c.len = n - 1 /\ c.last = n - 1
      /\ c.sizes = <<>> /\ c.count = 1 /\ n >= 1
  <2>1. /\ IsCursor(c) /\ c.ok = TRUE /\ c.pos = 1 /\ c.len = n - 1 /\ c.last = n - 1
        /\ c.sizes = <<>> /\ c.count = 1
    BY <1>1, <1>2, CursorIs, Zenon
  <2>2. n >= 1
    BY <1>2
  <2> QED
    BY <2>1, <2>2
<1>6. 1 \in Nat /\ n \in Int /\ n <= WireLen(w) /\ 1 <= n /\ 1 \in 1 .. MAX_FRAMES /\ 2 \in 1 .. MAX_FRAMES
  BY <1>2, <1>5 DEF MAX_FRAMES
<1> SUFFICES Agree(w, LastSize(w, p, FALSE), h)
  BY <1>1, <1>2, <1>3, <1>4
<1>7. CASE Code(ByteAt(w, 0)) = 0
  <2>1. p = c /\ h = EqualFrames(1, n, 1)
    BY <1>3, <1>4, <1>7, SizesByCode, HeaderByCode, Zenon
  <2>2. TakeEqual(c) = c
    <3>1. c.len % 1 = 0 /\ c.len \div 1 = c.last /\ [i \in 1 .. 0 |-> c.len \div 1] = <<>>
      <4>1. \A len \in Int : len % 1 = 0 /\ len \div 1 = len
        OBVIOUS
      <4>2. c.len \in Int /\ c.len = c.last
        BY <1>5
      <4> QED
        BY <4>1, <4>2
    <3>2. TakeEqual(c) = [c EXCEPT !.last = c.len \div 1, !.sizes = [i \in 1 .. (1 - 1) |-> c.len \div 1]]
      BY <1>5, <3>1 DEF TakeEqual
    <3>3. [i \in 1 .. (1 - 1) |-> c.len \div 1] = c.sizes /\ c.len \div 1 = c.last
      BY <1>5, <3>1
    <3>4. [c EXCEPT !.last = c.last, !.sizes = c.sizes] = c
      BY <1>5 DEF IsCursor, CursorFields
    <3> QED
      BY <3>2, <3>3, <3>4
  <2>3. Agree(w, LastSize(w, TakeEqual(c), FALSE), EqualFrames(1, n, 1))
    BY <1>5, <1>6, EqualAgree
  <2> QED
    BY <2>1, <2>2, <2>3
<1>8. CASE Code(ByteAt(w, 0)) = 1
  <2>1. PICK d : d = TwoEqual(c)
    OBVIOUS
  <2>2. p = TakeEqual(d) /\ h = EqualFrames(1, n, 2)
    <3>1. ParseSizes(w, c, FALSE) = TakeEqual(d)
      BY <1>8, <2>1, SizesByCode
    <3>2. DecodeHeader(w, n) = EqualFrames(1, n, 2)
      BY <1>8, HeaderByCode
    <3> QED
      BY <1>3, <1>4, <3>1, <3>2
  <2>3. IsCursor(d) /\ d.ok = TRUE /\ d.pos = 1 /\ d.len = n - 1 /\ d.count = 2
    BY <1>5, <2>1, TwoIs
  <2>4. Agree(w, LastSize(w, TakeEqual(d), FALSE), EqualFrames(1, n, 2))
    BY <1>6, <2>3, EqualAgree
  <2> QED
    BY <2>2, <2>4
<1>9. CASE Code(ByteAt(w, 0)) = 2
  <2>1. PICK d : d = Two(c)
    OBVIOUS
  <2>2. p = TakeSize(w, d) /\ h = WithRemainder(ReadLens(w, 1, n, 1), n)
    <3>1. ParseSizes(w, c, FALSE) = TakeSize(w, d)
      BY <1>9, <2>1, SizesByCode
    <3>2. DecodeHeader(w, n) = WithRemainder(ReadLens(w, 1, n, 1), n)
      BY <1>9, HeaderByCode
    <3> QED
      BY <1>3, <1>4, <3>1, <3>2
  <2>3. IsCursor(d) /\ d.ok = TRUE /\ d.pos = 1 /\ d.len = n - 1 /\ d.last = n - 1 /\ d.sizes = <<>>
    BY <1>5, <2>1, TwoIs
  <2>4. InStep(d, NoneRead(1), n, 0)
    BY <1>6, <2>3, StartInStep
  <2>5. TakeSizes(w, d, 1) = TakeSize(w, d)
    <3>1. PICK f : /\ f[0] = d /\ TakeSizes(w, d, 1) = f[1]
                   /\ \A i \in Nat : i < 1 => f[i + 1] = TakeNext(w, f[i])
      BY TakesUnfold
    <3>2. 0 \in Nat /\ 0 < 1 /\ 0 + 1 = 1
      OBVIOUS
    <3>3. f[1] = TakeNext(w, d)
      BY <3>1, <3>2
    <3> QED
      BY <2>3, <3>1, <3>3 DEF TakeNext
  <2>6. InStep(TakeSizes(w, d, 1), ReadLens(w, 1, n, 1), n, 1)
    BY <1>6, <2>4, SizesInStep
  <2>7. InStep(p, ReadLens(w, 1, n, 1), n, 1)
    BY <2>2, <2>5, <2>6
  <2>8. IsCursor(p) /\ p.ok \in BOOLEAN
    BY <2>7 DEF InStep
  <2>9. p.ok => p.last >= 0
    <3>1. PICK s : s = SizeAt(w, 1)
      OBVIOUS
    <3>2. p = TakeSizeAs(d, s)
      BY <2>2, <2>3, <3>1 DEF TakeSize
    <3>3. s.bytes \in {-1, 1, 2} /\ (s.bytes # -1 => s.size \in Nat)
      BY <1>6, <3>1, SizeAtIs
    <3>4. CASE s.bytes = -1
      <4>1. s.bytes < 0
        BY <3>4
      <4>2. p = Fail(d)
        BY <3>2, <4>1 DEF TakeSizeAs
      <4>3. p.ok = FALSE
        BY <2>3, <4>2, FailIs
      <4> QED
        BY <4>3
    <3>5. CASE s.bytes # -1
      <4>1. s.bytes \in Int /\ s.size \in Int /\ d.len \in Int /\ ~(s.bytes < 0)
        BY <2>3, <3>3, <3>5
      <4>2. /\ s.size > d.len - s.bytes => p.ok = FALSE
            /\ ~(s.size > d.len - s.bytes) => p.last = d.last - s.bytes - s.size
        BY <2>3, <3>2, <4>1, TakeSizeIs
      <4>3. ~(s.size > d.len - s.bytes) => d.last - s.bytes - s.size >= 0
        BY <2>3, <4>1
      <4> QED
        BY <4>2, <4>3
    <3> QED
      BY <3>4, <3>5
  <2>10. Agree(w, LastSize(w, p, FALSE), WithRemainder(ReadLens(w, 1, n, 1), n))
    <3>1. 1 \in 0 .. (MAX_FRAMES - 1)
      BY DEF MAX_FRAMES
    <3>2. p.ok <=> p.ok /\ p.last >= 0
      BY <2>9
    <3> QED
      BY <1>6, <2>7, <2>8, <3>1, <3>2, RestAgree
  <2> QED
    BY <2>2, <2>10
<1>10. CASE Code(ByteAt(w, 0)) = 3
  <2>1. p = ParseCode3(w, c, ByteAt(w, 1), FALSE) /\ h = DecodeCode3(w, n, ByteAt(w, 1))
    BY <1>3, <1>4, <1>10, SizesByCode, HeaderByCode
  <2> QED
    BY <1>1, <1>2, <2>1, Code3Agree
<1> QED
  <2>1. Code(ByteAt(w, 0)) \in 0 .. 3
    BY CodeIs
  <2>2. Code(ByteAt(w, 0)) \in {0, 1, 2, 3}
    BY <2>1
  <2> QED
    BY <1>7, <1>8, <1>9, <1>10, <2>2

(* So they accept the same packets and cut them alike.                     *)
LEMMA SameCuts ==
  ASSUME NEW w, WireOK(w), WireLen(w) > 0
  PROVE  SameCut(DecodeParse(w), parse_frames(w, FALSE))
<1>1. PICK c : c = LastSize(w, ParseSizes(w, Cursor(w), FALSE), FALSE)
  OBVIOUS
<1>2. PICK h : h = DecodeHeader(w, WireLen(w))
  OBVIOUS
<1>3. SameCut(Playable(h), Cut(w, c))
  BY <1>1, <1>2, CutAlike, AgreeCuts
<1> QED
  BY <1>1, <1>2, <1>3 DEF DecodeParse, parse_frames

(***************************************************************************)
(* What write_range writes.                                                *)
(***************************************************************************)
(* Bytes at a place of the head.                                           *)
Holds(w, pos, bytes) ==
  /\ pos + Len(bytes) <= Len(w.head)
  /\ \A i \in 1 .. Len(bytes) : w.head[pos + i] = bytes[i]

(* A byte of a field that a head holds.                                    *)
LEMMA HoldsByte ==
  ASSUME NEW w, NEW pos \in Nat, NEW bytes, Len(bytes) \in Nat, Len(w.head) \in Nat,
         Holds(w, pos, bytes), NEW i \in 1 .. Len(bytes)
  PROVE  ByteAt(w, pos + i - 1) = bytes[i]
<1>1. pos + i - 1 < Len(w.head) /\ (pos + i - 1) + 1 = pos + i
  BY DEF Holds
<1>2. w.head[pos + i] = bytes[i]
  BY DEF Holds
<1> QED
  BY <1>1, <1>2 DEF ByteAt

(* A head that holds two fields holds each where it lies.                  *)
LEMMA HoldsParts ==
  ASSUME NEW w, NEW pos \in Nat, NEW S, NEW a \in Seq(S), NEW b \in Seq(S), Len(w.head) \in Nat,
         Holds(w, pos, a \o b)
  PROVE  Holds(w, pos, a) /\ Holds(w, pos + Len(a), b)
<1>1. /\ Len(a \o b) = Len(a) + Len(b) /\ Len(a) \in Nat /\ Len(b) \in Nat
      /\ \A i \in 1 .. Len(a) : (a \o b)[i] = a[i]
      /\ \A i \in 1 .. Len(b) : (a \o b)[Len(a) + i] = b[i]
  OBVIOUS
<1> DEFINE ab == a \o b
<1>2. Holds(w, pos, ab) /\ Len(ab) = Len(a) + Len(b)
  BY <1>1
<1>3. \A i \in 1 .. Len(a) : ab[i] = a[i]
  BY <1>1
<1>4. \A i \in 1 .. Len(b) : ab[Len(a) + i] = b[i]
  BY <1>1
<1> HIDE DEF ab
<1>5. pos + Len(a) <= Len(w.head) /\ (pos + Len(a)) + Len(b) <= Len(w.head)
  BY <1>1, <1>2 DEF Holds
<1>6. ASSUME NEW i \in 1 .. Len(a) PROVE w.head[pos + i] = a[i]
  <2>1. i \in 1 .. Len(ab)
    BY <1>1, <1>2
  <2> QED
    BY <1>2, <1>3, <2>1 DEF Holds
<1>7. ASSUME NEW i \in 1 .. Len(b) PROVE w.head[(pos + Len(a)) + i] = b[i]
  <2>1. Len(a) + i \in 1 .. Len(ab) /\ pos + (Len(a) + i) = (pos + Len(a)) + i
    BY <1>1, <1>2
  <2> QED
    BY <1>2, <1>4, <2>1 DEF Holds
<1> QED
  BY <1>5, <1>6, <1>7 DEF Holds

(* A head holds itself.                                                    *)
LEMMA HoldsHead ==
  ASSUME NEW w, NEW S, w.head \in Seq(S)
  PROVE  Holds(w, 0, w.head)
  BY DEF Holds

(* A size written is the size read.                                        *)
LEMMA PutSizeIs ==
  ASSUME NEW size \in 0 .. MaxFrameBytes
  PROVE  /\ put_size(size) \in Seq(0 .. 255) /\ Len(put_size(size)) = FieldLen(size)
         /\ FieldLen(size) \in {1, 2}
         /\ size < 252 => FieldLen(size) = 1 /\ put_size(size)[1] = size
         /\ size >= 252 => /\ FieldLen(size) = 2 /\ put_size(size)[1] \in 252 .. 255
                           /\ put_size(size)[2] \in 0 .. 255
                           /\ put_size(size)[2] * 4 + put_size(size)[1] = size
<1>1. size \in Nat /\ size <= 1275
  BY DEF MaxFrameBytes
<1>2. CASE size < 252
  <2>1. put_size(size) = <<size>> /\ FieldLen(size) = 1
    BY <1>2 DEF put_size, FieldLen
  <2>2. size \in 0 .. 255 /\ ~(size >= 252)
    BY <1>1, <1>2
  <2>3. <<size>> \in Seq(0 .. 255) /\ Len(<<size>>) = 1 /\ <<size>>[1] = size
    BY <2>2
  <2> QED
    BY <1>2, <2>1, <2>2, <2>3
<1>3. CASE ~(size < 252)
  <2> DEFINE b0 == 252 + (size % 4)
             b1 == ((size - b0) \div 4) % 256
  <2>1. put_size(size) = <<b0, b1>> /\ FieldLen(size) = 2
    BY <1>3 DEF put_size, FieldLen
  <2>2. b0 \in 252 .. 255 /\ b1 \in 0 .. 255 /\ b1 * 4 + b0 = size
    <3>1. PICK r \in 0 .. 3 : r = size % 4
      BY <1>1
    <3>2. PICK q \in Nat : size = 4 * q + r
      BY <1>1, <3>1
    <3>3. b0 = 252 + r /\ size - b0 = 4 * (q - 63)
      BY <1>1, <3>1, <3>2
    <3>4. q - 63 \in 0 .. 255
      BY <1>1, <1>3, <3>2
    <3>5. (4 * (q - 63)) \div 4 = q - 63
      BY <3>4
    <3>6. b1 = q - 63
      BY <3>3, <3>4, <3>5
    <3> QED
      BY <3>2, <3>3, <3>4, <3>6
  <2> HIDE DEF b0, b1
  <2>3. <<b0, b1>> \in Seq(0 .. 255) /\ Len(<<b0, b1>>) = 2 /\ <<b0, b1>>[1] = b0 /\ <<b0, b1>>[2] = b1
    <3>1. b0 \in 0 .. 255 /\ b1 \in 0 .. 255
      BY <2>2
    <3> QED
      BY <3>1
  <2> QED
    BY <1>3, <2>1, <2>2, <2>3
<1> QED
  BY <1>2, <1>3

(* What put_size wrote is what parse_size reads.                           *)
LEMMA SizeReadBack ==
  ASSUME NEW w, WireOK(w), NEW pos \in Nat, NEW size \in 0 .. MaxFrameBytes,
         Holds(w, pos, put_size(size))
  PROVE  SizeAt(w, pos).bytes = FieldLen(size) /\ SizeAt(w, pos).size = size
<1> DEFINE b0 == ByteAt(w, pos)
           b1 == ByteAt(w, pos + 1)
           p == put_size(size)
           f == FieldLen(size)
           avail == WireLen(w) - pos
           s == parse_size(w, pos, avail)
<1>1. /\ p \in Seq(0 .. 255) /\ Len(p) = f /\ f \in {1, 2}
      /\ size < 252 => f = 1 /\ p[1] = size
      /\ size >= 252 => /\ f = 2 /\ p[1] \in 252 .. 255 /\ p[2] \in 0 .. 255
                        /\ p[2] * 4 + p[1] = size
  BY PutSizeIs
<1>2. Len(w.head) \in Nat /\ WireLen(w) \in Nat /\ SumLens(w.body) \in Nat
      /\ WireLen(w) >= Len(w.head) + SumLens(w.body)
  BY BytesAre
<1>3. avail >= f /\ avail \in Int
  <2>1. pos + f <= Len(w.head)
    BY <1>1 DEF Holds
  <2> HIDE DEF f
  <2> QED
    BY <1>1, <1>2, <2>1
<1>4. s = SizeAt(w, pos)
  BY DEF SizeAt
<1>5. /\ s.bytes \in {-1, 1, 2}
      /\ s.bytes = -1 <=> avail <= 0 \/ (b0 >= 252 /\ avail < 2)
      /\ s.bytes = 1 <=> avail > 0 /\ b0 < 252
      /\ s.bytes = 2 <=> avail >= 2 /\ b0 >= 252
      /\ s.bytes # -1 => s.size = SizeOf(b0, b1)
  <2> HIDE DEF avail
  <2> QED
    BY <1>3, SizeIs
<1> HIDE DEF p, f, avail, s
<1>6. b0 = p[1]
  <2>1. 1 \in 1 .. Len(p) /\ Len(p) \in Nat /\ pos + 1 - 1 = pos
    BY <1>1
  <2>2. ByteAt(w, pos + 1 - 1) = p[1]
    BY <1>2, <2>1, HoldsByte DEF p
  <2> QED
    BY <2>1, <2>2
<1>7. size >= 252 => b1 = p[2]
  <2> SUFFICES ASSUME size >= 252 PROVE b1 = p[2]
    OBVIOUS
  <2>1. 2 \in 1 .. Len(p) /\ Len(p) \in Nat /\ pos + 2 - 1 = pos + 1
    BY <1>1
  <2>2. ByteAt(w, pos + 2 - 1) = p[2]
    BY <1>2, <2>1, HoldsByte DEF p
  <2> QED
    BY <2>1, <2>2
<1> HIDE DEF b0, b1
<1>8. size \in Nat
  BY DEF MaxFrameBytes
<1>9. CASE size < 252
  <2>1. b0 = size /\ f = 1
    BY <1>1, <1>6, <1>9
  <2>2. s.bytes = 1 /\ SizeOf(b0, b1) = size
    BY <1>3, <1>5, <1>8, <1>9, <2>1 DEF SizeOf
  <2>3. s.size = size
    BY <1>5, <2>2
  <2> QED
    BY <1>4, <2>1, <2>2, <2>3 DEF f
<1>10. CASE ~(size < 252)
  <2>1. size >= 252
    BY <1>8, <1>10
  <2>2. b0 \in 252 .. 255 /\ b1 * 4 + b0 = size /\ f = 2
    BY <1>1, <1>6, <1>7, <2>1
  <2>3. s.bytes = 2 /\ SizeOf(b0, b1) = size
    BY <1>3, <1>5, <2>2 DEF SizeOf
  <2>4. s.size = size
    BY <1>5, <2>3
  <2> QED
    BY <1>4, <2>2, <2>3, <2>4 DEF f
<1> QED
  BY <1>9, <1>10

(* Equal frames divide their sum.                                          *)
LEMMA DivExact ==
  ASSUME NEW n \in Nat \ {0}, NEW size \in Nat
  PROVE  (n * size) \div n = size /\ (n * size) % n = 0
<1> DEFINE a == n * size
           q == a \div n
           r == a % n
<1>1. a \in Nat
  OBVIOUS
<1>2. q \in Nat /\ r \in 0 .. (n - 1) /\ a = n * q + r
  <2> HIDE DEF a
  <2> QED
    BY <1>1, Quotient
<1>3. PICK d \in Int : d = size - q
  BY <1>2
<1>4. n * d = r
  <2>1. n * size = n * q + r
    BY <1>2
  <2>2. q \in Int /\ r \in Int
    BY <1>2
  <2> HIDE DEF q, r
  <2>3. size = q + d
    BY <1>3, <2>2
  <2>4. n * (q + d) = n * q + n * d
    BY <2>2
  <2>5. n * q \in Int /\ n * d \in Int
    BY <2>2
  <2> QED
    BY <2>1, <2>2, <2>3, <2>4, <2>5
<1> HIDE DEF q, r
<1>5. ~(d >= 1)
  <2> SUFFICES ASSUME d >= 1 PROVE FALSE
    OBVIOUS
  <2>1. n * d >= n
    BY <1>3
  <2> QED
    BY <1>2, <1>4, <2>1
<1>6. ~(d <= -1)
  <2> SUFFICES ASSUME d <= -1 PROVE FALSE
    OBVIOUS
  <2>1. n * d <= -n
    BY <1>3
  <2> QED
    BY <1>2, <1>4, <2>1
<1>7. d = 0
  BY <1>5, <1>6
<1>8. q = size /\ r = 0
  BY <1>2, <1>3, <1>4, <1>7
<1> QED
  BY <1>8 DEF q, r

(* A TOC byte with another code: the same configuration.                   *)
LEMMA TocIs ==
  ASSUME NEW toc \in 0 .. 255, NEW c \in 0 .. 3
  PROVE  /\ WithCode(toc, c) \in 0 .. 255 /\ Code(WithCode(toc, c)) = c
         /\ \A fs : samples_per_frame(WithCode(toc, c), fs) = samples_per_frame(toc, fs)
<1>1. PICK t \in Int : t = WithCode(toc, c)
  BY DEF WithCode, Code
<1>2. t = toc - (toc % 4) + c
  BY <1>1 DEF WithCode, Code
<1>3. /\ t \in 0 .. 255 /\ t % 4 = c /\ t \div 8 = toc \div 8 /\ t \div 32 = toc \div 32
      /\ t >= 128 <=> toc >= 128
  <2>1. PICK b \in 0 .. 3 : b = toc % 4
    OBVIOUS
  <2>2. PICK q \in 0 .. 63 : toc = 4 * q + b
    BY <2>1
  <2>3. PICK e \in 0 .. 1, h \in 0 .. 31 : q = 2 * h + e
    <3>1. q = 2 * (q \div 2) + (q % 2) /\ q % 2 \in 0 .. 1 /\ q \div 2 \in 0 .. 31
      OBVIOUS
    <3> QED
      BY <3>1
  <2>4. PICK f \in 0 .. 3, g \in 0 .. 7 : h = 4 * g + f
    <3>1. h = 4 * (h \div 4) + (h % 4) /\ h % 4 \in 0 .. 3 /\ h \div 4 \in 0 .. 7
      OBVIOUS
    <3> QED
      BY <3>1
  <2>5. toc = 32 * g + 8 * f + 4 * e + b /\ t = 32 * g + 8 * f + 4 * e + c
    BY <1>2, <2>1, <2>2, <2>3, <2>4
  <2>6. t \in 0 .. 255 /\ (t >= 128 <=> toc >= 128)
    BY <2>5
  <2>7. t % 4 = c
    BY <2>5
  <2>8. t \div 8 = 4 * g + f /\ toc \div 8 = 4 * g + f
    BY <2>5
  <2>9. t \div 32 = g /\ toc \div 32 = g
    BY <2>5
  <2> QED
    BY <2>6, <2>7, <2>8, <2>9
<1>4. ASSUME NEW fs PROVE samples_per_frame(t, fs) = samples_per_frame(toc, fs)
  <2> DEFINE a == (toc \div 8) % 4
             doubled == <<1, 2, 4, 8>>[a + 1]
  <2>1. samples_per_frame(toc, fs) =
          IF toc >= 128 THEN (fs * doubled) \div 400
          ELSE IF (toc \div 32) % 4 = 3 THEN (IF a % 2 = 1 THEN fs \div 50 ELSE fs \div 100)
          ELSE IF a = 3 THEN (fs * 60) \div 1000 ELSE (fs * doubled) \div 100
    BY DEF samples_per_frame
  <2>2. samples_per_frame(t, fs) =
          IF t >= 128 THEN (fs * doubled) \div 400
          ELSE IF (toc \div 32) % 4 = 3 THEN (IF a % 2 = 1 THEN fs \div 50 ELSE fs \div 100)
          ELSE IF a = 3 THEN (fs * 60) \div 1000 ELSE (fs * doubled) \div 100
    BY <1>3 DEF samples_per_frame
  <2> HIDE DEF a, doubled
  <2> QED
    BY <1>3, <2>1, <2>2
<1> QED
  BY <1>1, <1>3, <1>4 DEF Code

(* The first byte that is not 255 ends the length of the padding.          *)
LEMMA PadStopAt ==
  ASSUME NEW w, WireOK(w), NEW pos \in Nat, NEW k \in Nat, pos <= k, k <= WireLen(w),
         \A j \in pos .. (k - 1) : ByteAt(w, j) = 255, ByteAt(w, k) # 255
  PROVE  PadStop(w, pos) = k
<1>0. WireLen(w) \in Nat /\ pos <= WireLen(w)
  BY BytesAre
<1>1. PICK s \in pos .. WireLen(w) : s = PadStop(w, pos)
  BY <1>0, PadStopIs
<1>2. /\ \A j \in pos .. (s - 1) : ByteAt(w, j) = 255
      /\ ByteAt(w, s) # 255 \/ s = WireLen(w)
  BY <1>0, <1>1, PadStopIs
<1>3. ~(s < k)
  <2> SUFFICES ASSUME s < k PROVE FALSE
    OBVIOUS
  <2>1. s \in pos .. (k - 1) /\ s # WireLen(w)
    BY <1>0
  <2> QED
    BY <1>2, <2>1
<1>4. ~(k < s)
  <2> SUFFICES ASSUME k < s PROVE FALSE
    OBVIOUS
  <2>1. k \in pos .. (s - 1)
    BY <1>0
  <2> QED
    BY <1>2, <2>1
<1>5. s = k
  BY <1>0, <1>3, <1>4
<1> QED
  BY <1>1, <1>5

(* Frames a repacketizer holds: of a size a packet can carry, nothing      *)
(* told apart in an empty one.                                             *)
HeldFrames(fs) ==
  /\ FramesOK(fs)
  /\ \A i \in 1 .. Len(fs) : fs[i].len \in 0 .. MaxFrameBytes /\ (fs[i].len = 0 => fs[i].id = Junk)

(* Ranges that lie where the frames do hold the frames.                    *)
LEMMA ContentsAre ==
  ASSUME NEW w, NEW fs, w.body = fs, HeldFrames(fs), Len(w.head) \in Nat,
         NEW parsed, parsed.ranges = RangesFrom(Len(w.head), Lens(fs))
  PROVE  Contents(w, parsed) = fs
<1> DEFINE n == Len(fs)
           off(i) == Len(w.head) + SumTo(Lens(fs), i - 1)
<1>1. /\ n \in Nat /\ DOMAIN fs = 1 .. n /\ fs = [i \in 1 .. n |-> fs[i]]
      /\ \A i \in 1 .. n : Lens(fs)[i] = fs[i].len /\ fs[i].len \in Nat
  <2>1. fs \in Seq(Elements(fs))
    BY FramesLog DEF HeldFrames, Log
  <2>2. n \in Nat /\ DOMAIN fs = 1 .. n /\ fs = [i \in 1 .. n |-> fs[i]]
    BY <2>1
  <2> QED
    BY <2>2, LensAre DEF HeldFrames
<1>2. DOMAIN Lens(fs) = 1 .. n
  BY <1>1 DEF Lens
<1>3. /\ DOMAIN parsed.ranges = 1 .. n
      /\ \A i \in 1 .. n : parsed.ranges[i] = [off |-> off(i), len |-> fs[i].len]
  BY <1>1, <1>2 DEF RangesFrom
<1>4. \A i \in 1 .. n : BodyOffset(w, i) = off(i)
  BY DEF BodyOffset
<1>5. \A i, j \in 1 .. n : i < j => off(i) + fs[i].len <= off(j) /\ off(i) \in Nat /\ off(j) \in Nat
  <2> TAKE i, j \in 1 .. n
  <2> HAVE i < j
  <2>1. j - 1 \in Nat /\ i \in 1 .. (j - 1) /\ \A m \in 1 .. (j - 1) : Lens(fs)[m] \in Nat
    BY <1>1
  <2>2. /\ SumTo(Lens(fs), j - 1) \in Nat
        /\ \A m \in 0 .. (j - 1) : SumTo(Lens(fs), m) \in Nat
        /\ \A m \in 1 .. (j - 1) : SumTo(Lens(fs), m - 1) + Lens(fs)[m] <= SumTo(Lens(fs), j - 1)
    BY <2>1, SumGrows
  <2>3. SumTo(Lens(fs), i - 1) + fs[i].len <= SumTo(Lens(fs), j - 1) /\ SumTo(Lens(fs), i - 1) \in Nat
    BY <1>1, <2>1, <2>2
  <2> QED
    BY <1>1, <2>2, <2>3
<1> HIDE DEF off, n
<1>6. ASSUME NEW i \in 1 .. n
      PROVE  ContentAt(w, off(i), fs[i].len) = fs[i]
  <2> DEFINE hits == {j \in DOMAIN w.body : w.body[j].len = fs[i].len /\ BodyOffset(w, j) = off(i)}
  <2>1. ContentAt(w, off(i), fs[i].len) =
          IF fs[i].len # 0 /\ hits # {} THEN w.body[CHOOSE j \in hits : TRUE]
          ELSE [id |-> Junk, len |-> fs[i].len]
    BY DEF ContentAt
  <2>2. i \in hits
    BY <1>1, <1>4
  <2>3. ASSUME fs[i].len # 0, NEW j \in hits PROVE j = i
    <3>1. j \in 1 .. n /\ off(j) = off(i) /\ fs[j].len = fs[i].len
      BY <1>1, <1>4
    <3>0. fs[i].len \in Nat /\ n \in Nat
      BY <1>1
    <3>2. fs[i].len \in Nat /\ fs[i].len > 0 /\ n \in Nat
      BY <2>3, <3>0
    <3>3. ~(i < j)
      BY <1>5, <3>1, <3>2
    <3>4. ~(j < i)
      BY <1>5, <3>1, <3>2
    <3> QED
      BY <3>1, <3>2, <3>3, <3>4
  <2>4. CASE fs[i].len # 0
    <3> HIDE DEF hits
    <3>1. (CHOOSE j \in hits : TRUE) \in hits
      BY <2>2
    <3>2. (CHOOSE j \in hits : TRUE) = i
      BY <2>3, <2>4, <3>1
    <3>3. hits # {}
      BY <2>2
    <3> QED
      BY <2>1, <2>4, <3>2, <3>3
  <2>5. CASE fs[i].len = 0
    <3>1. fs[i] = [id |-> Junk, len |-> 0]
      BY <2>5 DEF HeldFrames, FramesOK, FrameOK, n
    <3> QED
      BY <2>1, <2>5, <3>1
  <2> QED
    BY <2>4, <2>5
<1>7. Contents(w, parsed) = [i \in 1 .. n |-> fs[i]]
  <2> DEFINE rs == parsed.ranges
  <2>1. DOMAIN rs = 1 .. n
    BY <1>3
  <2>2. ASSUME NEW i \in 1 .. n PROVE ContentAt(w, rs[i].off, rs[i].len) = fs[i]
    <3>1. rs[i].off = off(i) /\ rs[i].len = fs[i].len
      <4>1. rs[i] = [off |-> off(i), len |-> fs[i].len]
        BY <1>3
      <4> HIDE DEF rs
      <4> QED
        BY <4>1
    <3> QED
      BY <1>6, <3>1
  <2>3. Contents(w, parsed) = [i \in DOMAIN rs |-> ContentAt(w, rs[i].off, rs[i].len)]
    BY DEF Contents
  <2> HIDE DEF rs
  <2> QED
    BY <2>1, <2>2, <2>3
<1> QED
  BY <1>1, <1>7

(***************************************************************************)
(* The size fields, written and read back.                                 *)
(***************************************************************************)
FieldLens(fs) == [i \in DOMAIN fs |-> FieldLen(fs[i].len)]

(* The fields so far, and that of frame i.                                 *)
Grown(fs, fields, i) == fields \o put_size(fs[i].len)

(* The loop of write_range over the sizes, unfolded.                       *)
LEMMA FieldsExist ==
  ASSUME NEW fs
  PROVE  \A n \in Nat :
           \E f : f = [i \in 0 .. n |-> IF i = 0 THEN <<>> ELSE Grown(fs, f[i - 1], i)]
<1> DEFINE U(f, n) == f = [i \in 0 .. n |-> IF i = 0 THEN <<>> ELSE Grown(fs, f[i - 1], i)]
           T == {n \in Nat : \E f : U(f, n)}
<1>1. 0 \in T
  <2> DEFINE g == [i \in 0 .. 0 |-> <<>>]
  <2>1. U(g, 0)
    OBVIOUS
  <2> QED
    BY <2>1
<1>2. ASSUME NEW n \in Nat, n \in T
      PROVE  n + 1 \in T
  <2>1. PICK f : U(f, n)
    BY <1>2
  <2> DEFINE g == [i \in 0 .. n + 1 |-> IF i = n + 1 THEN Grown(fs, f[n], n + 1) ELSE f[i]]
  <2>2. ASSUME NEW i \in 0 .. n + 1
        PROVE  g[i] = IF i = 0 THEN <<>> ELSE Grown(fs, g[i - 1], i)
    <3>1. CASE i = n + 1
      BY <3>1
    <3>2. CASE i = 0
      BY <3>2, <2>1
    <3>3. CASE i \in 1 .. n
      <4>1. i - 1 \in 0 .. n + 1 /\ g[i - 1] = f[i - 1] /\ g[i] = f[i]
        BY <3>3
      <4>2. f[i] = Grown(fs, f[i - 1], i)
        BY <3>3, <2>1
      <4> QED
        BY <4>1, <4>2, <3>3
    <3> QED
      BY <3>1, <3>2, <3>3
  <2>3. U(g, n + 1)
    BY <2>2
  <2> HIDE DEF g
  <2> QED
    BY <2>3
<1> HIDE DEF T
<1>3. T = Nat
  <2>1. T \in SUBSET Nat
    BY DEF T
  <2> QED
    BY <1>1, <1>2, <2>1, NatSetInduction
<1> QED
  BY <1>3 DEF T

(* What it has written after each size.                                    *)
LEMMA FieldsUnfold ==
  ASSUME NEW fs, NEW n \in Nat
  PROVE  \E f : /\ f[0] = <<>> /\ SizeFields(fs, n) = f[n]
               /\ \A i \in Nat : i < n => f[i + 1] = Grown(fs, f[i], i + 1)
<1> DEFINE U(s) == s = [i \in 0 .. n |-> IF i = 0 THEN <<>> ELSE Grown(fs, s[i - 1], i)]
           s == CHOOSE s : U(s)
<1>1. U(s)
  BY FieldsExist
<1>2. SizeFields(fs, n) = s[n]
  BY DEF SizeFields, Grown
<1> HIDE DEF s
<1>3. s[0] = <<>>
  BY <1>1
<1>4. ASSUME NEW i \in Nat, i < n PROVE s[i + 1] = Grown(fs, s[i], i + 1)
  <2>1. i + 1 \in 0 .. n /\ (i + 1) - 1 = i /\ i + 1 # 0
    BY <1>4
  <2> QED
    BY <1>1, <2>1
<1> QED
  BY <1>2, <1>3, <1>4

(* The lengths of frames and of their size fields.                         *)
LEMMA HeldAre ==
  ASSUME NEW fs, HeldFrames(fs)
  PROVE  /\ Len(fs) \in Nat /\ DOMAIN fs = 1 .. Len(fs)
         /\ \A i \in 1 .. Len(fs) : /\ Lens(fs)[i] = fs[i].len /\ fs[i].len \in 0 .. MaxFrameBytes
                                    /\ fs[i].len \in Nat
                                    /\ FieldLens(fs)[i] = FieldLen(fs[i].len)
                                    /\ FieldLens(fs)[i] \in {1, 2}
         /\ DOMAIN Lens(fs) = 1 .. Len(fs)
         /\ SumLens(fs) \in Nat
<1>1. fs \in Seq(Elements(fs)) /\ FramesOK(fs)
  BY FramesLog DEF HeldFrames, Log
<1>2. Len(fs) \in Nat /\ DOMAIN fs = 1 .. Len(fs)
  BY <1>1
<1>3. /\ \A i \in 1 .. Len(fs) : Lens(fs)[i] = fs[i].len /\ fs[i].len \in Nat
      /\ SumLens(fs) \in Nat
  BY <1>1, LensAre
<1>4. ASSUME NEW i \in 1 .. Len(fs)
      PROVE  /\ fs[i].len \in 0 .. MaxFrameBytes /\ FieldLens(fs)[i] = FieldLen(fs[i].len)
             /\ FieldLens(fs)[i] \in {1, 2}
  <2>1. fs[i].len \in 0 .. MaxFrameBytes
    BY DEF HeldFrames
  <2>2. FieldLens(fs)[i] = FieldLen(fs[i].len)
    BY <1>2 DEF FieldLens
  <2>3. FieldLen(fs[i].len) \in {1, 2}
    BY <2>1, PutSizeIs
  <2> QED
    BY <2>1, <2>2, <2>3
<1>5. DOMAIN Lens(fs) = 1 .. Len(fs)
  BY <1>2 DEF Lens
<1> QED
  BY <1>2, <1>3, <1>4, <1>5

(* How the sums over them grow.                                            *)
LEMMA HeldSums ==
  ASSUME NEW fs, HeldFrames(fs), NEW n \in 0 .. Len(fs)
  PROVE  /\ SumTo(Lens(fs), n) \in Nat /\ SumTo(FieldLens(fs), n) \in Nat
         /\ \A i \in 0 .. n : /\ SumTo(Lens(fs), i) \in Nat /\ SumTo(Lens(fs), i) <= SumTo(Lens(fs), n)
                              /\ SumTo(FieldLens(fs), i) \in Nat
                              /\ SumTo(FieldLens(fs), i) <= SumTo(FieldLens(fs), n)
<1>1. /\ Len(fs) \in Nat
      /\ \A i \in 1 .. Len(fs) : Lens(fs)[i] \in Nat /\ FieldLens(fs)[i] \in Nat
  <2>1. {1, 2} \subseteq Nat
    OBVIOUS
  <2> QED
    BY <2>1, HeldAre
<1>2. n \in Nat /\ \A i \in 1 .. n : i \in 1 .. Len(fs)
  BY <1>1
<1>3. \A i \in 1 .. n : Lens(fs)[i] \in Nat
  BY <1>1, <1>2
<1>4. \A i \in 1 .. n : FieldLens(fs)[i] \in Nat
  BY <1>1, <1>2
<1>5. /\ SumTo(Lens(fs), n) \in Nat
      /\ \A i \in 0 .. n : SumTo(Lens(fs), i) \in Nat /\ SumTo(Lens(fs), i) <= SumTo(Lens(fs), n)
  BY <1>2, <1>3, SumGrows
<1>6. /\ SumTo(FieldLens(fs), n) \in Nat
      /\ \A i \in 0 .. n : SumTo(FieldLens(fs), i) \in Nat
                           /\ SumTo(FieldLens(fs), i) <= SumTo(FieldLens(fs), n)
  BY <1>2, <1>4, SumGrows
<1> QED
  BY <1>5, <1>6

(* The fields are bytes, as many as their lengths add up to.               *)
LEMMA FieldsAre ==
  ASSUME NEW fs, HeldFrames(fs), NEW n \in 0 .. Len(fs), NEW f, f[0] = <<>>,
         \A i \in Nat : i < n => f[i + 1] = Grown(fs, f[i], i + 1)
  PROVE  \A i \in 0 .. n : f[i] \in Seq(0 .. 255) /\ Len(f[i]) = SumTo(FieldLens(fs), i)
<1>0. n \in Nat /\ Len(fs) \in Nat
  BY HeldAre
<1> DEFINE B == 0 .. 255
           T == {i \in Nat : i <= n => f[i] \in Seq(B) /\ Len(f[i]) = SumTo(FieldLens(fs), i)}
<1>1. 0 \in T
  <2>1. f[0] \in Seq(B) /\ Len(f[0]) = 0
    OBVIOUS
  <2>2. SumTo(FieldLens(fs), 0) = 0
    BY SumStep
  <2> QED
    BY <2>1, <2>2
<1>2. ASSUME NEW i \in Nat, i \in T
      PROVE  i + 1 \in T
  <2> SUFFICES ASSUME i + 1 <= n
               PROVE  f[i + 1] \in Seq(B) /\ Len(f[i + 1]) = SumTo(FieldLens(fs), i + 1)
    OBVIOUS
  <2>1. f[i] \in Seq(B) /\ Len(f[i]) = SumTo(FieldLens(fs), i)
    BY <1>2
  <2>2. i + 1 \in 1 .. Len(fs)
    BY <1>0
  <2>3. fs[i + 1].len \in 0 .. MaxFrameBytes /\ FieldLens(fs)[i + 1] = FieldLen(fs[i + 1].len)
    BY <2>2, HeldAre
  <2>4. put_size(fs[i + 1].len) \in Seq(B) /\ Len(put_size(fs[i + 1].len)) = FieldLen(fs[i + 1].len)
    BY <2>3, PutSizeIs
  <2>5. f[i + 1] = Grown(fs, f[i], i + 1)
    BY <1>0
  <2>6. SumTo(FieldLens(fs), i + 1) = SumTo(FieldLens(fs), i) + FieldLens(fs)[i + 1]
    BY SumStep
  <2>7. PICK field : field = put_size(fs[i + 1].len)
    OBVIOUS
  <2>8. PICK len \in Int : len = SumTo(FieldLens(fs), i) /\ len = Len(f[i])
    BY <2>1
  <2>9. f[i + 1] = f[i] \o field
    BY <2>5, <2>7 DEF Grown
  <2>10. f[i + 1] \in Seq(B) /\ Len(f[i + 1]) = Len(f[i]) + Len(field)
    <3>1. ASSUME NEW s \in Seq(B), NEW t \in Seq(B)
          PROVE  s \o t \in Seq(B) /\ Len(s \o t) = Len(s) + Len(t)
      OBVIOUS
    <3>2. field \in Seq(B)
      BY <2>4, <2>7
    <3> HIDE DEF B
    <3> QED
      BY <2>1, <2>9, <3>1, <3>2
  <2> QED
    BY <2>3, <2>4, <2>6, <2>7, <2>8, <2>10
<1>3. T = Nat
  <2>1. T \in SUBSET Nat
    OBVIOUS
  <2> HIDE DEF T
  <2> QED
    BY <1>1, <1>2, <2>1, NatSetInduction
<1> QED
  BY <1>0, <1>3

(* Where all the fields lie, the first ones do.                            *)
LEMMA FieldsHeld ==
  ASSUME NEW fs, HeldFrames(fs), NEW n \in 0 .. Len(fs), NEW f, f[0] = <<>>,
         \A i \in Nat : i < n => f[i + 1] = Grown(fs, f[i], i + 1),
         NEW w, Len(w.head) \in Nat, NEW pos \in Nat, Holds(w, pos, f[n])
  PROVE  \A i \in Nat : i < n => Holds(w, pos + SumTo(FieldLens(fs), i), put_size(fs[i + 1].len))
<1>0. n \in Nat /\ Len(fs) \in Nat
  BY HeldAre
<1>1. \A i \in 0 .. n : f[i] \in Seq(0 .. 255) /\ Len(f[i]) = SumTo(FieldLens(fs), i)
  BY FieldsAre
<1>2. ASSUME NEW i \in Nat, i < n, Holds(w, pos, f[i + 1])
      PROVE  Holds(w, pos, f[i]) /\ Holds(w, pos + Len(f[i]), put_size(fs[i + 1].len))
  <2>1. f[i] \in Seq(0 .. 255)
    BY <1>0, <1>1, <1>2
  <2>2. i + 1 \in 1 .. Len(fs)
    BY <1>0, <1>2
  <2>3. fs[i + 1].len \in 0 .. MaxFrameBytes
    BY <2>2, HeldAre
  <2>4. put_size(fs[i + 1].len) \in Seq(0 .. 255)
    BY <2>3, PutSizeIs
  <2>5. Holds(w, pos, f[i] \o put_size(fs[i + 1].len))
    BY <1>2 DEF Grown
  <2>6. PICK a : a = f[i]
    OBVIOUS
  <2>7. PICK b : b = put_size(fs[i + 1].len)
    OBVIOUS
  <2>8. a \in Seq(0 .. 255) /\ b \in Seq(0 .. 255)
    BY <2>1, <2>4, <2>6, <2>7
  <2>9. Holds(w, pos, a \o b)
    BY <2>5, <2>6, <2>7
  <2>10. Holds(w, pos, a) /\ Holds(w, pos + Len(a), b)
    BY <2>8, <2>9, HoldsParts, Zenon
  <2> QED
    BY <2>6, <2>7, <2>10
<1> DEFINE T == {k \in Nat : k <= n => Holds(w, pos, f[n - k])}
<1>3. 0 \in T
  <2>1. n - 0 = n
    BY <1>0
  <2> QED
    BY <2>1
<1>4. ASSUME NEW k \in Nat, k \in T
      PROVE  k + 1 \in T
  <2> SUFFICES ASSUME k + 1 <= n PROVE Holds(w, pos, f[n - (k + 1)])
    OBVIOUS
  <2>1. Holds(w, pos, f[n - k])
    BY <1>0, <1>4
  <2>2. PICK i \in Nat : i = n - (k + 1) /\ i < n /\ i + 1 = n - k
    BY <1>0
  <2> QED
    BY <1>2, <2>1, <2>2
<1>5. T = Nat
  <2>1. T \in SUBSET Nat
    OBVIOUS
  <2> HIDE DEF T
  <2> QED
    BY <1>3, <1>4, <2>1, NatSetInduction
<1>6. ASSUME NEW i \in Nat, i < n
      PROVE  Holds(w, pos + SumTo(FieldLens(fs), i), put_size(fs[i + 1].len))
  <2>1. PICK k \in Nat : k = n - (i + 1) /\ k <= n /\ n - k = i + 1
    BY <1>0, <1>6
  <2>2. Holds(w, pos, f[i + 1])
    BY <1>5, <2>1
  <2>3. Len(f[i]) = SumTo(FieldLens(fs), i)
    BY <1>0, <1>1, <1>6
  <2> QED
    BY <1>2, <1>6, <2>2, <2>3
<1> QED
  BY <1>6

FirstLens(fs, i) == [j \in 1 .. i |-> fs[j].len]

(* A cursor that has read the first i sizes of fs, starting as c.          *)
Read(d, c, fs, i) ==
  /\ IsCursor(d) /\ d.ok = TRUE
  /\ d.pos = c.pos + SumTo(FieldLens(fs), i)
  /\ d.len = c.len - SumTo(FieldLens(fs), i)
  /\ d.last = c.last - SumTo(FieldLens(fs), i) - SumTo(Lens(fs), i)
  /\ d.sizes = FirstLens(fs, i)
  /\ d.count = c.count /\ d.cbr = c.cbr

(* One field read: the next size.                                          *)
LEMMA OneRead ==
  ASSUME NEW w, WireOK(w), NEW fs, HeldFrames(fs), NEW i \in Nat, i < Len(fs),
         NEW c, c.pos \in Nat, c.len \in Int, c.last \in Int,
         SumTo(FieldLens(fs), i + 1) + SumTo(Lens(fs), i + 1) <= c.len,
         NEW d, Read(d, c, fs, i),
         Holds(w, c.pos + SumTo(FieldLens(fs), i), put_size(fs[i + 1].len))
  PROVE  Read(TakeNext(w, d), c, fs, i + 1)
<1>1. Len(fs) \in Nat /\ i + 1 \in 1 .. Len(fs) /\ i + 1 \in 0 .. Len(fs) /\ i \in 0 .. Len(fs)
  BY HeldAre
<1>2. PICK size \in 0 .. MaxFrameBytes : size = fs[i + 1].len
  BY <1>1, HeldAre
<1>3. size \in Nat /\ Lens(fs)[i + 1] = size /\ FieldLens(fs)[i + 1] = FieldLen(size)
      /\ FieldLen(size) \in {1, 2}
  BY <1>1, <1>2, HeldAre
<1>4. PICK F \in Nat : F = SumTo(FieldLens(fs), i)
  BY <1>1, HeldSums
<1>5. PICK S \in Nat : S = SumTo(Lens(fs), i)
  BY <1>1, HeldSums
<1>6. SumTo(FieldLens(fs), i + 1) = F + FieldLen(size) /\ SumTo(Lens(fs), i + 1) = S + size
  BY <1>3, <1>4, <1>5, SumStep
<1>7. /\ IsCursor(d) /\ d.ok = TRUE /\ d.pos = c.pos + F /\ d.len = c.len - F
      /\ d.last = c.last - F - S /\ d.sizes = FirstLens(fs, i)
      /\ d.count = c.count /\ d.cbr = c.cbr
  BY <1>4, <1>5 DEF Read
<1>8. d.pos \in Nat /\ Holds(w, d.pos, put_size(size))
  BY <1>2, <1>4, <1>7
<1>9. PICK s : s = SizeAt(w, d.pos)
  OBVIOUS
<1>10. s.bytes = FieldLen(size) /\ s.size = size
  BY <1>8, <1>9, SizeReadBack
<1>11. TakeNext(w, d) = TakeSizeAs(d, s)
  BY <1>7, <1>9 DEF TakeNext, TakeSize
<1>12. PICK b \in {1, 2} : b = FieldLen(size)
  BY <1>3
<1>13. b \in Int /\ d.len \in Int /\ b >= 0 /\ size \in Int
  BY <1>3, <1>7
<1>14. F + b + (S + size) <= c.len
  BY <1>6, <1>12
<1>15. ~(s.bytes < 0 \/ s.size > d.len - s.bytes)
  <2>1. PICK l \in Int : l = d.len /\ l = c.len - F
    BY <1>7, <1>13
  <2>2. ~(b < 0 \/ size > l - b)
    BY <1>3, <1>14, <2>1
  <2> QED
    BY <1>10, <1>12, <2>1, <2>2
<1>16. PICK t : t = TakeSizeAs(d, s)
  OBVIOUS
<1>17. /\ IsCursor(t) /\ t.ok = d.ok /\ t.pos = d.pos + b /\ t.len = d.len - b
       /\ t.last = d.last - b - size /\ t.sizes = Append(d.sizes, size)
       /\ t.count = d.count /\ t.cbr = d.cbr
  <2>1. s.bytes \in Int /\ s.size \in Int
    BY <1>10, <1>12, <1>13
  <2>2. /\ IsCursor(t)
        /\ t.ok = d.ok /\ t.pos = d.pos + s.bytes /\ t.len = d.len - s.bytes
        /\ t.last = d.last - s.bytes - s.size /\ t.sizes = Append(d.sizes, s.size)
        /\ t.count = d.count /\ t.cbr = d.cbr
    BY <1>7, <1>13, <1>15, <1>16, <2>1, TakeSizeIs
  <2> QED
    BY <1>10, <1>12, <2>2
<1>18. t.sizes = FirstLens(fs, i + 1)
  <2>1. ASSUME NEW j \in 1 .. i PROVE fs[j].len \in Nat
    <3>1. j \in 1 .. Len(fs)
      BY <1>1
    <3> QED
      BY <3>1, HeldAre
  <2>2. d.sizes \in Seq(Nat) /\ Len(d.sizes) = i /\ \A j \in 1 .. i : d.sizes[j] = fs[j].len
    BY <1>7, <2>1 DEF FirstLens
  <2>3. /\ t.sizes \in Seq(Nat) /\ Len(t.sizes) = i + 1
        /\ \A j \in 1 .. i : t.sizes[j] = fs[j].len
        /\ t.sizes[i + 1] = size
    BY <1>3, <1>17, <2>2
  <2>4. ASSUME NEW j \in 1 .. i + 1 PROVE t.sizes[j] = fs[j].len
    <3>1. CASE j = i + 1
      BY <1>2, <2>3, <3>1
    <3>2. CASE j \in 1 .. i
      BY <2>3, <3>2
    <3> QED
      BY <3>1, <3>2
  <2>5. PICK n \in Nat : n = i + 1
    OBVIOUS
  <2>6. PICK z \in Seq(Nat) : z = t.sizes
    BY <2>3
  <2>7. Len(z) = n
    BY <2>3, <2>5, <2>6
  <2>8. z = [j \in 1 .. n |-> z[j]]
    BY <2>7
  <2>9. \A j \in 1 .. n : z[j] = fs[j].len
    BY <2>4, <2>5, <2>6
  <2>10. z = [j \in 1 .. n |-> fs[j].len]
    BY <2>8, <2>9
  <2>11. t.sizes = FirstLens(fs, n)
    BY <2>6, <2>10 DEF FirstLens
  <2> QED
    BY <2>5, <2>11
<1>19. t.pos = c.pos + (F + b) /\ t.len = c.len - (F + b) /\ t.last = c.last - (F + b) - (S + size)
  <2>1. PICK p \in Int, l \in Int, m \in Int : p = c.pos /\ l = c.len /\ m = c.last
    OBVIOUS
  <2>2. /\ t.pos = (p + F) + b /\ t.len = (l - F) - b /\ t.last = ((m - F) - S) - b - size
    BY <1>7, <1>17, <2>1
  <2>3. (p + F) + b = p + (F + b) /\ (l - F) - b = l - (F + b)
        /\ ((m - F) - S) - b - size = m - (F + b) - (S + size)
    BY <1>3, <1>13
  <2> QED
    BY <2>1, <2>2, <2>3, Zenon
<1>20. t.ok = TRUE /\ t.count = c.count /\ t.cbr = c.cbr
  BY <1>7, <1>17
<1> QED
  BY <1>6, <1>11, <1>12, <1>16, <1>17, <1>18, <1>19, <1>20 DEF Read

(* The sizes of the first n frames, read back.                             *)
LEMMA FieldsRead ==
  ASSUME NEW w, WireOK(w), NEW fs, HeldFrames(fs), NEW n \in 0 .. Len(fs),
         NEW c, IsCursor(c), c.ok = TRUE, c.pos \in Nat, c.len \in Int, c.last \in Int,
         c.sizes = <<>>, SumTo(FieldLens(fs), n) + SumTo(Lens(fs), n) <= c.len,
         Holds(w, c.pos, SizeFields(fs, n))
  PROVE  Read(TakeSizes(w, c, n), c, fs, n)
<1>0. n \in Nat /\ Len(fs) \in Nat /\ n <= Len(fs)
  BY HeldAre
<1>1. PICK f : /\ f[0] = c /\ TakeSizes(w, c, n) = f[n]
               /\ \A i \in Nat : i < n => f[i + 1] = TakeNext(w, f[i])
  BY <1>0, TakesUnfold
<1>2. PICK g : /\ g[0] = <<>> /\ SizeFields(fs, n) = g[n]
               /\ \A i \in Nat : i < n => g[i + 1] = Grown(fs, g[i], i + 1)
  BY <1>0, FieldsUnfold
<1>3. Len(w.head) \in Nat
  BY BytesAre
<1>4. \A i \in Nat : i < n => Holds(w, c.pos + SumTo(FieldLens(fs), i), put_size(fs[i + 1].len))
  BY <1>2, <1>3, FieldsHeld
<1> DEFINE T == {i \in Nat : i <= n => Read(f[i], c, fs, i)}
<1>5. 0 \in T
  <2>1. SumTo(FieldLens(fs), 0) = 0 /\ SumTo(Lens(fs), 0) = 0
    BY SumStep
  <2>2. <<>> = FirstLens(fs, 0)
    BY DEF FirstLens
  <2>3. c.sizes = FirstLens(fs, 0)
    BY <2>2
  <2>4. c.pos + 0 = c.pos /\ c.len - 0 = c.len /\ c.last - 0 - 0 = c.last
    OBVIOUS
  <2>5. Read(c, c, fs, 0)
    BY <2>1, <2>3, <2>4 DEF Read
  <2> QED
    BY <1>1, <2>5
<1>6. ASSUME NEW i \in Nat, i \in T
      PROVE  i + 1 \in T
  <2> SUFFICES ASSUME i + 1 <= n PROVE Read(f[i + 1], c, fs, i + 1)
    OBVIOUS
  <2>1. Read(f[i], c, fs, i) /\ i < n /\ i < Len(fs)
    BY <1>0, <1>6
  <2>2. f[i + 1] = TakeNext(w, f[i])
    BY <1>1, <2>1
  <2>3. SumTo(FieldLens(fs), i + 1) + SumTo(Lens(fs), i + 1) <= c.len
    <3>1. /\ SumTo(Lens(fs), n) \in Nat /\ SumTo(FieldLens(fs), n) \in Nat
          /\ SumTo(Lens(fs), i + 1) \in Nat /\ SumTo(Lens(fs), i + 1) <= SumTo(Lens(fs), n)
          /\ SumTo(FieldLens(fs), i + 1) \in Nat
          /\ SumTo(FieldLens(fs), i + 1) <= SumTo(FieldLens(fs), n)
      <4>1. i + 1 \in 0 .. n
        BY <1>0
      <4> QED
        BY <4>1, HeldSums
    <3> QED
      BY <3>1
  <2>4. Holds(w, c.pos + SumTo(FieldLens(fs), i), put_size(fs[i + 1].len))
    BY <1>4, <2>1
  <2> QED
    BY <2>1, <2>2, <2>3, <2>4, OneRead
<1>7. T = Nat
  <2>1. T \in SUBSET Nat
    OBVIOUS
  <2> HIDE DEF T
  <2> QED
    BY <1>5, <1>6, <2>1, NatSetInduction
<1> QED
  BY <1>0, <1>1, <1>7

(* A written padding length: bytes of 255, and one that is not.            *)
PadBytes(q, amount, nb, last) ==
  /\ Len(q) = nb + 1 /\ 255 * nb + 1 + last = amount
  /\ \A i \in 1 .. nb : q[i] = 255
  /\ q[nb + 1] = last

(* The padding length is bytes of 255 and one that is less.                *)
LEMMA PadFieldIs ==
  ASSUME NEW amount \in Nat
  PROVE  /\ PadField(amount) \in Seq(0 .. 255)
         /\ amount = 0 => Len(PadField(amount)) = 0
         /\ amount # 0 => \E nb \in Nat, last \in 0 .. 254 : PadBytes(PadField(amount), amount, nb, last)
<1>1. CASE amount = 0
  <2>1. PadField(amount) = <<>>
    BY <1>1 DEF PadField
  <2>2. <<>> \in Seq(0 .. 255) /\ Len(<<>>) = 0
    OBVIOUS
  <2>3. PadField(amount) \in Seq(0 .. 255) /\ Len(PadField(amount)) = 0
    BY <2>1, <2>2
  <2> QED
    BY <1>1, <2>3, Zenon
<1>2. CASE amount # 0
  <2>1. PICK a \in Nat : a = amount - 1
    BY <1>2
  <2>2. PICK nb \in Nat : nb = a \div 255
    OBVIOUS
  <2>3. PICK last \in 0 .. 254 : a = 255 * nb + last
    BY <2>2
  <2>4. amount - 255 * nb - 1 = last
    BY <2>1, <2>3
  <2> DEFINE lead == [i \in 1 .. nb |-> 255]
             field == lead \o <<last>>
  <2>5. PadField(amount) = field
    BY <1>2, <2>1, <2>2, <2>4 DEF PadField
  <2>6. lead \in Seq(0 .. 255) /\ Len(lead) = nb /\ \A i \in 1 .. nb : lead[i] = 255
    <3>1. 255 \in 0 .. 255
      OBVIOUS
    <3> QED
      BY <3>1
  <2>7. <<last>> \in Seq(0 .. 255) /\ Len(<<last>>) = 1 /\ <<last>>[1] = last
    <3>1. last \in 0 .. 255
      OBVIOUS
    <3> QED
      BY <3>1
  <2>8. ASSUME NEW a1 \in Seq(0 .. 255), NEW b1 \in Seq(0 .. 255), Len(b1) = 1
        PROVE  /\ a1 \o b1 \in Seq(0 .. 255) /\ Len(a1 \o b1) = Len(a1) + 1
               /\ \A i \in 1 .. Len(a1) : (a1 \o b1)[i] = a1[i]
               /\ (a1 \o b1)[Len(a1) + 1] = b1[1]
    <3>1. /\ Len(a1 \o b1) = Len(a1) + Len(b1) /\ Len(a1) \in Nat /\ Len(b1) \in Nat
          /\ a1 \o b1 \in Seq(0 .. 255)
          /\ \A i \in 1 .. Len(a1) : (a1 \o b1)[i] = a1[i]
          /\ \A i \in 1 .. Len(b1) : (a1 \o b1)[Len(a1) + i] = b1[i]
      OBVIOUS
    <3>2. 1 \in 1 .. Len(b1)
      BY <2>8
    <3>3. (a1 \o b1)[Len(a1) + 1] = b1[1]
      BY <3>1, <3>2, Zenon
    <3>4. Len(a1 \o b1) = Len(a1) + 1
      BY <2>8, <3>1, Zenon
    <3> QED
      BY <3>1, <3>3, <3>4, Zenon
  <2> HIDE DEF lead
  <2>9. /\ field \in Seq(0 .. 255) /\ Len(field) = nb + 1
        /\ \A i \in 1 .. nb : field[i] = 255
        /\ field[nb + 1] = last
    <3>1. PICK e : e = <<last>>
      OBVIOUS
    <3>2. e \in Seq(0 .. 255) /\ Len(e) = 1 /\ e[1] = last
      BY <2>7, <3>1
    <3>3. field = lead \o e
      BY <3>1
    <3> HIDE DEF field
    <3>4. /\ lead \o e \in Seq(0 .. 255) /\ Len(lead \o e) = Len(lead) + 1
          /\ \A i \in 1 .. Len(lead) : (lead \o e)[i] = lead[i]
          /\ (lead \o e)[Len(lead) + 1] = e[1]
      BY <2>6, <2>8, <3>2
    <3>5. /\ field \in Seq(0 .. 255) /\ Len(field) = nb + 1
          /\ \A i \in 1 .. nb : field[i] = lead[i]
          /\ field[nb + 1] = e[1]
      BY <2>6, <3>3, <3>4, Zenon
    <3>6. ASSUME NEW i \in 1 .. nb PROVE field[i] = 255
      <4>1. field[i] = lead[i] /\ lead[i] = 255
        BY <2>6, <3>5
      <4> QED
        BY <4>1
    <3> QED
      BY <3>2, <3>5, <3>6
  <2> HIDE DEF field
  <2>10. 255 * nb + 1 + last = amount
    BY <2>1, <2>3
  <2>11. PICK q : q = PadField(amount)
    OBVIOUS
  <2>12. q \in Seq(0 .. 255) /\ Len(q) = nb + 1 /\ (\A i \in 1 .. nb : q[i] = 255) /\ q[nb + 1] = last
    BY <2>5, <2>9, <2>11, Zenon
  <2>13. PadBytes(q, amount, nb, last)
    BY <2>10, <2>12 DEF PadBytes
  <2>14. PadBytes(PadField(amount), amount, nb, last)
    BY <2>11, <2>13
  <2>15. \E nb1 \in Nat, last1 \in 0 .. 254 : PadBytes(PadField(amount), amount, nb1, last1)
    BY <2>14
  <2>16. PadField(amount) \in Seq(0 .. 255)
    BY <2>11, <2>12
  <2> QED
    BY <1>2, <2>15, <2>16
<1> QED
  BY <1>1, <1>2

(* The count byte and its two flags.                                       *)
CountByte(n, vbr, padded) == n + (IF vbr THEN 128 ELSE 0) + (IF padded THEN 64 ELSE 0)

CountRead(ch, n, vbr, padded) ==
  /\ ch \in 0 .. 255 /\ ch % 64 = n
  /\ (ch \div 64) % 2 = 1 <=> padded
  /\ ch < 128 <=> ~vbr

(* The count byte tells how many frames, sizes and padding.                *)
LEMMA CountByteIs ==
  ASSUME NEW n \in 1 .. MAX_FRAMES, NEW vbr \in BOOLEAN, NEW padded \in BOOLEAN
  PROVE  CountRead(CountByte(n, vbr, padded), n, vbr, padded)
<1>1. n \in 1 .. 48
  BY DEF MAX_FRAMES
<1>2. PICK ch \in Int : ch = CountByte(n, vbr, padded)
  BY <1>1 DEF CountByte
<1>3. CASE vbr /\ padded
  <2>1. ch = n + 192
    BY <1>1, <1>2, <1>3 DEF CountByte
  <2>2. ch \in 0 .. 255 /\ ch % 64 = n /\ ch \div 64 = 3 /\ ~(ch < 128)
    BY <1>1, <2>1
  <2>3. ch \in 0 .. 255 /\ ch % 64 = n
    BY <2>2
  <2>4. ~(ch < 128)
    BY <2>2
  <2>5. (ch \div 64) % 2 = 1
    BY <2>2
  <2> QED
    BY <1>2, <1>3, <2>3, <2>4, <2>5, Zenon DEF CountRead
<1>4. CASE vbr /\ ~padded
  <2>1. ch = n + 128
    BY <1>1, <1>2, <1>4 DEF CountByte
  <2>2. ch \in 0 .. 255 /\ ch % 64 = n /\ ch \div 64 = 2 /\ ~(ch < 128)
    BY <1>1, <2>1
  <2>3. ch \in 0 .. 255 /\ ch % 64 = n
    BY <2>2
  <2>4. ~(ch < 128)
    BY <2>2
  <2>5. (ch \div 64) % 2 # 1
    BY <2>2
  <2> QED
    BY <1>2, <1>4, <2>3, <2>4, <2>5, Zenon DEF CountRead
<1>5. CASE ~vbr /\ padded
  <2>1. ch = n + 64
    BY <1>1, <1>2, <1>5 DEF CountByte
  <2>2. ch \in 0 .. 255 /\ ch % 64 = n /\ ch \div 64 = 1 /\ ch < 128
    BY <1>1, <2>1
  <2>3. ch \in 0 .. 255 /\ ch % 64 = n
    BY <2>2
  <2>4. (ch < 128)
    BY <2>2
  <2>5. (ch \div 64) % 2 = 1
    BY <2>2
  <2> QED
    BY <1>2, <1>5, <2>3, <2>4, <2>5, Zenon DEF CountRead
<1>6. CASE ~vbr /\ ~padded
  <2>1. ch = n
    BY <1>1, <1>2, <1>6 DEF CountByte
  <2>2. ch \in 0 .. 255 /\ ch % 64 = n /\ ch \div 64 = 0 /\ ch < 128
    BY <1>1, <2>1
  <2> QED
    BY <1>2, <1>6, <2>2 DEF CountRead
<1> QED
  BY <1>3, <1>4, <1>5, <1>6

(* The length of a frame, and how many a packet carries: 120 ms.           *)
Framesize(t) == samples_per_frame(t, 8000)
Samples48k(t) == samples_per_frame(t, 48000)
Carries(t, n) == n * Framesize(t) <= 960
Carries48k(t, n) == Samples48k(t) * n <= MaxPacketSamples48k

(* Frames of 120 ms in all are no more than MAX_FRAMES, for any TOC byte:  *)
(* 8 kHz and 48 kHz agree.                                                 *)
LEMMA CarriesIs ==
  ASSUME NEW t \in 0 .. 255, NEW n \in Nat, Carries(t, n)
  PROVE  n <= MAX_FRAMES /\ Carries48k(t, n)
<1>1. PICK s \in Nat : s = Framesize(t) /\ s >= 20
  BY SamplesIs DEF Framesize
<1>2. Samples48k(t) = 6 * s
  BY <1>1, SamplesIs DEF Framesize, Samples48k
<1>3. n * s <= 960
  BY <1>1 DEF Carries
<1>4. n <= 48
  <2> SUFFICES ASSUME n >= 49 PROVE FALSE
    OBVIOUS
  <2>1. n * s >= 49 * s
    BY <1>1
  <2> QED
    BY <1>1, <1>3, <2>1
<1>5. (6 * s) * n <= 5760
  <2>1. (6 * s) * n = 6 * (n * s)
    BY <1>1
  <2> QED
    BY <1>1, <1>3, <2>1
<1> QED
  BY <1>2, <1>4, <1>5 DEF MAX_FRAMES, Carries48k, MaxPacketSamples48k

(* Every code says the same length.                                        *)
LEMMA FramesizeIs ==
  ASSUME NEW t \in 0 .. 255, NEW c \in 0 .. 3
  PROVE  Framesize(WithCode(t, c)) = Framesize(t) /\ Samples48k(WithCode(t, c)) = Samples48k(t)
<1>1. \A fs : samples_per_frame(WithCode(t, c), fs) = samples_per_frame(t, fs)
  BY TocIs
<1> QED
  BY <1>1 DEF Framesize, Samples48k

(* Frames a packet of this configuration can carry.                        *)
Selected(t, fs) ==
  t \in 0 .. 255 /\ HeldFrames(fs) /\ Len(fs) >= 1 /\ Carries(t, Len(fs))

(* So are frames that one packet carries, under every code.                *)
LEMMA SelectedIs ==
  ASSUME NEW t, NEW fs, Selected(t, fs)
  PROVE  /\ Len(fs) \in 1 .. MAX_FRAMES
         /\ \A c \in 0 .. 3 : Carries48k(WithCode(t, c), Len(fs))
<1>1. t \in 0 .. 255 /\ HeldFrames(fs) /\ Len(fs) >= 1 /\ Carries(t, Len(fs))
  BY DEF Selected
<1>2. Len(fs) \in Nat
  BY <1>1, HeldAre
<1>3. Len(fs) <= MAX_FRAMES /\ Carries48k(t, Len(fs))
  <2>1. PICK n \in Nat : n = Len(fs)
    BY <1>2
  <2>2. n <= MAX_FRAMES /\ Carries48k(t, n)
    BY <1>1, <2>1, CarriesIs
  <2> QED
    BY <2>1, <2>2, Zenon
<1>4. Len(fs) \in 1 .. MAX_FRAMES
  <2>1. PICK n \in Nat : n = Len(fs)
    BY <1>2
  <2>2. n >= 1 /\ n <= MAX_FRAMES
    BY <1>1, <1>3, <2>1, Zenon
  <2>3. n \in 1 .. MAX_FRAMES
    BY <2>2 DEF MAX_FRAMES
  <2> QED
    BY <2>1, <2>3, Zenon
<1>5. ASSUME NEW c \in 0 .. 3 PROVE Carries48k(WithCode(t, c), Len(fs))
  <2>1. Samples48k(WithCode(t, c)) = Samples48k(t)
    BY <1>1, FramesizeIs
  <2> QED
    BY <1>3, <2>1 DEF Carries48k
<1> QED
  BY <1>4, <1>5

(* A head of four parts.                                                   *)
Parts(v, S, a, b, c, d) ==
  /\ v.head \in Seq(S) /\ Len(v.head) = Len(a) + Len(b) + Len(c) + Len(d)
  /\ Len(a) \in Nat /\ Len(b) \in Nat /\ Len(c) \in Nat /\ Len(d) \in Nat
  /\ Holds(v, 0, a) /\ Holds(v, Len(a), b) /\ Holds(v, Len(a) + Len(b), c)
  /\ Holds(v, Len(a) + Len(b) + Len(c), d)
  /\ \A i \in 1 .. Len(a) : ByteAt(v, i - 1) = a[i]

(* A head of four fields holds each of them in its place.                  *)
LEMMA PartsHeld ==
  ASSUME NEW v, NEW S, NEW a \in Seq(S), NEW b \in Seq(S), NEW c \in Seq(S), NEW d \in Seq(S),
         v.head = ((a \o b) \o c) \o d
  PROVE  Parts(v, S, a, b, c, d)
<1>1. ASSUME NEW x \in Seq(S), NEW y \in Seq(S)
      PROVE  x \o y \in Seq(S) /\ Len(x \o y) = Len(x) + Len(y) /\ Len(x) \in Nat /\ Len(y) \in Nat
  OBVIOUS
<1>2. PICK ab : ab = a \o b
  OBVIOUS
<1>3. PICK abc : abc = ab \o c
  OBVIOUS
<1>4. PICK h : h = abc \o d
  OBVIOUS
<1>5. v.head = h
  BY <1>2, <1>3, <1>4
<1>6. ab \in Seq(S) /\ Len(ab) = Len(a) + Len(b) /\ Len(a) \in Nat /\ Len(b) \in Nat
  BY <1>1, <1>2
<1>7. abc \in Seq(S) /\ Len(abc) = Len(ab) + Len(c) /\ Len(c) \in Nat
  BY <1>1, <1>3, <1>6
<1>8. h \in Seq(S) /\ Len(h) = Len(abc) + Len(d) /\ Len(d) \in Nat
  BY <1>1, <1>4, <1>7
<1>9. v.head \in Seq(S) /\ Len(v.head) \in Nat /\ Len(v.head) = Len(a) + Len(b) + Len(c) + Len(d)
  BY <1>5, <1>6, <1>7, <1>8
<1>10. Holds(v, 0, v.head)
  BY <1>9, HoldsHead, Zenon
<1>11. Holds(v, 0, abc \o d)
  BY <1>4, <1>5, <1>10, Zenon
<1>12. Holds(v, 0, abc) /\ Holds(v, 0 + Len(abc), d)
  <2>1. 0 \in Nat
    OBVIOUS
  <2> QED
    BY <1>7, <1>9, <1>11, <2>1, HoldsParts, Zenon
<1>13. Holds(v, 0, ab) /\ Holds(v, 0 + Len(ab), c)
  <2>1. 0 \in Nat
    OBVIOUS
  <2>2. Holds(v, 0, ab \o c)
    BY <1>3, <1>12, Zenon
  <2> QED
    BY <1>6, <1>9, <2>1, <2>2, HoldsParts, Zenon
<1>14. Holds(v, 0, a) /\ Holds(v, 0 + Len(a), b)
  <2>1. 0 \in Nat
    OBVIOUS
  <2>2. Holds(v, 0, a \o b)
    BY <1>2, <1>13, Zenon
  <2> QED
    BY <1>9, <2>1, <2>2, HoldsParts, Zenon
<1>15. 0 + Len(a) = Len(a) /\ 0 + Len(ab) = Len(a) + Len(b) /\ 0 + Len(abc) = Len(a) + Len(b) + Len(c)
  BY <1>6, <1>7
<1>16. Holds(v, Len(a), b)
  BY <1>14, <1>15, Zenon
<1>17. Holds(v, Len(a) + Len(b), c)
  BY <1>13, <1>15, Zenon
<1>18. Holds(v, Len(a) + Len(b) + Len(c), d)
  BY <1>12, <1>15, Zenon
<1>19. ASSUME NEW i \in 1 .. Len(a) PROVE ByteAt(v, i - 1) = a[i]
  <2>1. Len(a) \in Nat /\ Len(v.head) \in Nat /\ Len(a) <= Len(v.head)
    BY <1>6, <1>7, <1>8, <1>9
  <2>2. v.head[0 + i] = a[i]
    BY <1>14 DEF Holds
  <2>3. 0 + i = i /\ (i - 1) + 1 = i /\ i - 1 < Len(v.head)
    BY <2>1
  <2>4. ByteAt(v, i - 1) = v.head[(i - 1) + 1]
    BY <2>3 DEF ByteAt
  <2> QED
    BY <2>2, <2>3, <2>4
<1> QED
  BY <1>6, <1>7, <1>8, <1>9, <1>14, <1>16, <1>17, <1>18, <1>19, Zenon DEF Parts

(* The size fields of a code-3 packet: none of equal frames.               *)
FieldsOf(fs) == IF IsVbr(fs) THEN SizeFields(fs, Len(fs) - 1) ELSE <<>>
FieldsLen(fs) == IF IsVbr(fs) THEN SumTo(FieldLens(fs), Len(fs) - 1) ELSE 0

(* The size fields are as long as Code3Size counts them.                   *)
LEMMA FieldsOfAre ==
  ASSUME NEW fs, HeldFrames(fs), Len(fs) >= 1
  PROVE  /\ FieldsOf(fs) \in Seq(0 .. 255) /\ Len(FieldsOf(fs)) = FieldsLen(fs)
         /\ FieldsLen(fs) \in Nat
         /\ Code3Size(fs) = 2 + SumLens(fs) + FieldsLen(fs)
<1>1. PICK n \in Nat : n = Len(fs) - 1 /\ n \in 0 .. Len(fs)
  <2>1. PICK m \in Nat : m = Len(fs)
    BY HeldAre
  <2>2. m >= 1
    BY <2>1
  <2>3. m - 1 \in Nat /\ m - 1 \in 0 .. m
    BY <2>2
  <2> QED
    BY <2>1, <2>3, Zenon
<1>2. SumTo(FieldLens(fs), n) \in Nat
  BY <1>1, HeldSums
<1>3. SizeFields(fs, n) \in Seq(0 .. 255) /\ Len(SizeFields(fs, n)) = SumTo(FieldLens(fs), n)
  <2>1. PICK g : /\ g[0] = <<>> /\ SizeFields(fs, n) = g[n]
                 /\ \A i \in Nat : i < n => g[i + 1] = Grown(fs, g[i], i + 1)
    BY FieldsUnfold
  <2>2. \A i \in 0 .. n : g[i] \in Seq(0 .. 255) /\ Len(g[i]) = SumTo(FieldLens(fs), i)
    BY <1>1, <2>1, FieldsAre
  <2> QED
    BY <2>1, <2>2
<1>4. CASE IsVbr(fs)
  <2>1. FieldsOf(fs) = SizeFields(fs, n) /\ FieldsLen(fs) = SumTo(FieldLens(fs), n)
    BY <1>1, <1>4 DEF FieldsOf, FieldsLen
  <2>2. Code3Size(fs) = 2 + SumLens(fs) + SumTo(FieldLens(fs), n)
    BY <1>1, <1>4 DEF Code3Size, FieldLens
  <2> QED
    BY <1>2, <1>3, <2>1, <2>2
<1>5. CASE ~IsVbr(fs)
  <2>1. FieldsOf(fs) = <<>> /\ FieldsLen(fs) = 0
    BY <1>5 DEF FieldsOf, FieldsLen
  <2>2. Code3Size(fs) = 2 + SumLens(fs) + 0
    BY <1>5 DEF Code3Size
  <2>3. <<>> \in Seq(0 .. 255) /\ Len(<<>>) = 0
    OBVIOUS
  <2> QED
    BY <2>1, <2>2, <2>3
<1> QED
  BY <1>4, <1>5

(* The head of a code-3 packet, part by part; rest: what follows it.       *)
Code3Head(v, t, fs, amount, P, rest) ==
  /\ v.head \in Seq(0 .. 255) /\ P \in Nat /\ Len(rest) \in Nat
  /\ Len(v.head) = 2 + P + FieldsLen(fs) + Len(rest)
  /\ ByteAt(v, 0) = WithCode(t, 3)
  /\ ByteAt(v, 1) = CountByte(Len(fs), IsVbr(fs), amount # 0)
  /\ Holds(v, 2, PadField(amount))
  /\ Holds(v, 2 + P, FieldsOf(fs))
  /\ Holds(v, 2 + P + FieldsLen(fs), rest)

(* Where the fields of a code-3 header lie.                                *)
LEMMA Code3HeadIs ==
  ASSUME NEW t, NEW fs, Selected(t, fs), NEW amount \in Nat, NEW rest \in Seq(0 .. 255),
         NEW v, v.head = HeadCode3(t, fs, IsVbr(fs), amount) \o rest
  PROVE  Code3Head(v, t, fs, amount, Len(PadField(amount)), rest)
<1>1. t \in 0 .. 255 /\ HeldFrames(fs) /\ Len(fs) >= 1 /\ Len(fs) \in 1 .. MAX_FRAMES
  BY SelectedIs DEF Selected
<1>2. PICK ch : ch = CountByte(Len(fs), IsVbr(fs), amount # 0)
  OBVIOUS
<1>3. ch \in 0 .. 255
  <2>1. IsVbr(fs) \in BOOLEAN /\ (amount # 0) \in BOOLEAN
    BY DEF IsVbr
  <2> QED
    BY <1>1, <1>2, <2>1, CountByteIs, Zenon DEF CountRead
<1>4. WithCode(t, 3) \in 0 .. 255
  <2>1. 3 \in 0 .. 3
    OBVIOUS
  <2> QED
    BY <1>1, <2>1, TocIs, Zenon
<1>5. PICK a : a = <<WithCode(t, 3), ch>>
  OBVIOUS
<1>6. a \in Seq(0 .. 255) /\ Len(a) = 2 /\ a[1] = WithCode(t, 3) /\ a[2] = ch
  BY <1>3, <1>4, <1>5
<1>7. PICK b : b = PadField(amount)
  OBVIOUS
<1>8. PICK c : c = FieldsOf(fs)
  OBVIOUS
<1>9. b \in Seq(0 .. 255)
  BY <1>7, PadFieldIs
<1>10. c \in Seq(0 .. 255) /\ Len(c) = FieldsLen(fs)
  BY <1>1, <1>8, FieldsOfAre
<1>11. v.head = ((a \o b) \o c) \o rest
  BY <1>2, <1>5, <1>7, <1>8, Zenon DEF HeadCode3, FieldsOf, CountByte
<1>12. /\ v.head \in Seq(0 .. 255) /\ Len(v.head) = Len(a) + Len(b) + Len(c) + Len(rest)
       /\ Len(a) \in Nat /\ Len(b) \in Nat /\ Len(c) \in Nat /\ Len(rest) \in Nat
       /\ Holds(v, 0, a) /\ Holds(v, Len(a), b) /\ Holds(v, Len(a) + Len(b), c)
       /\ Holds(v, Len(a) + Len(b) + Len(c), rest)
       /\ \A i \in 1 .. Len(a) : ByteAt(v, i - 1) = a[i]
  <2>1. Parts(v, 0 .. 255, a, b, c, rest)
    BY <1>6, <1>9, <1>10, <1>11, PartsHeld, Zenon
  <2> QED
    BY <2>1, Zenon DEF Parts
<1>13. ByteAt(v, 0) = a[1] /\ ByteAt(v, 1) = a[2]
  <2>1. 1 \in 1 .. Len(a) /\ 2 \in 1 .. Len(a) /\ 1 - 1 = 0 /\ 2 - 1 = 1
    BY <1>6
  <2>2. ByteAt(v, 1 - 1) = a[1] /\ ByteAt(v, 2 - 1) = a[2]
    BY <1>12, <2>1
  <2> QED
    BY <2>1, <2>2
<1>14. /\ Len(v.head) = 2 + Len(b) + FieldsLen(fs) + Len(rest)
       /\ Holds(v, 2, b) /\ Holds(v, 2 + Len(b), c) /\ Holds(v, 2 + Len(b) + FieldsLen(fs), rest)
  BY <1>6, <1>10, <1>12, Zenon
<1> QED
  BY <1>2, <1>6, <1>7, <1>8, <1>12, <1>13, <1>14, Zenon DEF Code3Head

(* A cursor past the count byte, and past the padding.                     *)
CountedTo(x, c, ch) ==
  /\ IsCursor(x) /\ x.ok = c.ok /\ x.pos = 2 /\ x.len = c.len - 1
  /\ x.sizes = c.sizes /\ x.count = ch % 64
  /\ x.cbr <=> ch < 128

(* The cursor past the count byte.                                         *)
LEMMA CountedToIs ==
  ASSUME NEW c, IsCursor(c), NEW ch \in 0 .. 255, c.len \in Int
  PROVE  CountedTo(Counted(c, ch), c, ch)
  BY CountedIs DEF CountedTo

SkippedTo(x, c, start, len) ==
  /\ IsCursor(x) /\ x.ok = c.ok /\ x.pos = start + 1 /\ x.len = len
  /\ x.sizes = c.sizes /\ x.count = c.count /\ x.cbr = c.cbr

(* The cursor past the padding length.                                     *)
LEMMA SkippedToIs ==
  ASSUME NEW w, NEW c, IsCursor(c), NEW start, NEW b, b = ByteAt(w, start),
         NEW left \in Int, left > 0, left = c.len - 255 * (start - c.pos)
  PROVE  SkippedTo(SkipTo(w, c, start), c, start, left - 1 - b)
<1>1. LET d == SkipTo(w, c, start)
          short == c.len - 255 * (start - c.pos) <= 0 IN
      /\ short => d = Fail(c)
      /\ ~short => /\ IsCursor(d) /\ d.ok = c.ok /\ d.pos = start + 1
                   /\ d.len = c.len - 255 * (start - c.pos) - 1 - b
                   /\ d.sizes = c.sizes /\ d.count = c.count /\ d.cbr = c.cbr
  BY SkipIs
<1>2. ~(left <= 0)
  OBVIOUS
<1> QED
  BY <1>1, <1>2, Zenon DEF SkippedTo

(* Past the count byte and the padding length that write_range wrote.      *)
PastCount(w, ch) ==
  IF (ch \div 64) % 2 = 1 THEN SkipPadding(w, Counted(Cursor(w), ch)) ELSE Counted(Cursor(w), ch)

(* parse_frames skips the padding length that write_range wrote.           *)
LEMMA PaddingRead ==
  ASSUME NEW t, NEW fs, Selected(t, fs), NEW amount \in Nat, NEW rest \in Seq(0 .. 255),
         NEW v, WireOK(v), v.head = HeadCode3(t, fs, IsVbr(fs), amount) \o rest,
         WireLen(v) >= 2 + amount,
         NEW ch, ch = CountByte(Len(fs), IsVbr(fs), amount # 0)
  PROVE  AtFrames(PastCount(v, ch), ch, 2 + Len(PadField(amount)), WireLen(v) - 2 - amount)
<1>0. Code3Head(v, t, fs, amount, Len(PadField(amount)), rest)
  BY Code3HeadIs, Zenon
<1>1. PICK P \in Nat : P = Len(PadField(amount))
  BY <1>0 DEF Code3Head
<1>2. ByteAt(v, 1) = ch /\ Holds(v, 2, PadField(amount)) /\ Len(v.head) = 2 + P + FieldsLen(fs) + Len(rest)
      /\ Len(rest) \in Nat
  BY <1>0, <1>1, Zenon DEF Code3Head
<1>3. HeldFrames(fs) /\ Len(fs) >= 1 /\ Len(fs) \in 1 .. MAX_FRAMES
  BY SelectedIs DEF Selected
<1>4. FieldsLen(fs) \in Nat
  BY <1>3, FieldsOfAre
<1>5. PICK L \in Nat : L = WireLen(v) /\ L >= Len(v.head) /\ Len(v.head) \in Nat
  BY BytesAre
<1>6. L >= 2 + P /\ L >= 2 + amount /\ 2 + P <= Len(v.head)
  BY <1>2, <1>4, <1>5
<1>7. /\ ch \in 0 .. 255 /\ ch % 64 = Len(fs)
      /\ (ch \div 64) % 2 = 1 <=> amount # 0
  <2>1. IsVbr(fs) \in BOOLEAN /\ (amount # 0) \in BOOLEAN
    BY DEF IsVbr
  <2>2. CountRead(ch, Len(fs), IsVbr(fs), amount # 0)
    BY <1>3, <2>1, CountByteIs, Zenon
  <2> QED
    BY <2>2, Zenon DEF CountRead
<1>8. PICK d : d = Counted(Cursor(v), ch)
  OBVIOUS
<1>9. /\ IsCursor(d) /\ d.ok = TRUE /\ d.pos = 2 /\ d.len = L - 2
      /\ d.sizes = <<>> /\ d.count = ch % 64
      /\ d.cbr <=> ch < 128
  <2>1. L > 0
    BY <1>5, <1>6
  <2>2. /\ IsCursor(Cursor(v)) /\ Cursor(v).ok = TRUE /\ Cursor(v).len = L - 1
        /\ Cursor(v).sizes = <<>>
    BY <1>5, <2>1, CursorIs
  <2>3. L - 1 \in Int /\ (L - 1) - 1 = L - 2
    OBVIOUS
  <2>4. /\ IsCursor(d) /\ d.ok = Cursor(v).ok /\ d.pos = 2 /\ d.len = Cursor(v).len - 1
        /\ d.sizes = Cursor(v).sizes /\ d.count = ch % 64
        /\ d.cbr <=> ch < 128
    <3>1. PICK c : c = Cursor(v)
      OBVIOUS
    <3>2. IsCursor(c) /\ c.len \in Int /\ ch \in 0 .. 255
      BY <1>7, <2>2, <2>3, <3>1
    <3>3. CountedTo(d, c, ch)
      BY <1>8, <3>1, <3>2, CountedToIs
    <3> QED
      BY <3>1, <3>3, Zenon DEF CountedTo
  <2> QED
    BY <2>2, <2>3, <2>4, Zenon
<1>10. CASE amount = 0
  <2>1. P = 0
    BY <1>1, <1>10, PadFieldIs
  <2>2. PastCount(v, ch) = d
    BY <1>7, <1>8, <1>10 DEF PastCount
  <2>3. 2 + P = 2 /\ L - 2 - amount = L - 2
    BY <1>10, <2>1
  <2>4. AtFrames(d, ch, 2, L - 2)
    BY <1>3, <1>7, <1>9 DEF AtFrames
  <2> QED
    BY <1>1, <1>5, <2>2, <2>3, <2>4
<1>11. CASE amount # 0
  <2>1. PICK nb \in Nat, last \in 0 .. 254 : PadBytes(PadField(amount), amount, nb, last)
    BY <1>11, PadFieldIs
  <2>2. PICK q : q = PadField(amount)
    OBVIOUS
  <2>3. /\ Len(q) = nb + 1 /\ P = nb + 1 /\ 255 * nb + 1 + last = amount
        /\ \A i \in 1 .. nb : q[i] = 255
        /\ q[nb + 1] = last /\ Holds(v, 2, q)
    BY <1>1, <1>2, <2>1, <2>2 DEF PadBytes
  <2>4. ASSUME NEW i \in 1 .. nb + 1 PROVE ByteAt(v, i + 1) = q[i]
    <3>1. v.head[2 + i] = q[i]
      BY <2>3 DEF Holds
    <3>2. i + 1 < Len(v.head) /\ (i + 1) + 1 = 2 + i
      BY <1>5, <1>6, <2>3
    <3> QED
      BY <3>1, <3>2 DEF ByteAt
  <2>5. PICK k \in Nat : k = 2 + nb
    OBVIOUS
  <2>6. ByteAt(v, k) = last
    <3>1. nb + 1 \in 1 .. nb + 1 /\ (nb + 1) + 1 = k
      BY <2>5
    <3>2. ByteAt(v, (nb + 1) + 1) = q[nb + 1]
      BY <2>4, <3>1
    <3> QED
      BY <2>3, <3>1, <3>2
  <2>7. \A j \in 2 .. (k - 1) : ByteAt(v, j) = 255
    <3> TAKE j \in 2 .. (k - 1)
    <3>1. j - 1 \in 1 .. nb + 1 /\ j - 1 \in 1 .. nb /\ (j - 1) + 1 = j
      BY <2>5
    <3>2. ByteAt(v, (j - 1) + 1) = q[j - 1]
      BY <2>4, <3>1
    <3> QED
      BY <2>3, <3>1, <3>2
  <2>8. PadStop(v, 2) = k
    <3>1. k <= WireLen(v) /\ 2 <= k /\ 2 \in Nat
      BY <1>5, <1>6, <2>3, <2>5
    <3>2. ByteAt(v, k) # 255
      BY <2>6
    <3> QED
      BY <2>7, <3>1, <3>2, PadStopAt
  <2>9. PastCount(v, ch) = SkipTo(v, d, k)
    BY <1>7, <1>8, <1>9, <1>11, <2>8 DEF PastCount, SkipPadding
  <2>10. PICK e : e = SkipTo(v, d, k)
    OBVIOUS
  <2>11. PICK left \in Int : left = d.len - 255 * (k - d.pos) /\ left = L - 2 - 255 * nb
    <3>1. PICK m \in Int : m = L - 2
      OBVIOUS
    <3>2. d.len = m /\ d.pos = 2 /\ k - 2 = nb
      BY <1>9, <2>5, <3>1
    <3>3. d.len - 255 * (k - d.pos) = m - 255 * nb
      BY <3>2
    <3>4. m - 255 * nb \in Int
      OBVIOUS
    <3> QED
      BY <3>1, <3>3, <3>4, Zenon
  <2>12. left > 0 /\ left - 1 - last = L - 2 - amount
    <3>1. left = L - 2 - 255 * nb
      BY <2>11, Zenon
    <3>2. L >= 2 + amount /\ 255 * nb + 1 + last = amount
      BY <1>6, <2>3
    <3> QED
      BY <3>1, <3>2
  <2>13. /\ IsCursor(e) /\ e.ok = d.ok /\ e.pos = k + 1 /\ e.len = left - 1 - last
         /\ e.sizes = d.sizes /\ e.count = d.count /\ e.cbr = d.cbr
    <3>1. SkippedTo(e, d, k, left - 1 - last)
      <4>1. IsCursor(d) /\ last = ByteAt(v, k) /\ left > 0 /\ left = d.len - 255 * (k - d.pos)
        BY <1>9, <2>6, <2>11, <2>12, Zenon
      <4>2. SkippedTo(SkipTo(v, d, k), d, k, left - 1 - last)
        BY <4>1, SkippedToIs, Zenon
      <4> QED
        BY <2>10, <4>2, Zenon
    <3> QED
      BY <3>1, Zenon DEF SkippedTo
  <2>14. e.len = L - 2 - amount /\ e.pos = 2 + P
    BY <2>3, <2>5, <2>12, <2>13
  <2>15. AtFrames(e, ch, 2 + P, L - 2 - amount)
    BY <1>3, <1>7, <1>9, <2>13, <2>14 DEF AtFrames
  <2> QED
    BY <1>1, <1>5, <2>9, <2>10, <2>15
<1> QED
  BY <1>10, <1>11

(* The last size completes the sizes.                                      *)
LEMMA LensAppend ==
  ASSUME NEW fs, HeldFrames(fs), NEW n \in Nat, n = Len(fs), n >= 1
  PROVE  /\ Append(FirstLens(fs, n - 1), fs[n].len) = Lens(fs)
         /\ SumLens(fs) = SumTo(Lens(fs), n - 1) + fs[n].len
         /\ fs[n].len \in 0 .. MaxFrameBytes /\ fs[n].len \in Nat
<1>1. /\ DOMAIN fs = 1 .. n
      /\ \A i \in 1 .. n : Lens(fs)[i] = fs[i].len /\ fs[i].len \in 0 .. MaxFrameBytes /\ fs[i].len \in Nat
  BY HeldAre
<1>2. PICK m \in Nat : m = n - 1 /\ m + 1 = n
  OBVIOUS
<1>3. n \in 1 .. n
  OBVIOUS
<1>4. PICK last \in Nat : last = fs[n].len /\ last \in 0 .. MaxFrameBytes /\ last = Lens(fs)[n]
  BY <1>1, <1>3
<1>5. SumLens(fs) = SumTo(Lens(fs), m) + last
  <2>1. SumTo(Lens(fs), m + 1) = SumTo(Lens(fs), m) + Lens(fs)[m + 1]
    BY SumStep
  <2>2. SumLens(fs) = SumTo(Lens(fs), n)
    BY DEF SumLens
  <2> QED
    BY <1>2, <1>4, <2>1, <2>2
<1>6. PICK first : first = FirstLens(fs, m)
  OBVIOUS
<1>7. first \in Seq(Nat) /\ Len(first) = m /\ \A i \in 1 .. m : first[i] = fs[i].len
  <2>1. first = [j \in 1 .. m |-> fs[j].len]
    BY <1>6 DEF FirstLens
  <2>2. \A i \in 1 .. m : fs[i].len \in Nat
    BY <1>1, <1>2
  <2> QED
    BY <2>1, <2>2
<1>8. PICK z : z = Append(first, last)
  OBVIOUS
<1>9. /\ z \in Seq(Nat) /\ Len(z) = m + 1 /\ z[m + 1] = last
      /\ \A i \in 1 .. m : z[i] = first[i]
  BY <1>4, <1>7, <1>8
<1>10. ASSUME NEW i \in 1 .. n PROVE z[i] = fs[i].len
  <2>1. CASE i = n
    BY <1>2, <1>4, <1>9, <2>1
  <2>2. CASE i # n
    <3>1. i \in 1 .. m
      BY <1>2, <2>2
    <3> QED
      BY <1>7, <1>9, <3>1
  <2> QED
    BY <2>1, <2>2
<1>11. z = [i \in 1 .. n |-> z[i]]
  BY <1>2, <1>9
<1>12. z = [i \in 1 .. n |-> fs[i].len]
  BY <1>10, <1>11
<1>13. Lens(fs) = [i \in 1 .. n |-> fs[i].len]
  BY <1>1 DEF Lens
<1>14. z = Lens(fs)
  BY <1>12, <1>13
<1> QED
  BY <1>2, <1>4, <1>5, <1>6, <1>8, <1>14

(* Frames of one size.                                                     *)
OneSize(fs, n, size) ==
  /\ SumLens(fs) = n * size
  /\ Lens(fs) = [i \in 1 .. n |-> size]
  /\ FirstLens(fs, n - 1) = [i \in 1 .. (n - 1) |-> size]

(* Frames of equal size: each is a share of the sum.                       *)
LEMMA EqualLens ==
  ASSUME NEW fs, HeldFrames(fs), ~IsVbr(fs), NEW n \in Nat, n = Len(fs), n >= 1,
         NEW size \in Nat, size = fs[n].len
  PROVE  OneSize(fs, n, size)
<1>1. /\ DOMAIN fs = 1 .. n
      /\ \A i \in 1 .. n : Lens(fs)[i] = fs[i].len
  BY HeldAre
<1>2. \A i \in 1 .. n : fs[i].len = size
  <2>1. \A i \in 1 .. n : fs[i].len = fs[1].len
    BY <1>1 DEF IsVbr
  <2>2. n \in 1 .. n
    OBVIOUS
  <2> QED
    BY <2>1, <2>2
<1>3. SumTo(Lens(fs), n) = n * size
  <2>1. \A i \in 1 .. n : Lens(fs)[i] = size
    BY <1>1, <1>2
  <2>2. \A m \in 0 .. n : SumTo(Lens(fs), m) = m * size
    BY <2>1, SumEqual
  <2>3. n \in 0 .. n
    OBVIOUS
  <2> QED
    BY <2>2, <2>3
<1>4. SumLens(fs) = n * size
  BY <1>3 DEF SumLens
<1>5. Lens(fs) = [i \in 1 .. n |-> size]
  BY <1>1, <1>2 DEF Lens
<1>6. FirstLens(fs, n - 1) = [i \in 1 .. (n - 1) |-> size]
  <2>1. \A i \in 1 .. (n - 1) : fs[i].len = size
    BY <1>2
  <2> QED
    BY <2>1 DEF FirstLens
<1> QED
  BY <1>4, <1>5, <1>6 DEF OneSize

(* A cursor at the end of the head, with the sizes of fs.                  *)
AllRead(d, fs, pos) == d.ok = TRUE /\ d.pos = pos /\ d.sizes = Lens(fs)

(* The last size is what is left.                                          *)
LEMMA LastRead ==
  ASSUME NEW w, NEW fs, HeldFrames(fs), NEW n \in Nat, n = Len(fs), n >= 1,
         NEW c, IsCursor(c), c.ok = TRUE, c.sizes = FirstLens(fs, n - 1), c.last = fs[n].len
  PROVE  AllRead(LastSize(w, c, FALSE), fs, c.pos)
<1>1. PICK last \in Nat : last = c.last /\ last <= MaxFrameBytes /\ last = fs[n].len
  <2>1. fs[n].len \in 0 .. MaxFrameBytes /\ fs[n].len \in Nat
    BY LensAppend
  <2> QED
    BY <2>1
<1>2. PICK d : d = LastSize(w, c, FALSE)
  OBVIOUS
<1>3. /\ d.ok \in BOOLEAN
      /\ d.ok <=> c.ok /\ c.last <= MaxFrameBytes
      /\ d.ok => d.pos = c.pos /\ d.sizes = Append(c.sizes, c.last)
  <2>1. c.ok \in BOOLEAN
    OBVIOUS
  <2>2. c.ok => c.last \in Int
    BY <1>1
  <2> QED
    BY <1>2, <2>1, <2>2, LastSizeIs
<1>4. d.ok = TRUE /\ d.pos = c.pos /\ d.sizes = Append(c.sizes, c.last)
  BY <1>1, <1>3
<1>5. Append(FirstLens(fs, n - 1), fs[n].len) = Lens(fs)
  BY LensAppend
<1> QED
  BY <1>2, <1>4, <1>5 DEF AllRead

(* Equal frames share what is left.                                        *)
LEMMA EqualRead ==
  ASSUME NEW w, NEW fs, HeldFrames(fs), ~IsVbr(fs), NEW n \in Nat, n = Len(fs), n >= 1,
         NEW c, IsCursor(c), c.ok = TRUE, c.count = n, c.len = SumLens(fs)
  PROVE  AllRead(LastSize(w, TakeEqual(c), FALSE), fs, c.pos)
<1>1. PICK size \in Nat : size = fs[n].len
  BY LensAppend
<1>2. SumLens(fs) = n * size /\ FirstLens(fs, n - 1) = [i \in 1 .. (n - 1) |-> size]
  <2>1. OneSize(fs, n, size)
    BY <1>1, EqualLens
  <2> QED
    BY <2>1 DEF OneSize
<1>3. (n * size) \div n = size /\ (n * size) % n = 0
  <2>1. n \in Nat \ {0}
    OBVIOUS
  <2> QED
    BY <2>1, DivExact
<1>4. c.len % c.count = 0 /\ c.len \div c.count = size
  BY <1>2, <1>3
<1>5. PICK e : e = TakeEqual(c)
  OBVIOUS
<1>6. e = [c EXCEPT !.last = size, !.sizes = FirstLens(fs, n - 1)]
  BY <1>2, <1>4, <1>5 DEF TakeEqual
<1>7. IsCursor(e) /\ e.ok = TRUE /\ e.sizes = FirstLens(fs, n - 1) /\ e.last = fs[n].len /\ e.pos = c.pos
  <2>1. c = [x \in CursorFields |-> c[x]]
    BY DEF IsCursor
  <2> QED
    BY <1>1, <1>6, <2>1 DEF IsCursor, CursorFields
<1>8. AllRead(LastSize(w, e, FALSE), fs, e.pos)
  BY <1>7, LastRead
<1> QED
  BY <1>5, <1>7, <1>8

(* A cursor past all the sizes but the last; more: what lies behind the    *)
(* last frame.                                                             *)
SizesKnown(d, fs, n, pos, more) ==
  /\ IsCursor(d) /\ d.ok = TRUE /\ d.pos = pos /\ ~d.cbr
  /\ d.len = SumLens(fs) + more /\ d.last = fs[n].len + more
  /\ d.sizes = FirstLens(fs, n - 1)

(* The sizes of a code-3 packet whose frames differ.                       *)
LEMMA ExplicitRead ==
  ASSUME NEW v, WireOK(v), NEW fs, HeldFrames(fs), IsVbr(fs), NEW n \in Nat, n = Len(fs), n >= 1,
         NEW pos \in Nat, NEW more \in Nat,
         NEW c, IsCursor(c), c.ok = TRUE, c.pos = pos, c.len = FieldsLen(fs) + SumLens(fs) + more,
         c.sizes = <<>>, c.count = n, ~c.cbr,
         Holds(v, pos, FieldsOf(fs)), NEW sd
  PROVE  SizesKnown(CutCode3(v, c, sd), fs, n, pos + FieldsLen(fs), more)
<1>1. PICK m \in Nat : m = n - 1 /\ m \in 0 .. Len(fs)
  <2>1. n - 1 \in Nat /\ n - 1 \in 0 .. n
    OBVIOUS
  <2> QED
    BY <2>1
<1>2. PICK F \in Nat : F = SumTo(FieldLens(fs), m)
  BY <1>1, HeldSums
<1>3. PICK S \in Nat : S = SumTo(Lens(fs), m)
  BY <1>1, HeldSums
<1>4. PICK last \in Nat : last = fs[n].len /\ SumLens(fs) = S + last
  <2>1. SumLens(fs) = SumTo(Lens(fs), n - 1) + fs[n].len /\ fs[n].len \in Nat
    BY LensAppend
  <2> QED
    BY <1>1, <1>3, <2>1
<1>5. FieldsLen(fs) = F /\ FieldsOf(fs) = SizeFields(fs, m)
  BY <1>1, <1>2 DEF FieldsLen, FieldsOf
<1>6. PICK len \in Nat : len = c.len /\ len = F + (S + last) + more
  <2>1. c.len = F + (S + last) + more
    BY <1>4, <1>5
  <2> QED
    BY <2>1
<1>7. PICK b : b = [c EXCEPT !.last = c.len]
  OBVIOUS
<1>8. /\ IsCursor(b) /\ b.ok = TRUE /\ b.pos = pos /\ b.len = len /\ b.last = len /\ b.sizes = <<>>
      /\ b.count = n /\ b.cbr = c.cbr
  <2>1. c = [x \in CursorFields |-> c[x]]
    BY DEF IsCursor
  <2> QED
    BY <1>6, <1>7, <2>1 DEF IsCursor, CursorFields
<1>9. PICK d : d = TakeSizes(v, b, m)
  OBVIOUS
<1>10. Read(d, b, fs, m)
  <2>1. b.pos \in Nat /\ b.len \in Int /\ b.last \in Int
    BY <1>8
  <2>2. SumTo(FieldLens(fs), m) + SumTo(Lens(fs), m) <= b.len
    BY <1>2, <1>3, <1>6, <1>8
  <2>3. Holds(v, b.pos, SizeFields(fs, m))
    BY <1>5, <1>8
  <2> QED
    BY <1>1, <1>8, <1>9, <2>1, <2>2, <2>3, FieldsRead
<1>11. /\ IsCursor(d) /\ d.ok = TRUE /\ d.pos = pos + F /\ d.len = len - F
       /\ d.last = len - F - S /\ d.sizes = FirstLens(fs, m) /\ d.cbr = b.cbr
  BY <1>2, <1>3, <1>8, <1>10 DEF Read
<1>12. d.len = (S + last) + more /\ d.last = last + more
  BY <1>6, <1>11
<1>13. LastFits(d) = d
  <2>1. ~(d.last < 0)
    BY <1>12
  <2> QED
    BY <2>1 DEF LastFits
<1>14. CutCode3(v, c, sd) = d
  <2>1. ~(~c.ok \/ c.len < 0) /\ c.len >= 0 /\ ~c.cbr
    BY <1>6
  <2>2. CutCode3(v, c, sd) = LastFits(TakeSizes(v, [c EXCEPT !.last = c.len], c.count - 1))
    BY <2>1 DEF CutCode3
  <2>3. c.count - 1 = m
    BY <1>1
  <2> QED
    BY <1>7, <1>9, <1>13, <2>2, <2>3
<1>15. ~d.cbr /\ pos + F = pos + FieldsLen(fs)
  BY <1>5, <1>8, <1>11
<1>16. d.len = SumLens(fs) + more /\ d.last = fs[n].len + more /\ d.pos = pos + FieldsLen(fs)
       /\ d.sizes = FirstLens(fs, n - 1)
  BY <1>1, <1>4, <1>11, <1>12, <1>15
<1> QED
  BY <1>11, <1>14, <1>15, <1>16 DEF SizesKnown

(* The explicit last size of a self-delimited packet.                      *)
LEMMA LastDelimited ==
  ASSUME NEW v, WireOK(v), NEW fs, HeldFrames(fs), NEW n \in Nat, n = Len(fs), n >= 1,
         NEW pos \in Nat, NEW more \in Nat, NEW c,
         SizesKnown(c, fs, n, pos, FieldLen(fs[n].len) + more),
         Holds(v, pos, put_size(fs[n].len))
  PROVE  AllRead(LastSize(v, c, TRUE), fs, pos + FieldLen(fs[n].len))
<1>1. PICK last \in 0 .. MaxFrameBytes : last = fs[n].len /\ last \in Nat
  BY LensAppend
<1>2. PICK b \in {1, 2} : b = FieldLen(last)
  BY <1>1, PutSizeIs
<1>3. /\ IsCursor(c) /\ c.ok = TRUE /\ c.pos = pos /\ ~c.cbr
      /\ c.len = SumLens(fs) + (b + more) /\ c.last = last + (b + more)
      /\ c.sizes = FirstLens(fs, n - 1)
  BY <1>1, <1>2 DEF SizesKnown
<1>4. PICK sum \in Nat : sum = SumLens(fs) /\ last <= sum
  <2>1. SumLens(fs) = SumTo(Lens(fs), n - 1) + fs[n].len
    BY LensAppend
  <2>2. n - 1 \in 0 .. Len(fs)
    OBVIOUS
  <2>3. SumTo(Lens(fs), n - 1) \in Nat
    BY <2>2, HeldSums
  <2> QED
    BY <1>1, <2>1, <2>3
<1>5. PICK s : s = SizeAt(v, pos)
  OBVIOUS
<1>6. s.bytes = b /\ s.size = last
  BY <1>1, <1>2, <1>5, SizeReadBack
<1>7. PICK d : d = ExplicitLast(c, s)
  OBVIOUS
<1>8. ~(\/ s.bytes < 0
        \/ s.size > c.len - s.bytes
        \/ c.cbr /\ s.size * c.count > c.len - s.bytes
        \/ ~c.cbr /\ s.bytes + s.size > c.last)
  <2>1. ~(b < 0) /\ ~(last > sum + (b + more) - b) /\ ~(b + last > last + (b + more))
    BY <1>1, <1>4
  <2> QED
    BY <1>3, <1>4, <1>6, <2>1
<1>9. d = [c EXCEPT !.pos = @ + s.bytes, !.len = @ - s.bytes, !.sizes = Append(@, s.size)]
  BY <1>3, <1>7, <1>8 DEF ExplicitLast
<1>10. d.ok = TRUE /\ d.pos = pos + b /\ d.sizes = Append(FirstLens(fs, n - 1), last)
  <2>1. c = [x \in CursorFields |-> c[x]]
    BY <1>3 DEF IsCursor
  <2>2. d.ok = c.ok /\ d.pos = c.pos + s.bytes /\ d.sizes = Append(c.sizes, s.size)
    BY <1>9, <2>1 DEF CursorFields
  <2> QED
    BY <1>3, <1>6, <2>2
<1>11. Append(FirstLens(fs, n - 1), last) = Lens(fs)
  BY <1>1, LensAppend
<1>12. LastSize(v, c, TRUE) = d
  BY <1>3, <1>5, <1>7 DEF LastSize
<1> QED
  BY <1>1, <1>2, <1>10, <1>11, <1>12 DEF AllRead

(* The explicit size of equal frames.                                      *)
LEMMA EqualDelimited ==
  ASSUME NEW v, WireOK(v), NEW fs, HeldFrames(fs), ~IsVbr(fs), NEW n \in Nat, n = Len(fs), n >= 1,
         NEW pos \in Nat, NEW more \in Nat,
         NEW c, IsCursor(c), c.ok = TRUE, c.pos = pos, c.count = n, c.cbr,
         c.len = SumLens(fs) + (FieldLen(fs[n].len) + more),
         Holds(v, pos, put_size(fs[n].len))
  PROVE  AllRead(LastSize(v, c, TRUE), fs, pos + FieldLen(fs[n].len))
<1>1. PICK last \in 0 .. MaxFrameBytes : last = fs[n].len /\ last \in Nat
  BY LensAppend
<1>2. PICK b \in {1, 2} : b = FieldLen(last)
  BY <1>1, PutSizeIs
<1>3. OneSize(fs, n, last)
  BY <1>1, EqualLens
<1>4. PICK sum \in Nat : sum = SumLens(fs) /\ sum = last * n /\ last <= sum
  <2>1. SumLens(fs) = n * last
    BY <1>3 DEF OneSize
  <2>2. n * last = last * n /\ n * last \in Nat /\ last <= n * last
    BY <1>1
  <2> QED
    BY <2>1, <2>2
<1>5. PICK s : s = SizeAt(v, pos)
  OBVIOUS
<1>6. s.bytes = b /\ s.size = last
  BY <1>1, <1>2, <1>5, SizeReadBack
<1>7. PICK d : d = ExplicitLast(c, s)
  OBVIOUS
<1>8. c.len = sum + (b + more)
  BY <1>1, <1>2, <1>4
<1>9. ~(\/ s.bytes < 0
        \/ s.size > c.len - s.bytes
        \/ c.cbr /\ s.size * c.count > c.len - s.bytes
        \/ ~c.cbr /\ s.bytes + s.size > c.last)
  <2>1. ~(b < 0) /\ ~(last > sum + (b + more) - b) /\ ~(sum > sum + (b + more) - b)
    BY <1>1, <1>4
  <2>2. s.size * c.count = sum /\ s.size = last /\ s.bytes = b
    BY <1>4, <1>6
  <2> QED
    BY <1>8, <2>1, <2>2
<1>10. d = [c EXCEPT !.pos = @ + s.bytes, !.len = @ - s.bytes, !.sizes = [i \in 1 .. c.count |-> s.size]]
  BY <1>7, <1>9 DEF ExplicitLast
<1>11. d.ok = TRUE /\ d.pos = pos + b /\ d.sizes = [i \in 1 .. n |-> last]
  <2>1. c = [x \in CursorFields |-> c[x]]
    BY DEF IsCursor
  <2>2. d.ok = c.ok /\ d.pos = c.pos + s.bytes /\ d.sizes = [i \in 1 .. c.count |-> s.size]
    BY <1>10, <2>1 DEF CursorFields
  <2> QED
    BY <1>6, <2>2
<1>12. Lens(fs) = [i \in 1 .. n |-> last]
  BY <1>3 DEF OneSize
<1>13. LastSize(v, c, TRUE) = d
  BY <1>5, <1>7 DEF LastSize
<1> QED
  BY <1>1, <1>2, <1>11, <1>12, <1>13 DEF AllRead

(* A TOC byte gives a number of samples.                                   *)
LEMMA SamplesNat ==
  ASSUME NEW t \in 0 .. 255
  PROVE  Samples48k(t) \in Nat
<1>1. PICK s \in Nat : s = Framesize(t)
  BY SamplesIs DEF Framesize
<1>2. Samples48k(t) = 6 * s
  BY <1>1, SamplesIs DEF Framesize, Samples48k
<1> QED
  BY <1>2

(* The count byte of frames a packet can carry is one.                     *)
Counts(ch, n) == ch % 64 = n

(* parse_frames takes the count of frames that one packet carries.         *)
LEMMA CountAccepted ==
  ASSUME NEW t, NEW fs, Selected(t, fs), NEW v, ByteAt(v, 0) = WithCode(t, 3),
         NEW c, c.len \in Int, c.len >= 1, NEW ch, Counts(ch, Len(fs))
  PROVE  ~NoCount(v, c, ch)
<1>1. Len(fs) \in 1 .. MAX_FRAMES /\ Carries48k(WithCode(t, 3), Len(fs))
  <2>1. 3 \in 0 .. 3
    OBVIOUS
  <2>2. /\ Len(fs) \in 1 .. MAX_FRAMES
        /\ \A k \in 0 .. 3 : Carries48k(WithCode(t, k), Len(fs))
    BY SelectedIs, Zenon
  <2> QED
    BY <2>1, <2>2, Zenon
<1>2. PICK n \in Nat : n = Len(fs) /\ n >= 1
  <2>1. PICK n \in 1 .. MAX_FRAMES : n = Len(fs)
    BY <1>1, Zenon
  <2>2. n \in Nat /\ n >= 1
    BY DEF MAX_FRAMES
  <2> QED
    BY <2>1, <2>2, Zenon
<1>3. PICK s \in Int : s = Samples48k(WithCode(t, 3))
  <2>1. t \in 0 .. 255 /\ 3 \in 0 .. 3
    BY DEF Selected
  <2>2. WithCode(t, 3) \in 0 .. 255
    BY <2>1, TocIs
  <2>3. Samples48k(WithCode(t, 3)) \in Nat
    BY <2>2, SamplesNat
  <2> QED
    BY <2>3
<1>4. s * n <= MaxPacketSamples48k
  BY <1>1, <1>2, <1>3 DEF Carries48k
<1>5. PICK p \in Int : p = s * n /\ p <= MaxPacketSamples48k
  BY <1>4
<1>6. ~(p > MaxPacketSamples48k) /\ ~(n = 0) /\ ~(c.len < 1)
  BY <1>2, <1>5 DEF MaxPacketSamples48k
<1>7. s = samples_per_frame(ByteAt(v, 0), 48000)
  BY <1>3 DEF Samples48k
<1> QED
  BY <1>2, <1>5, <1>6, <1>7 DEF NoCount, Counts

(* Where the parser of a code-3 packet stands past what comes before the   *)
(* sizes; rest: what follows them in the head.                             *)
Standing(v, fs, n, rest, left, sd, c, pos) ==
  /\ pos \in Nat /\ IsCursor(c) /\ c.ok = TRUE /\ c.pos = pos /\ c.len = left
  /\ c.sizes = <<>> /\ c.count = n
  /\ c.cbr <=> ~IsVbr(fs)
  /\ Holds(v, pos, FieldsOf(fs)) /\ Holds(v, pos + FieldsLen(fs), rest)
  /\ Len(v.head) = pos + FieldsLen(fs) + Len(rest)
  /\ ParseCode3(v, Cursor(v), ByteAt(v, 1), sd) = CutCode3(v, c, sd)

(* Past count and padding, parse_frames stands at the size fields.         *)
LEMMA Code3Stands ==
  ASSUME NEW t, NEW fs, Selected(t, fs), NEW n \in Nat, n = Len(fs),
         NEW amount \in Nat, NEW rest \in Seq(0 .. 255),
         NEW v, WireOK(v), v.head = HeadCode3(t, fs, IsVbr(fs), amount) \o rest,
         NEW left \in Nat, WireLen(v) = 2 + amount + left, NEW sd
  PROVE  \E c, pos : Standing(v, fs, n, rest, left, sd, c, pos)
<1>1. HeldFrames(fs) /\ n >= 1 /\ n \in 1 .. MAX_FRAMES
  <2>1. HeldFrames(fs) /\ Len(fs) >= 1 /\ Len(fs) \in 1 .. MAX_FRAMES
    BY SelectedIs DEF Selected
  <2> QED
    BY <2>1
<1>2. PICK P \in Nat : P = Len(PadField(amount)) /\ Code3Head(v, t, fs, amount, P, rest)
  <2>1. Code3Head(v, t, fs, amount, Len(PadField(amount)), rest)
    BY Code3HeadIs, Zenon
  <2>2. Len(PadField(amount)) \in Nat
    BY <2>1 DEF Code3Head
  <2> QED
    BY <2>1, <2>2, Zenon
<1>3. PICK ch : ch = CountByte(n, IsVbr(fs), amount # 0) /\ ch = ByteAt(v, 1)
  BY <1>2 DEF Code3Head
<1>4. PICK vbr \in BOOLEAN : vbr = IsVbr(fs)
  BY DEF IsVbr
<1>5. /\ ch \in 0 .. 255 /\ ch % 64 = n
      /\ ch < 128 <=> ~IsVbr(fs)
  <2>1. (amount # 0) \in BOOLEAN
    OBVIOUS
  <2>2. CountRead(ch, n, vbr, amount # 0)
    BY <1>1, <1>3, <1>4, <2>1, CountByteIs, Zenon
  <2> QED
    BY <1>4, <2>2, Zenon DEF CountRead
<1>6. PICK c : c = PastCount(v, ch)
  OBVIOUS
<1>7. PICK pos \in Nat : pos = 2 + P
  OBVIOUS
<1>8. AtFrames(c, ch, pos, left)
  <2>1. WireLen(v) >= 2 + amount /\ WireLen(v) - 2 - amount = left
    OBVIOUS
  <2>2. ch = CountByte(Len(fs), IsVbr(fs), amount # 0)
    BY <1>3
  <2>3. AtFrames(PastCount(v, ch), ch, 2 + Len(PadField(amount)), WireLen(v) - 2 - amount)
    BY <2>1, <2>2, PaddingRead, Zenon
  <2> QED
    BY <1>2, <1>6, <1>7, <2>1, <2>3, Zenon
<1>9. /\ IsCursor(c) /\ c.ok = TRUE /\ c.pos = pos /\ c.len = left
      /\ c.sizes = <<>> /\ c.count = n
      /\ c.cbr <=> ~IsVbr(fs)
  <2>1. /\ IsCursor(c) /\ c.ok = TRUE /\ c.pos = pos /\ c.len = left
        /\ c.sizes = <<>> /\ c.count = ch % 64
        /\ c.cbr <=> ch < 128
    BY <1>8 DEF AtFrames
  <2> QED
    BY <1>5, <2>1, Zenon
<1>10. /\ Holds(v, pos, FieldsOf(fs)) /\ Holds(v, pos + FieldsLen(fs), rest)
       /\ Len(v.head) = pos + FieldsLen(fs) + Len(rest)
       /\ ByteAt(v, 0) = WithCode(t, 3)
  BY <1>2, <1>7, Zenon DEF Code3Head
<1>11. ParseCode3(v, Cursor(v), ch, sd) = CutCode3(v, c, sd)
  <2>1. PICK z : z = Cursor(v)
    OBVIOUS
  <2>2. z.len \in Int /\ z.len >= 1
    <3>1. WireLen(v) > 0 /\ WireLen(v) \in Nat /\ WireLen(v) - 1 >= 1
      OBVIOUS
    <3>2. z.len = WireLen(v) - 1
      BY <2>1, <3>1, CursorIs
    <3> QED
      BY <3>1, <3>2
  <2>3. Counts(ch, Len(fs))
    BY <1>5 DEF Counts
  <2>4. ~NoCount(v, z, ch)
    BY <1>10, <2>2, <2>3, CountAccepted, Zenon
  <2>5. ParseCode3(v, z, ch, sd) =
          CutCode3(v, IF (ch \div 64) % 2 = 1 THEN SkipPadding(v, Counted(z, ch)) ELSE Counted(z, ch), sd)
    BY <2>4, Code3Steps, Zenon
  <2> QED
    BY <1>6, <2>1, <2>5, Zenon DEF PastCount
<1>12. Standing(v, fs, n, rest, left, sd, c, pos)
  BY <1>3, <1>7, <1>9, <1>10, <1>11, Zenon DEF Standing
<1> QED
  BY <1>12

(* The sizes of a code-3 packet, read back: the last one what is left.     *)
LEMMA Code3Plain ==
  ASSUME NEW t, NEW fs, Selected(t, fs), NEW amount \in Nat,
         NEW v, WireOK(v), v.head = HeadCode3(t, fs, IsVbr(fs), amount) \o <<>>,
         WireLen(v) = 2 + amount + (FieldsLen(fs) + SumLens(fs))
  PROVE  AllRead(LastSize(v, ParseCode3(v, Cursor(v), ByteAt(v, 1), FALSE), FALSE), fs, Len(v.head))
<1>1. HeldFrames(fs) /\ Len(fs) >= 1
  BY DEF Selected
<1>2. PICK n \in Nat : n = Len(fs) /\ n >= 1
  BY <1>1, HeldAre
<1>3. PICK fields \in Nat : fields = FieldsLen(fs)
  BY <1>1, FieldsOfAre
<1>4. PICK sum \in Nat : sum = SumLens(fs)
  BY <1>1, HeldAre
<1>5. PICK left \in Nat : left = fields + sum
  OBVIOUS
<1>6. WireLen(v) = 2 + amount + left
  BY <1>3, <1>4, <1>5
<1>7. <<>> \in Seq(0 .. 255) /\ Len(<<>>) = 0
  OBVIOUS
<1>70. PICK c, pos : Standing(v, fs, n, <<>>, left, FALSE, c, pos)
  BY <1>2, <1>6, <1>7, Code3Stands, Zenon
<1>8. /\ pos \in Nat /\ IsCursor(c) /\ c.ok = TRUE /\ c.pos = pos /\ c.len = left
      /\ c.sizes = <<>> /\ c.count = n
      /\ c.cbr <=> ~IsVbr(fs)
      /\ Holds(v, pos, FieldsOf(fs)) /\ Holds(v, pos + FieldsLen(fs), <<>>)
      /\ Len(v.head) = pos + FieldsLen(fs) + Len(<<>>)
      /\ ParseCode3(v, Cursor(v), ByteAt(v, 1), FALSE) = CutCode3(v, c, FALSE)
  BY <1>70, Zenon DEF Standing
<1>9. Len(v.head) = pos + fields
  BY <1>3, <1>7, <1>8
<1>10. PICK d : d = CutCode3(v, c, FALSE)
  OBVIOUS
<1>11. CASE IsVbr(fs)
  <2>1. SizesKnown(d, fs, n, pos + fields, 0)
    <3>1. 0 \in Nat /\ c.len = FieldsLen(fs) + SumLens(fs) + 0 /\ ~c.cbr
      BY <1>3, <1>4, <1>5, <1>8, <1>11
    <3>2. SizesKnown(CutCode3(v, c, FALSE), fs, n, pos + FieldsLen(fs), 0)
      BY <1>1, <1>2, <1>8, <1>11, <3>1, ExplicitRead, Zenon
    <3> QED
      BY <1>3, <1>10, <3>2
  <2>2. IsCursor(d) /\ d.ok = TRUE /\ d.sizes = FirstLens(fs, n - 1) /\ d.pos = pos + fields
        /\ d.last = fs[n].len + 0
    BY <2>1 DEF SizesKnown
  <2>3. d.last = fs[n].len
    <3>1. fs[n].len \in Nat
      BY <1>1, <1>2, LensAppend
    <3> QED
      BY <2>2, <3>1
  <2>4. AllRead(LastSize(v, d, FALSE), fs, d.pos)
    BY <1>1, <1>2, <2>2, <2>3, LastRead
  <2> QED
    BY <1>8, <1>9, <1>10, <2>2, <2>4
<1>12. CASE ~IsVbr(fs)
  <2>1. fields = 0 /\ c.len = SumLens(fs) /\ c.cbr
    BY <1>3, <1>4, <1>5, <1>8, <1>12 DEF FieldsLen
  <2>2. d = TakeEqual(c)
    <3>1. ~(~c.ok \/ c.len < 0) /\ c.ok /\ c.len >= 0
      BY <1>5, <1>8
    <3> QED
      BY <1>10, <2>1, <3>1 DEF CutCode3
  <2>3. AllRead(LastSize(v, TakeEqual(c), FALSE), fs, c.pos)
    BY <1>1, <1>2, <1>8, <1>12, <2>1, EqualRead
  <2>4. c.pos = Len(v.head)
    BY <1>8, <1>9, <2>1
  <2>5. ParseCode3(v, Cursor(v), ByteAt(v, 1), FALSE) = TakeEqual(c)
    BY <1>8, <1>10, <2>2, Zenon
  <2> QED
    BY <2>3, <2>4, <2>5, Zenon
<1> QED
  BY <1>11, <1>12

(* The sizes of a self-delimited code-3 packet: the last one explicit.     *)
LEMMA Code3Delimited ==
  ASSUME NEW t, NEW fs, Selected(t, fs), NEW n \in Nat, n = Len(fs),
         NEW v, WireOK(v),
         v.head = HeadCode3(t, fs, IsVbr(fs), 0) \o put_size(fs[n].len),
         NEW more \in Nat, WireLen(v) = Len(v.head) + SumLens(fs) + more
  PROVE  AllRead(LastSize(v, ParseCode3(v, Cursor(v), ByteAt(v, 1), TRUE), TRUE), fs, Len(v.head))
<1>1. HeldFrames(fs) /\ n >= 1
  BY DEF Selected
<1>2. PICK last \in 0 .. MaxFrameBytes : last = fs[n].len
  BY <1>1, LensAppend
<1>3. PICK fields \in Nat : fields = FieldsLen(fs)
  BY <1>1, FieldsOfAre
<1>4. PICK sum \in Nat : sum = SumLens(fs)
  BY <1>1, HeldAre
<1>5. PICK rest : rest = put_size(last)
  OBVIOUS
<1>6. rest \in Seq(0 .. 255) /\ Len(rest) = FieldLen(last) /\ FieldLen(last) \in {1, 2}
  BY <1>5, PutSizeIs
<1>7. PICK b \in Nat : b = FieldLen(last)
  BY <1>6
<1>8. v.head = HeadCode3(t, fs, IsVbr(fs), 0) \o rest
  BY <1>2, <1>5
<1>9. Len(v.head) = 2 + fields + b
  <2>1. 0 \in Nat
    OBVIOUS
  <2>2. Code3Head(v, t, fs, 0, Len(PadField(0)), rest)
    BY <1>6, <1>8, <2>1, Code3HeadIs, Zenon
  <2>3. Len(PadField(0)) = 0
    BY <2>1, PadFieldIs
  <2>4. Len(v.head) = 2 + Len(PadField(0)) + FieldsLen(fs) + Len(rest)
    BY <2>2 DEF Code3Head
  <2> QED
    BY <1>3, <1>6, <1>7, <2>3, <2>4
<1>10. PICK left \in Nat : left = fields + sum + (b + more)
  OBVIOUS
<1>11. WireLen(v) = 2 + 0 + left
  BY <1>4, <1>9, <1>10
<1>110. PICK c, pos : Standing(v, fs, n, rest, left, TRUE, c, pos)
  <2>1. 0 \in Nat
    OBVIOUS
  <2> QED
    BY <1>6, <1>8, <1>11, <2>1, Code3Stands, Zenon
<1>12. /\ pos \in Nat /\ IsCursor(c) /\ c.ok = TRUE /\ c.pos = pos /\ c.len = left
       /\ c.sizes = <<>> /\ c.count = n
       /\ c.cbr <=> ~IsVbr(fs)
       /\ Holds(v, pos, FieldsOf(fs)) /\ Holds(v, pos + FieldsLen(fs), rest)
       /\ Len(v.head) = pos + FieldsLen(fs) + Len(rest)
       /\ ParseCode3(v, Cursor(v), ByteAt(v, 1), TRUE) = CutCode3(v, c, TRUE)
  BY <1>110, Zenon DEF Standing
<1>13. PICK p \in Nat : p = pos + fields /\ Len(v.head) = p + b /\ Holds(v, p, rest)
  BY <1>3, <1>6, <1>7, <1>12
<1>14. Holds(v, p, put_size(fs[n].len)) /\ FieldLen(fs[n].len) = b
  BY <1>2, <1>5, <1>7, <1>13
<1>15. PICK d : d = CutCode3(v, c, TRUE)
  OBVIOUS
<1>16. PICK m \in Nat : m = b + more
  OBVIOUS
<1>17. CASE IsVbr(fs)
  <2>1. SizesKnown(d, fs, n, p, FieldLen(fs[n].len) + more)
    <3>1. c.len = FieldsLen(fs) + SumLens(fs) + m /\ ~c.cbr
      BY <1>3, <1>4, <1>10, <1>12, <1>16, <1>17
    <3>2. SizesKnown(CutCode3(v, c, TRUE), fs, n, pos + FieldsLen(fs), m)
      BY <1>1, <1>12, <1>17, <3>1, ExplicitRead, Zenon
    <3> QED
      BY <1>3, <1>13, <1>14, <1>15, <1>16, <3>2
  <2>2. AllRead(LastSize(v, d, TRUE), fs, p + FieldLen(fs[n].len))
    BY <1>1, <1>14, <2>1, LastDelimited, Zenon
  <2> QED
    BY <1>12, <1>13, <1>14, <1>15, <2>2
<1>18. CASE ~IsVbr(fs)
  <2>1. fields = 0 /\ c.cbr /\ p = pos
    BY <1>3, <1>12, <1>13, <1>18 DEF FieldsLen
  <2>2. c.len = SumLens(fs) + (FieldLen(fs[n].len) + more)
    BY <1>4, <1>10, <1>12, <1>14, <2>1
  <2>3. d = c
    <3>1. ~(~c.ok \/ c.len < 0) /\ c.ok /\ c.len >= 0
      BY <1>10, <1>12
    <3> QED
      BY <1>15, <2>1, <3>1 DEF CutCode3
  <2>4. AllRead(LastSize(v, c, TRUE), fs, p + FieldLen(fs[n].len))
    BY <1>1, <1>12, <1>14, <1>18, <2>1, <2>2, EqualDelimited
  <2> QED
    BY <1>12, <1>13, <1>14, <1>15, <2>3, <2>4
<1> QED
  BY <1>17, <1>18

(***************************************************************************)
(* Packets of codes 0, 1 and 2.                                            *)
(***************************************************************************)
(* Nothing behind a sequence.                                              *)
LEMMA NothingBehind ==
  ASSUME NEW S, NEW x \in Seq(S)
  PROVE  x \o <<>> = x
<1>1. PICK z : z = x \o <<>>
  OBVIOUS
<1>2. z \in Seq(S) /\ Len(z) = Len(x) /\ \A i \in 1 .. Len(x) : z[i] = x[i]
  BY <1>1
<1>3. Len(x) \in Nat /\ x = [i \in 1 .. Len(x) |-> x[i]] /\ z = [i \in 1 .. Len(z) |-> z[i]]
  BY <1>2
<1>4. z = [i \in 1 .. Len(x) |-> x[i]]
  BY <1>2, <1>3
<1> QED
  BY <1>1, <1>3, <1>4

(* The head of a packet of code k: the size of the first of two unequal    *)
(* frames, and what follows.                                               *)
ShortHead(v, t, k, field, rest) ==
  /\ v.head \in Seq(0 .. 255) /\ Len(v.head) = 1 + Len(field) + Len(rest)
  /\ Len(field) \in Nat /\ Len(rest) \in Nat
  /\ ByteAt(v, 0) = WithCode(t, k)
  /\ Holds(v, 1, field) /\ Holds(v, 1 + Len(field), rest)

(* Where the fields of a header of code 0, 1 or 2 lie.                     *)
LEMMA ShortHeadIs ==
  ASSUME NEW t \in 0 .. 255, NEW k \in 0 .. 3, NEW field \in Seq(0 .. 255), NEW rest \in Seq(0 .. 255),
         NEW v, v.head = (<<WithCode(t, k)>> \o field) \o rest
  PROVE  ShortHead(v, t, k, field, rest)
<1>1. PICK toc \in 0 .. 255 : toc = WithCode(t, k)
  BY TocIs
<1>2. PICK a : a = <<toc>>
  OBVIOUS
<1>3. a \in Seq(0 .. 255) /\ Len(a) = 1 /\ a[1] = toc
  BY <1>2
<1>4. PICK none : none = <<>>
  OBVIOUS
<1>5. none \in Seq(0 .. 255) /\ Len(none) = 0
  BY <1>4
<1>6. (a \o field) \o rest \in Seq(0 .. 255)
  BY <1>3
<1>7. v.head = ((a \o field) \o rest) \o none
  <2>1. PICK h : h = (a \o field) \o rest
    OBVIOUS
  <2>2. h \in Seq(0 .. 255)
    BY <1>6, <2>1
  <2>3. h \o <<>> = h
    BY <2>2, NothingBehind, Zenon
  <2>4. v.head = h
    BY <1>1, <1>2, <2>1
  <2>5. h \o none = h
    BY <1>4, <2>3
  <2>6. v.head = h \o none
    BY <2>4, <2>5
  <2> QED
    BY <2>1, <2>6
<1>8. Parts(v, 0 .. 255, a, field, rest, none)
  <2>1. PICK S : S = 0 .. 255
    OBVIOUS
  <2>2. a \in Seq(S) /\ field \in Seq(S) /\ rest \in Seq(S) /\ none \in Seq(S)
    BY <1>3, <1>5, <2>1
  <2>3. Parts(v, S, a, field, rest, none)
    BY <1>7, <2>2, PartsHeld, Zenon
  <2> QED
    BY <2>1, <2>3
<1>9. /\ v.head \in Seq(0 .. 255) /\ Len(v.head) = Len(a) + Len(field) + Len(rest) + Len(none)
      /\ Len(field) \in Nat /\ Len(rest) \in Nat
      /\ Holds(v, Len(a), field) /\ Holds(v, Len(a) + Len(field), rest)
      /\ \A i \in 1 .. Len(a) : ByteAt(v, i - 1) = a[i]
  BY <1>8, Zenon DEF Parts
<1>10. Len(v.head) = 1 + Len(field) + Len(rest)
  BY <1>3, <1>5, <1>9
<1>11. Holds(v, 1, field) /\ Holds(v, 1 + Len(field), rest)
  BY <1>3, <1>9, Zenon
<1>12. ByteAt(v, 0) = WithCode(t, k)
  <2>1. 1 \in 1 .. Len(a) /\ 1 - 1 = 0
    BY <1>3
  <2>2. ByteAt(v, 1 - 1) = a[1]
    BY <1>9, <2>1
  <2> QED
    BY <1>1, <1>3, <2>1, <2>2
<1> QED
  BY <1>9, <1>10, <1>11, <1>12, Zenon DEF ShortHead

(* Before its sizes.                                                       *)
StartsAs(c, len) ==
  /\ IsCursor(c) /\ c.ok = TRUE /\ c.pos = 1 /\ c.len = len /\ c.last = len
  /\ c.sizes = <<>> /\ c.count = 1 /\ ~c.cbr

(* The cursor starts behind the TOC byte.                                  *)
LEMMA CursorStarts ==
  ASSUME NEW v, WireOK(v), NEW len \in Nat, WireLen(v) = 1 + len
  PROVE  StartsAs(Cursor(v), len)
<1>1. WireLen(v) > 0 /\ WireLen(v) - 1 = len
  OBVIOUS
<1> QED
  BY <1>1, CursorIs DEF StartsAs

(* One frame.                                                              *)
LEMMA OneKnown ==
  ASSUME NEW fs, HeldFrames(fs), Len(fs) = 1, NEW more \in Nat,
         NEW c, NEW len \in Nat, len = SumLens(fs) + more, StartsAs(c, len)
  PROVE  SizesKnown(c, fs, 1, 1, more)
<1>1. 1 \in Nat /\ 1 >= 1 /\ 1 - 1 = 0
  OBVIOUS
<1>2. /\ SumLens(fs) = SumTo(Lens(fs), 1 - 1) + fs[1].len
      /\ fs[1].len \in Nat
  BY <1>1, LensAppend
<1>3. SumTo(Lens(fs), 0) = 0
  BY SumStep
<1>4. SumLens(fs) = fs[1].len
  BY <1>1, <1>2, <1>3
<1>5. <<>> = FirstLens(fs, 1 - 1)
  BY <1>1 DEF FirstLens
<1> QED
  BY <1>4, <1>5 DEF SizesKnown, StartsAs

(* Two unequal frames: one size.                                           *)
LEMMA TwoKnown ==
  ASSUME NEW v, WireOK(v), NEW fs, HeldFrames(fs), Len(fs) = 2, NEW more \in Nat,
         NEW b \in Nat, b = FieldLen(fs[1].len), Holds(v, 1, put_size(fs[1].len)),
         NEW c, NEW len \in Nat, len = b + SumLens(fs) + more, StartsAs(c, len)
  PROVE  SizesKnown(TakeSize(v, Two(c)), fs, 2, 1 + b, more)
<1>1. 1 \in 1 .. Len(fs) /\ 2 \in 1 .. Len(fs) /\ 2 \in Nat /\ 2 >= 1 /\ 2 - 1 = 1
  OBVIOUS
<1>2. PICK first \in 0 .. MaxFrameBytes : first = fs[1].len /\ first \in Nat /\ first = Lens(fs)[1]
  BY <1>1, HeldAre
<1>3. PICK last \in Nat : last = fs[2].len
  BY <1>1, HeldAre
<1>4. SumLens(fs) = first + last
  <2>1. SumLens(fs) = SumTo(Lens(fs), 2 - 1) + fs[2].len
    BY <1>1, LensAppend
  <2>2. SumTo(Lens(fs), 0) = 0 /\ SumTo(Lens(fs), 0 + 1) = SumTo(Lens(fs), 0) + Lens(fs)[0 + 1]
    BY SumStep
  <2>3. SumTo(Lens(fs), 1) = first
    BY <1>2, <2>2
  <2> QED
    BY <1>1, <1>3, <2>1, <2>3
<1>5. PICK d : d = Two(c)
  OBVIOUS
<1>6. /\ IsCursor(d) /\ d.ok = TRUE /\ d.pos = 1 /\ d.len = len /\ d.last = len
      /\ d.sizes = <<>> /\ ~d.cbr
  BY <1>5, TwoIs DEF StartsAs
<1>7. PICK s : s = SizeAt(v, 1)
  OBVIOUS
<1>8. s.bytes = b /\ s.size = first
  <2>1. 1 \in Nat /\ Holds(v, 1, put_size(first))
    BY <1>2
  <2> QED
    BY <1>2, <1>7, <2>1, SizeReadBack
<1>9. PICK e : e = TakeSizeAs(d, s)
  OBVIOUS
<1>10. /\ IsCursor(e) /\ e.ok = d.ok /\ e.pos = d.pos + b /\ e.len = d.len - b
       /\ e.last = d.last - b - first /\ e.sizes = Append(d.sizes, first) /\ e.cbr = d.cbr
  <2>1. s.bytes \in Int /\ s.size \in Int /\ d.len \in Int
    <3>1. b \in Int /\ first \in Int /\ len \in Int
      BY <1>2
    <3> QED
      BY <1>6, <1>8, <3>1, Zenon
  <2>2. ~(s.bytes < 0 \/ s.size > d.len - s.bytes)
    <3>1. ~(b < 0) /\ ~(first > len - b)
      BY <1>2, <1>3, <1>4
    <3> QED
      BY <1>6, <1>8, <3>1
  <2>3. /\ IsCursor(e) /\ e.ok = d.ok /\ e.pos = d.pos + s.bytes /\ e.len = d.len - s.bytes
        /\ e.last = d.last - s.bytes - s.size /\ e.sizes = Append(d.sizes, s.size) /\ e.cbr = d.cbr
    BY <1>6, <1>9, <2>1, <2>2, TakeSizeIs
  <2> QED
    BY <1>8, <2>3
<1>11. TakeSize(v, d) = e
  <2>1. TakeSize(v, d) = TakeSizeAs(d, SizeAt(v, d.pos))
    BY DEF TakeSize
  <2>2. SizeAt(v, d.pos) = s
    BY <1>6, <1>7
  <2> QED
    BY <1>9, <2>1, <2>2
<1>12. e.len = SumLens(fs) + more /\ e.last = fs[2].len + more /\ e.pos = 1 + b
  <2>1. PICK sum \in Nat : sum = SumLens(fs) /\ sum = first + last
    BY <1>2, <1>3, <1>4
  <2>2. e.len = len - b /\ e.last = len - b - first /\ e.pos = 1 + b
    BY <1>6, <1>10
  <2>3. len - b = sum + more /\ len - b - first = last + more
    BY <1>2, <2>1
  <2> QED
    BY <1>3, <2>1, <2>2, <2>3, Zenon
<1>13. e.sizes = FirstLens(fs, 2 - 1)
  <2>1. PICK z : z = Append(<<>>, first)
    OBVIOUS
  <2>2. z \in Seq(Nat) /\ Len(z) = 1 /\ z[1] = first
    BY <1>2, <2>1
  <2>3. z = [j \in 1 .. 1 |-> z[j]]
    <3>1. z = [j \in 1 .. Len(z) |-> z[j]]
      BY <2>2
    <3> QED
      BY <2>2, <3>1
  <2>4. \A j \in 1 .. 1 : z[j] = fs[j].len
    <3>1. z[1] = fs[1].len
      BY <1>2, <2>2
    <3> QED
      BY <3>1
  <2>5. z = [j \in 1 .. 1 |-> fs[j].len]
    BY <2>3, <2>4
  <2>6. z = FirstLens(fs, 1)
    BY <2>5 DEF FirstLens
  <2>7. e.sizes = z
    BY <1>6, <1>10, <2>1, Zenon
  <2> QED
    BY <1>1, <2>6, <2>7
<1> QED
  BY <1>5, <1>6, <1>10, <1>11, <1>12, <1>13 DEF SizesKnown

(* The last frame takes what is left.                                      *)
LEMMA PlainLast ==
  ASSUME NEW v, NEW fs, HeldFrames(fs), NEW n \in Nat, n = Len(fs), n >= 1,
         NEW d, NEW pos, SizesKnown(d, fs, n, pos, 0)
  PROVE  AllRead(LastSize(v, d, FALSE), fs, pos)
<1>1. IsCursor(d) /\ d.ok = TRUE /\ d.sizes = FirstLens(fs, n - 1) /\ d.pos = pos /\ d.last = fs[n].len + 0
  BY DEF SizesKnown
<1>2. fs[n].len \in Nat
  BY LensAppend
<1>3. d.last = fs[n].len
  BY <1>1, <1>2
<1> QED
  BY <1>1, <1>3, LastRead

(* Two equal frames.                                                       *)
LEMMA TwoEqualStands ==
  ASSUME NEW c, NEW len, StartsAs(c, len)
  PROVE  /\ IsCursor(TwoEqual(c)) /\ TwoEqual(c).ok = TRUE /\ TwoEqual(c).pos = 1
         /\ TwoEqual(c).len = len /\ TwoEqual(c).count = 2 /\ TwoEqual(c).cbr
  BY TwoIs DEF StartsAs

(* What ends the head: the last size of a self-delimited packet.           *)
Trailer(fs, sd) == IF sd THEN put_size(fs[Len(fs)].len) ELSE <<>>

(* more: the bytes behind the packet, none of a plain one.                 *)
Behind(sd, more) == more \in Nat /\ (~sd => more = 0)

(* The explicit size of the last frame, in a self-delimited packet.        *)
LEMMA TrailerIs ==
  ASSUME NEW fs, HeldFrames(fs), NEW n \in Nat, n = Len(fs), n >= 1, NEW sd \in BOOLEAN
  PROVE  /\ Trailer(fs, sd) \in Seq(0 .. 255) /\ Len(Trailer(fs, sd)) \in Nat
         /\ sd => Trailer(fs, sd) = put_size(fs[n].len) /\ Len(Trailer(fs, sd)) = FieldLen(fs[n].len)
         /\ ~sd => Trailer(fs, sd) = <<>> /\ Len(Trailer(fs, sd)) = 0
<1>1. PICK last \in 0 .. MaxFrameBytes : last = fs[n].len
  BY LensAppend
<1>2. PICK p : p = put_size(last)
  OBVIOUS
<1>3. p \in Seq(0 .. 255) /\ Len(p) = FieldLen(last) /\ FieldLen(last) \in {1, 2}
  BY <1>2, PutSizeIs
<1>4. <<>> \in Seq(0 .. 255) /\ Len(<<>>) = 0 /\ 0 \in Nat
  OBVIOUS
<1>5. FieldLen(last) \in Nat
  BY <1>3
<1>6. CASE sd
  <2>1. Trailer(fs, sd) = p
    BY <1>1, <1>2, <1>6 DEF Trailer
  <2> QED
    BY <1>1, <1>2, <1>3, <1>5, <1>6, <2>1
<1>7. CASE ~sd
  <2>1. Trailer(fs, sd) = <<>>
    BY <1>7 DEF Trailer
  <2> QED
    BY <1>4, <1>7, <2>1
<1> QED
  BY <1>6, <1>7

(* The last size, whichever way it is given.                               *)
LEMMA LastEither ==
  ASSUME NEW v, WireOK(v), NEW fs, HeldFrames(fs), NEW n \in Nat, n = Len(fs), n >= 1,
         NEW sd \in BOOLEAN, NEW more, Behind(sd, more), NEW rest, rest = Trailer(fs, sd),
         NEW pos \in Nat, Holds(v, pos, rest),
         NEW c, SizesKnown(c, fs, n, pos, Len(rest) + more)
  PROVE  AllRead(LastSize(v, c, sd), fs, pos + Len(rest))
<1>1. CASE sd
  <2>1. Holds(v, pos, put_size(fs[n].len)) /\ Len(rest) = FieldLen(fs[n].len)
    BY <1>1, TrailerIs
  <2>2. more \in Nat /\ SizesKnown(c, fs, n, pos, FieldLen(fs[n].len) + more)
    BY <2>1 DEF Behind
  <2>3. AllRead(LastSize(v, c, TRUE), fs, pos + FieldLen(fs[n].len))
    BY <2>1, <2>2, LastDelimited, Zenon
  <2>4. sd = TRUE
    BY <1>1
  <2> QED
    BY <2>1, <2>3, <2>4
<1>2. CASE ~sd
  <2>1. Len(rest) = 0 /\ more = 0 /\ Len(rest) + more = 0
    BY <1>2, TrailerIs DEF Behind
  <2>2. AllRead(LastSize(v, c, FALSE), fs, pos)
    BY <2>1, PlainLast
  <2>3. sd = FALSE /\ pos + Len(rest) = pos
    BY <1>2, <2>1
  <2> QED
    BY <2>2, <2>3
<1> QED
  BY <1>1, <1>2

(* The size of equal frames, whichever way it is given.                    *)
Shared(c, sd) == IF sd THEN c ELSE TakeEqual(c)

(* Equal frames are read whether their size is explicit or a share.        *)
LEMMA EqualEither ==
  ASSUME NEW v, WireOK(v), NEW fs, HeldFrames(fs), ~IsVbr(fs), NEW n \in Nat, n = Len(fs), n >= 1,
         NEW sd \in BOOLEAN, NEW more, Behind(sd, more), NEW rest, rest = Trailer(fs, sd),
         NEW pos \in Nat, Holds(v, pos, rest),
         NEW c, IsCursor(c), c.ok = TRUE, c.pos = pos, c.count = n, c.cbr,
         c.len = SumLens(fs) + (Len(rest) + more)
  PROVE  AllRead(LastSize(v, Shared(c, sd), sd), fs, pos + Len(rest))
<1>1. CASE sd
  <2>1. Holds(v, pos, put_size(fs[n].len)) /\ Len(rest) = FieldLen(fs[n].len)
    BY <1>1, TrailerIs
  <2>2. more \in Nat /\ c.len = SumLens(fs) + (FieldLen(fs[n].len) + more)
    BY <2>1 DEF Behind
  <2>3. AllRead(LastSize(v, c, TRUE), fs, pos + FieldLen(fs[n].len))
    BY <2>1, <2>2, EqualDelimited, Zenon
  <2>4. sd = TRUE /\ Shared(c, sd) = c
    BY <1>1 DEF Shared
  <2> QED
    BY <2>1, <2>3, <2>4
<1>2. CASE ~sd
  <2>1. Len(rest) = 0 /\ more = 0 /\ Len(rest) + more = 0
    BY <1>2, TrailerIs DEF Behind
  <2>2. c.len = SumLens(fs)
    <3>1. SumLens(fs) \in Nat
      BY HeldAre
    <3> QED
      BY <2>1, <3>1
  <2>3. AllRead(LastSize(v, TakeEqual(c), FALSE), fs, c.pos)
    BY <2>2, EqualRead
  <2>4. sd = FALSE /\ pos + Len(rest) = pos /\ Shared(c, sd) = TakeEqual(c)
    BY <1>2, <2>1 DEF Shared
  <2> QED
    BY <2>3, <2>4
<1> QED
  BY <1>1, <1>2

(* The code of one or two frames, and the size it writes.                  *)
Shape(fs, k, field) ==
  \/ k = 0 /\ Len(fs) = 1 /\ field = <<>>
  \/ k = 1 /\ Len(fs) = 2 /\ ~IsVbr(fs) /\ field = <<>>
  \/ k = 2 /\ Len(fs) = 2 /\ IsVbr(fs) /\ field = put_size(fs[1].len)

(* Head012 writes one of the three short headers.                          *)
LEMMA Head012Is ==
  ASSUME NEW t \in 0 .. 255, NEW fs, HeldFrames(fs), Len(fs) \in {1, 2}
  PROVE  \E k \in 0 .. 3, field \in Seq(0 .. 255) :
           Shape(fs, k, field) /\ Head012(t, fs) = <<WithCode(t, k)>> \o field
<1>1. <<>> \in Seq(0 .. 255) /\ 0 \in 0 .. 3 /\ 1 \in 0 .. 3 /\ 2 \in 0 .. 3
  OBVIOUS
<1>2. ASSUME NEW k \in 0 .. 3 PROVE <<WithCode(t, k)>> \o <<>> = <<WithCode(t, k)>>
  <2>1. PICK toc : toc = WithCode(t, k) /\ toc \in 0 .. 255
    BY TocIs
  <2>2. <<toc>> \in Seq(0 .. 255)
    BY <2>1
  <2>3. <<toc>> \o <<>> = <<toc>>
    BY <2>2, NothingBehind
  <2> QED
    BY <2>1, <2>3
<1>3. CASE Len(fs) = 1
  <2>1. Head012(t, fs) = <<WithCode(t, 0)>>
    BY <1>3 DEF Head012
  <2>2. Shape(fs, 0, <<>>)
    BY <1>3 DEF Shape
  <2> QED
    BY <1>1, <1>2, <2>1, <2>2
<1>4. CASE Len(fs) = 2 /\ ~IsVbr(fs)
  <2>1. Head012(t, fs) = <<WithCode(t, 1)>>
    BY <1>4 DEF Head012
  <2>2. Shape(fs, 1, <<>>)
    BY <1>4 DEF Shape
  <2> QED
    BY <1>1, <1>2, <2>1, <2>2
<1>5. CASE Len(fs) = 2 /\ IsVbr(fs)
  <2>1. Head012(t, fs) = <<WithCode(t, 2)>> \o put_size(fs[1].len)
    BY <1>5 DEF Head012
  <2>2. Shape(fs, 2, put_size(fs[1].len))
    BY <1>5 DEF Shape
  <2>3. put_size(fs[1].len) \in Seq(0 .. 255)
    <3>1. 1 \in 1 .. Len(fs)
      BY <1>5
    <3>2. fs[1].len \in 0 .. MaxFrameBytes
      BY <3>1, HeldAre
    <3> QED
      BY <3>2, PutSizeIs
  <2>4. PICK p \in Seq(0 .. 255) : p = put_size(fs[1].len)
    BY <2>3
  <2>5. Shape(fs, 2, p) /\ Head012(t, fs) = <<WithCode(t, 2)>> \o p
    BY <2>1, <2>2, <2>4
  <2> QED
    BY <1>1, <2>4, <2>5
<1> QED
  BY <1>3, <1>4, <1>5

(* The sizes of one or two frames, read back.                              *)
LEMMA ShortRead ==
  ASSUME NEW t, NEW fs, Selected(t, fs), Len(fs) \in {1, 2},
         NEW sd \in BOOLEAN, NEW more, Behind(sd, more),
         NEW v, WireOK(v), v.head = Head012(t, fs) \o Trailer(fs, sd),
         WireLen(v) = Len(v.head) + SumLens(fs) + more
  PROVE  AllRead(LastSize(v, ParseSizes(v, Cursor(v), sd), sd), fs, Len(v.head))
<1>1. HeldFrames(fs) /\ t \in 0 .. 255
  BY DEF Selected
<1>2. PICK n \in Nat : n = Len(fs) /\ n >= 1
  OBVIOUS
<1>3. PICK k \in 0 .. 3, field \in Seq(0 .. 255) :
        Shape(fs, k, field) /\ Head012(t, fs) = <<WithCode(t, k)>> \o field
  BY <1>1, Head012Is
<1>4. PICK rest : rest = Trailer(fs, sd)
  OBVIOUS
<1>5. rest \in Seq(0 .. 255) /\ Len(rest) \in Nat
  BY <1>1, <1>2, <1>4, TrailerIs
<1>6. ShortHead(v, t, k, field, rest)
  <2>1. v.head = (<<WithCode(t, k)>> \o field) \o rest
    BY <1>3, <1>4
  <2> QED
    BY <1>1, <1>5, <2>1, ShortHeadIs, Zenon
<1>7. PICK f \in Nat, r \in Nat : f = Len(field) /\ r = Len(rest)
  BY <1>5
<1>8. /\ Len(v.head) = 1 + f + r /\ ByteAt(v, 0) = WithCode(t, k)
      /\ Holds(v, 1, field) /\ Holds(v, 1 + f, rest)
  BY <1>6, <1>7, Zenon DEF ShortHead
<1>9. PICK sum \in Nat : sum = SumLens(fs)
  BY <1>1, HeldAre
<1>10. more \in Nat
  BY DEF Behind
<1>11. PICK len \in Nat : len = f + r + sum + more /\ WireLen(v) = 1 + len
  <2>1. PICK len \in Nat : len = f + r + sum + more
    BY <1>10
  <2>2. WireLen(v) = (1 + f + r) + sum + more
    BY <1>8, <1>9, Zenon
  <2>3. (1 + f + r) + sum + more = 1 + len
    BY <1>10, <2>1
  <2> QED
    BY <2>1, <2>2, <2>3, Zenon
<1>12. PICK c : c = Cursor(v) /\ StartsAs(c, len)
  BY <1>11, CursorStarts
<1>13. Code(ByteAt(v, 0)) = k
  BY <1>1, <1>8, TocIs
<1>14. PICK m \in Nat : m = r + more /\ m = Len(rest) + more
  BY <1>7, <1>10
<1>15. PICK pos \in Nat : pos = 1 + f /\ Holds(v, pos, rest) /\ pos + Len(rest) = Len(v.head)
  BY <1>7, <1>8
<1>16. CASE k = 0 /\ Len(fs) = 1 /\ field = <<>>
  <2>0. f = 0 /\ n = 1
    <3>1. Len(<<>>) = 0
      OBVIOUS
    <3> QED
      BY <1>2, <1>7, <1>16, <3>1, Zenon
  <2>1. f = 0 /\ len = SumLens(fs) + m /\ n = 1 /\ pos = 1
    <3>1. len = sum + m /\ pos = 1
      BY <1>10, <1>11, <1>14, <1>15, <2>0
    <3> QED
      BY <1>9, <2>0, <3>1, Zenon
  <2>2. SizesKnown(c, fs, 1, 1, m)
    BY <1>1, <1>12, <1>16, <2>1, OneKnown
  <2>3. SizesKnown(c, fs, n, pos, Len(rest) + more)
    BY <1>14, <2>1, <2>2
  <2>4. AllRead(LastSize(v, c, sd), fs, pos + Len(rest))
    BY <1>1, <1>2, <1>4, <1>15, <2>3, LastEither, Zenon
  <2>5. ParseSizes(v, c, sd) = c
    BY <1>13, <1>16, SizesByCode
  <2> QED
    BY <1>12, <1>15, <2>4, <2>5
<1>17. CASE k = 1 /\ Len(fs) = 2 /\ ~IsVbr(fs) /\ field = <<>>
  <2>0. f = 0 /\ n = 2
    <3>1. Len(<<>>) = 0
      OBVIOUS
    <3> QED
      BY <1>2, <1>7, <1>17, <3>1, Zenon
  <2>1. f = 0 /\ n = 2 /\ pos = 1
    BY <1>15, <2>0
  <2>2. len = SumLens(fs) + (Len(rest) + more)
    <3>1. len = sum + (r + more)
      BY <1>10, <1>11, <2>0
    <3> QED
      BY <1>7, <1>9, <3>1, Zenon
  <2>3. PICK d : d = TwoEqual(c)
    OBVIOUS
  <2>4. IsCursor(d) /\ d.ok = TRUE /\ d.pos = pos /\ d.len = len /\ d.count = n /\ d.cbr
    <3>1. /\ IsCursor(TwoEqual(c)) /\ TwoEqual(c).ok = TRUE /\ TwoEqual(c).pos = 1
          /\ TwoEqual(c).len = len /\ TwoEqual(c).count = 2 /\ TwoEqual(c).cbr
      BY <1>12, TwoEqualStands
    <3> QED
      BY <2>1, <2>3, <3>1, Zenon
  <2>5. AllRead(LastSize(v, Shared(d, sd), sd), fs, pos + Len(rest))
    <3>1. d.len = SumLens(fs) + (Len(rest) + more)
      BY <2>2, <2>4
    <3> QED
      BY <1>1, <1>2, <1>4, <1>15, <1>17, <2>4, <3>1, EqualEither, Zenon
  <2>6. ParseSizes(v, c, sd) = Shared(d, sd)
    BY <1>13, <1>17, <2>3, SizesByCode DEF Shared
  <2> QED
    BY <1>12, <1>15, <2>5, <2>6
<1>18. CASE k = 2 /\ Len(fs) = 2 /\ IsVbr(fs) /\ field = put_size(fs[1].len)
  <2>1. f = FieldLen(fs[1].len)
    <3>1. 1 \in 1 .. Len(fs)
      BY <1>18
    <3>2. fs[1].len \in 0 .. MaxFrameBytes
      BY <1>1, <3>1, HeldAre
    <3> QED
      BY <1>7, <1>18, <3>2, PutSizeIs
  <2>2. len = f + SumLens(fs) + m /\ n = 2
    <3>1. len = f + sum + m
      BY <1>10, <1>11, <1>14
    <3> QED
      BY <1>2, <1>9, <1>18, <3>1, Zenon
  <2>3. Holds(v, 1, put_size(fs[1].len))
    BY <1>8, <1>18
  <2>4. SizesKnown(TakeSize(v, Two(c)), fs, 2, 1 + f, m)
    BY <1>1, <1>12, <1>18, <2>1, <2>2, <2>3, TwoKnown
  <2>5. PICK d : d = TakeSize(v, Two(c))
    OBVIOUS
  <2>6. SizesKnown(d, fs, n, pos, Len(rest) + more)
    BY <1>14, <1>15, <2>2, <2>4, <2>5
  <2>7. AllRead(LastSize(v, d, sd), fs, pos + Len(rest))
    BY <1>1, <1>2, <1>4, <1>15, <2>6, LastEither, Zenon
  <2>8. ParseSizes(v, c, sd) = d
    BY <1>13, <1>18, <2>5, SizesByCode
  <2> QED
    BY <1>12, <1>15, <2>7, <2>8
<1> QED
  BY <1>3, <1>16, <1>17, <1>18 DEF Shape

(***************************************************************************)
(* What write_range writes, read back.                                     *)
(***************************************************************************)
(* A parser that has found the frames.                                     *)
Yields(v, fs, parsed) ==
  /\ parsed.ok = TRUE /\ parsed.toc = ByteAt(v, 0)
  /\ parsed.ranges = RangesFrom(Len(v.head), Lens(fs))
  /\ Contents(v, parsed) = fs
  /\ parsed.end = Len(v.head) + SumLens(fs)

(* Sizes that were all read cut the frames out of the body.                *)
LEMMA CutRead ==
  ASSUME NEW t, NEW fs, Selected(t, fs), NEW v, WireOK(v), v.body = fs,
         NEW d, AllRead(d, fs, Len(v.head))
  PROVE  Yields(v, fs, Cut(v, d))
<1>1. HeldFrames(fs)
  BY DEF Selected
<1>2. PICK n \in Nat : n = Len(fs) /\ DOMAIN fs = 1 .. n
  BY <1>1, HeldAre
<1>3. n <= MAX_FRAMES
  <2>1. PICK m \in 1 .. MAX_FRAMES : m = Len(fs)
    BY SelectedIs, Zenon
  <2>2. m <= MAX_FRAMES
    BY DEF MAX_FRAMES
  <2> QED
    BY <1>2, <2>1, <2>2
<1>4. PICK head \in Nat, sum \in Nat : /\ head = Len(v.head) /\ sum = SumLens(fs)
                                       /\ head + sum <= WireLen(v) /\ WireLen(v) \in Nat
  BY BytesAre
<1>5. d.ok = TRUE /\ d.pos = head /\ d.sizes = Lens(fs)
  BY <1>4 DEF AllRead
<1>6. Len(d.sizes) = n
  <2>1. Lens(fs) = [i \in 1 .. n |-> fs[i].len]
    BY <1>2 DEF Lens
  <2> QED
    BY <1>5, <2>1
<1>7. d.pos + SumTo(d.sizes, Len(d.sizes)) = head + sum
  BY <1>2, <1>4, <1>5, <1>6 DEF SumLens
<1>8. ~(~d.ok \/ Len(d.sizes) > MAX_FRAMES \/ head + sum > WireLen(v))
  <2>1. ~(n > MAX_FRAMES)
    BY <1>3 DEF MAX_FRAMES
  <2> QED
    BY <1>4, <1>5, <1>6, <2>1
<1>9. PICK parsed : parsed = Cut(v, d)
  OBVIOUS
<1>10. parsed = [ok |-> TRUE, toc |-> ByteAt(v, 0), ranges |-> RangesFrom(head, Lens(fs)), end |-> head + sum]
  <2>1. parsed = CutFrames(v, d, head + sum)
    BY <1>7, <1>9 DEF Cut
  <2> QED
    BY <1>5, <1>8, <2>1 DEF CutFrames
<1>11. /\ parsed.ok = TRUE /\ parsed.toc = ByteAt(v, 0) /\ parsed.end = head + sum
       /\ parsed.ranges = RangesFrom(Len(v.head), Lens(fs))
  BY <1>4, <1>10
<1>12. Contents(v, parsed) = fs
  BY <1>1, <1>4, <1>11, ContentsAre
<1> QED
  BY <1>4, <1>9, <1>11, <1>12 DEF Yields

(* The length of the padding's own bytes.                                  *)
LEMMA PadFieldLen ==
  ASSUME NEW amount \in Nat
  PROVE  Len(PadField(amount)) \in Nat /\ Len(PadField(amount)) <= amount
<1>1. CASE amount = 0
  BY <1>1, PadFieldIs
<1>2. CASE amount # 0
  <2>1. PICK nb \in Nat, last \in 0 .. 254 : PadBytes(PadField(amount), amount, nb, last)
    BY <1>2, PadFieldIs
  <2>2. Len(PadField(amount)) = nb + 1 /\ 255 * nb + 1 + last = amount
    BY <2>1 DEF PadBytes
  <2> QED
    BY <2>2
<1> QED
  BY <1>1, <1>2

(* A code-3 packet: its code and the length of its head.                   *)
ThreeHead(v, fs, amount, rest) ==
  /\ v.head \in Seq(0 .. 255) /\ Code(ByteAt(v, 0)) = 3
  /\ Len(v.head) = 2 + Len(PadField(amount)) + FieldsLen(fs) + Len(rest)

(* A code-3 header has code 3 and the length of its fields.                *)
LEMMA CodeThree ==
  ASSUME NEW t, NEW fs, Selected(t, fs), NEW amount \in Nat, NEW rest \in Seq(0 .. 255),
         NEW v, v.head = HeadCode3(t, fs, IsVbr(fs), amount) \o rest
  PROVE  ThreeHead(v, fs, amount, rest)
<1>1. Code3Head(v, t, fs, amount, Len(PadField(amount)), rest)
  BY Code3HeadIs, Zenon
<1>2. /\ v.head \in Seq(0 .. 255) /\ ByteAt(v, 0) = WithCode(t, 3)
      /\ Len(v.head) = 2 + Len(PadField(amount)) + FieldsLen(fs) + Len(rest)
  BY <1>1, Zenon DEF Code3Head
<1>3. t \in 0 .. 255 /\ 3 \in 0 .. 3
  BY DEF Selected
<1>4. Code(WithCode(t, 3)) = 3
  BY <1>3, TocIs
<1> QED
  BY <1>2, <1>4 DEF ThreeHead

(* Sums of ones and twos.                                                  *)
LEMMA SumAtMost ==
  ASSUME NEW seq, NEW n \in Nat, \A i \in 1 .. n : seq[i] \in {1, 2}
  PROVE  SumTo(seq, n) <= 2 * n
<1> DEFINE T == {i \in Nat : i <= n => SumTo(seq, i) \in Nat /\ SumTo(seq, i) <= 2 * i}
<1>1. 0 \in T
  BY SumStep
<1>2. ASSUME NEW i \in Nat, i \in T
      PROVE  i + 1 \in T
  <2> SUFFICES ASSUME i + 1 <= n
               PROVE  SumTo(seq, i + 1) \in Nat /\ SumTo(seq, i + 1) <= 2 * (i + 1)
    OBVIOUS
  <2>1. seq[i + 1] \in {1, 2} /\ SumTo(seq, i) \in Nat /\ SumTo(seq, i) <= 2 * i
    BY <1>2
  <2>2. SumTo(seq, i + 1) = SumTo(seq, i) + seq[i + 1]
    BY SumStep
  <2> QED
    BY <2>1, <2>2
<1>3. T = Nat
  <2>1. T \in SUBSET Nat
    OBVIOUS
  <2> HIDE DEF T
  <2> QED
    BY <1>1, <1>2, <2>1, NatSetInduction
<1> QED
  BY <1>3

(* At most two bytes for every size but the last.                          *)
LEMMA FieldsFew ==
  ASSUME NEW fs, HeldFrames(fs), NEW n \in Nat, n = Len(fs), n >= 1
  PROVE  FieldsLen(fs) \in Nat /\ FieldsLen(fs) <= 2 * (n - 1)
<1>1. PICK m \in Nat : m = n - 1
  OBVIOUS
<1>2. \A i \in 1 .. m : FieldLens(fs)[i] \in {1, 2}
  <2>1. \A i \in 1 .. m : i \in 1 .. Len(fs)
    BY <1>1
  <2> QED
    BY <2>1, HeldAre
<1>3. SumTo(FieldLens(fs), m) <= 2 * m
  BY <1>2, SumAtMost
<1>4. FieldsLen(fs) \in Nat
  BY FieldsOfAre
<1>5. FieldsLen(fs) <= 2 * m
  <2>1. CASE IsVbr(fs)
    BY <1>1, <1>3, <2>1 DEF FieldsLen
  <2>2. CASE ~IsVbr(fs)
    BY <2>2 DEF FieldsLen
  <2> QED
    BY <2>1, <2>2
<1> QED
  BY <1>1, <1>4, <1>5

(* The length of the shortest packet of these frames.                      *)
Shortest(fs) == IF Len(fs) > 2 THEN Code3Size(fs) ELSE Code3Size(fs) - 1

(* A packet put together.                                                  *)
Assembled(w, head, fs, tail) ==
  /\ WireOK(w) /\ w.head = head /\ w.body = fs
  /\ WireLen(w) = Len(head) + SumLens(fs) + tail

(* A packet is its header, its frames and its padding.                     *)
LEMMA AssembleIs ==
  ASSUME NEW fs, HeldFrames(fs), NEW head \in Seq(0 .. 255), NEW padTo \in Int,
         NEW w, w = Assemble(head, fs, padTo)
  PROVE  Assembled(w, head, fs, PadAmount(padTo, Len(head) + SumLens(fs)))
<1>1. PICK size \in Nat : size = Len(head) + SumLens(fs)
  <2>1. SumLens(fs) \in Nat /\ Len(head) \in Nat
    BY HeldAre
  <2> QED
    BY <2>1
<1>2. PICK pad : pad = PadAmount(padTo, size)
  OBVIOUS
<1>3. pad \in Nat
  BY <1>2 DEF PadAmount
<1>4. w = [head |-> head, body |-> fs, tail |-> pad]
  BY <1>1, <1>2 DEF Assemble
<1>5. w.head = head /\ w.body = fs /\ w.tail = pad
  BY <1>4
<1>6. w = [head |-> w.head, body |-> w.body, tail |-> w.tail]
  BY <1>4, <1>5
<1>7. FramesOK(fs)
  BY DEF HeldFrames
<1>8. WireOK(w)
  BY <1>3, <1>5, <1>6, <1>7 DEF WireOK
<1>9. WireLen(w) = Len(head) + SumLens(fs) + pad
  BY <1>5 DEF WireLen
<1> QED
  BY <1>1, <1>2, <1>5, <1>8, <1>9 DEF Assembled

(* Parsed by its code.                                                     *)
CountedPlain(v, t, fs, amount) ==
  /\ v.head = HeadCode3(t, fs, IsVbr(fs), amount) \o <<>>
  /\ WireLen(v) = 2 + amount + (FieldsLen(fs) + SumLens(fs))

(* parse_frames yields the frames of a packet of code 3,                   *)
LEMMA YieldsCounted ==
  ASSUME NEW t, NEW fs, Selected(t, fs), NEW amount \in Nat,
         NEW v, WireOK(v), v.body = fs, CountedPlain(v, t, fs, amount)
  PROVE  Yields(v, fs, parse_frames(v, FALSE))
<1>1. PICK d : d = LastSize(v, ParseCode3(v, Cursor(v), ByteAt(v, 1), FALSE), FALSE)
  OBVIOUS
<1>0. /\ v.head = HeadCode3(t, fs, IsVbr(fs), amount) \o <<>>
      /\ WireLen(v) = 2 + amount + (FieldsLen(fs) + SumLens(fs))
  BY DEF CountedPlain
<1>2. AllRead(d, fs, Len(v.head))
  BY <1>0, <1>1, Code3Plain, Zenon
<1>3. Code(ByteAt(v, 0)) = 3
  <2>1. PICK rest : rest = <<>>
    OBVIOUS
  <2>2. rest \in Seq(0 .. 255)
    BY <2>1
  <2>3. v.head = HeadCode3(t, fs, IsVbr(fs), amount) \o rest
    BY <1>0, <2>1
  <2>5. ThreeHead(v, fs, amount, rest)
    BY <2>2, <2>3, CodeThree, Zenon
  <2> QED
    BY <2>5 DEF ThreeHead
<1>4. ParseSizes(v, Cursor(v), FALSE) = ParseCode3(v, Cursor(v), ByteAt(v, 1), FALSE)
  BY <1>3, SizesByCode
<1>5. Yields(v, fs, Cut(v, d))
  BY <1>2, CutRead, Zenon
<1> QED
  BY <1>1, <1>4, <1>5 DEF parse_frames

(* of a self-delimited one of code 3, with bytes behind it,                *)
LEMMA YieldsDelimited ==
  ASSUME NEW t, NEW fs, Selected(t, fs), NEW n \in Nat, n = Len(fs),
         NEW v, WireOK(v), v.body = fs,
         v.head = HeadCode3(t, fs, IsVbr(fs), 0) \o put_size(fs[n].len),
         NEW more \in Nat, WireLen(v) = Len(v.head) + SumLens(fs) + more
  PROVE  Yields(v, fs, parse_frames(v, TRUE))
<1>1. PICK d : d = LastSize(v, ParseCode3(v, Cursor(v), ByteAt(v, 1), TRUE), TRUE)
  OBVIOUS
<1>2. AllRead(d, fs, Len(v.head))
  BY <1>1, Code3Delimited, Zenon
<1>3. Code(ByteAt(v, 0)) = 3
  <2>1. PICK rest : rest = put_size(fs[n].len)
    OBVIOUS
  <2>2. rest \in Seq(0 .. 255)
    <3>1. HeldFrames(fs) /\ n >= 1
      BY DEF Selected
    <3>2. fs[n].len \in 0 .. MaxFrameBytes
      BY <3>1, LensAppend
    <3> QED
      BY <2>1, <3>2, PutSizeIs
  <2>3. v.head = HeadCode3(t, fs, IsVbr(fs), 0) \o rest
    BY <2>1
  <2>4. 0 \in Nat
    OBVIOUS
  <2>5. ThreeHead(v, fs, 0, rest)
    BY <2>2, <2>3, <2>4, CodeThree, Zenon
  <2> QED
    BY <2>5 DEF ThreeHead
<1>4. ParseSizes(v, Cursor(v), TRUE) = ParseCode3(v, Cursor(v), ByteAt(v, 1), TRUE)
  BY <1>3, SizesByCode
<1>5. Yields(v, fs, Cut(v, d))
  BY <1>2, CutRead, Zenon
<1> QED
  BY <1>1, <1>4, <1>5 DEF parse_frames

(* and of one of code 0, 1 or 2, self-delimited or not.                    *)
LEMMA YieldsShort ==
  ASSUME NEW t, NEW fs, Selected(t, fs), Len(fs) \in {1, 2},
         NEW sd \in BOOLEAN, NEW more, Behind(sd, more),
         NEW v, WireOK(v), v.body = fs, v.head = Head012(t, fs) \o Trailer(fs, sd),
         WireLen(v) = Len(v.head) + SumLens(fs) + more
  PROVE  Yields(v, fs, parse_frames(v, sd))
<1>1. PICK d : d = LastSize(v, ParseSizes(v, Cursor(v), sd), sd)
  OBVIOUS
<1>2. AllRead(d, fs, Len(v.head))
  BY <1>1, ShortRead, Zenon
<1>3. Yields(v, fs, Cut(v, d))
  BY <1>2, CutRead, Zenon
<1> QED
  BY <1>1, <1>3 DEF parse_frames

(* The head of one or two frames.                                          *)
LEMMA ShortLen ==
  ASSUME NEW t, NEW fs, Selected(t, fs), Len(fs) \in {1, 2}, NEW sd \in BOOLEAN
  PROVE  /\ Head012(t, fs) \o Trailer(fs, sd) \in Seq(0 .. 255)
         /\ Len(Head012(t, fs) \o Trailer(fs, sd)) = 1 + FieldsLen(fs) + Len(Trailer(fs, sd))
<1>1. HeldFrames(fs) /\ t \in 0 .. 255
  BY DEF Selected
<1>2. PICK n \in Nat : n = Len(fs) /\ n >= 1
  <2>1. \A n \in {1, 2} : n \in Nat /\ n >= 1
    OBVIOUS
  <2> QED
    BY <2>1
<1>3. PICK k \in 0 .. 3, field \in Seq(0 .. 255) :
        Shape(fs, k, field) /\ Head012(t, fs) = <<WithCode(t, k)>> \o field
  BY <1>1, Head012Is
<1>4. PICK rest : rest = Trailer(fs, sd)
  OBVIOUS
<1>5. rest \in Seq(0 .. 255) /\ Len(rest) \in Nat
  BY <1>1, <1>2, <1>4, TrailerIs
<1>6. PICK v : v = [head |-> Head012(t, fs) \o rest]
  OBVIOUS
<1>7. v.head = Head012(t, fs) \o rest
  BY <1>6
<1>8. v.head = (<<WithCode(t, k)>> \o field) \o rest
  BY <1>3, <1>7
<1>9. ShortHead(v, t, k, field, rest)
  BY <1>1, <1>5, <1>8, ShortHeadIs, Zenon
<1>10. v.head \in Seq(0 .. 255) /\ Len(v.head) = 1 + Len(field) + Len(rest)
  BY <1>9, Zenon DEF ShortHead
<1>11. Len(field) = FieldsLen(fs)
  <2>1. CASE field = <<>> /\ ~IsVbr(fs)
    <3>1. Len(<<>>) = 0
      OBVIOUS
    <3>2. FieldsLen(fs) = 0
      BY <2>1 DEF FieldsLen
    <3> QED
      BY <2>1, <3>1, <3>2
  <2>2. CASE field = <<>> /\ Len(fs) = 1
    <3>1. DOMAIN fs = 1 .. 1
      BY <1>1, <2>2, HeldAre
    <3>2. \A i \in 1 .. 1 : i = 1
      OBVIOUS
    <3>3. ~IsVbr(fs)
      BY <3>1, <3>2 DEF IsVbr
    <3> QED
      BY <2>1, <2>2, <3>3
  <2>3. CASE Len(fs) = 2 /\ IsVbr(fs) /\ field = put_size(fs[1].len)
    <3>1. 1 \in 1 .. Len(fs) /\ 2 - 1 = 1
      BY <2>3
    <3>2. fs[1].len \in 0 .. MaxFrameBytes /\ FieldLens(fs)[1] = FieldLen(fs[1].len)
      BY <1>1, <3>1, HeldAre
    <3>3. Len(field) = FieldLen(fs[1].len) /\ FieldLen(fs[1].len) \in {1, 2}
      BY <2>3, <3>2, PutSizeIs
    <3>4. FieldsLen(fs) = SumTo(FieldLens(fs), 1)
      BY <2>3, <3>1 DEF FieldsLen
    <3>5. SumTo(FieldLens(fs), 0) = 0 /\ SumTo(FieldLens(fs), 0 + 1) = SumTo(FieldLens(fs), 0) + FieldLens(fs)[0 + 1]
      BY SumStep
    <3>6. SumTo(FieldLens(fs), 1) = 0 + FieldLens(fs)[1]
      BY <3>5
    <3> QED
      BY <3>2, <3>3, <3>4, <3>6
  <2> QED
    BY <1>3, <2>1, <2>2, <2>3 DEF Shape
<1> QED
  BY <1>4, <1>7, <1>10, <1>11

(* What write_range puts in front of the trailer.                          *)
FrontBytes(t, fs, padTo) ==
  IF Len(fs) > 2 \/ padTo # NoPad
  THEN HeadCode3(t, fs, IsVbr(fs), PadAmount(padTo, Code3Size(fs)))
  ELSE Head012(t, fs)

(* write_range assembles a header and the explicit last size.              *)
LEMMA WriteIs ==
  ASSUME NEW t, NEW fs, NEW padTo, NEW sd
  PROVE  write_range(t, fs, padTo, sd) = Assemble(FrontBytes(t, fs, padTo) \o Trailer(fs, sd), fs, padTo)
  BY DEF write_range, FrontBytes, Trailer, Last

(* No padding, or room for a packet of code 3.                             *)
Asked(fs, padTo) == padTo = NoPad \/ (padTo \in Nat /\ padTo >= Code3Size(fs))

(* Padding that is asked for fills the packet up to its length.            *)
LEMMA PaddingIs ==
  ASSUME NEW fs, HeldFrames(fs), Len(fs) >= 1, NEW padTo, Asked(fs, padTo)
  PROVE  /\ padTo \in Int /\ Code3Size(fs) \in Nat /\ Code3Size(fs) >= 2
         /\ \A size \in Nat : PadAmount(padTo, size) \in Nat
         /\ padTo = NoPad => \A size \in Nat : PadAmount(padTo, size) = 0
         /\ padTo # NoPad => padTo = Code3Size(fs) + PadAmount(padTo, Code3Size(fs))
<1>1. PICK size \in Nat : size = Code3Size(fs) /\ size >= 2
  <2>1. SumLens(fs) \in Nat /\ FieldsLen(fs) \in Nat /\ Code3Size(fs) = 2 + SumLens(fs) + FieldsLen(fs)
    BY HeldAre, FieldsOfAre
  <2> QED
    BY <2>1
<1>2. padTo \in Int
  BY DEF Asked, NoPad
<1>3. \A s \in Nat : PadAmount(padTo, s) \in Nat
  BY <1>2 DEF PadAmount
<1>4. padTo = NoPad => \A s \in Nat : PadAmount(padTo, s) = 0
  BY DEF PadAmount, NoPad
<1>5. padTo # NoPad => padTo = size + PadAmount(padTo, size)
  BY <1>1, <1>2 DEF Asked, PadAmount
<1> QED
  BY <1>1, <1>2, <1>3, <1>4, <1>5

(* A packet that holds these frames, padded as asked.                      *)
Written(w, fs, padTo) ==
  /\ WireOK(w) /\ w.body = fs /\ WireLen(w) > 0
  /\ Yields(w, fs, parse_frames(w, FALSE))
  /\ padTo = NoPad => WireLen(w) = Shortest(fs)
  /\ padTo # NoPad => WireLen(w) = padTo

(* What write_range makes of any frames under code 3.                      *)
LEMMA WrittenCounted ==
  ASSUME NEW t, NEW fs, Selected(t, fs), NEW padTo, Asked(fs, padTo), Len(fs) > 2 \/ padTo # NoPad,
         NEW w, w = write_range(t, fs, padTo, FALSE)
  PROVE  Written(w, fs, padTo)
<1>1. HeldFrames(fs) /\ Len(fs) >= 1
  BY DEF Selected
<1>2. PICK n \in Nat : n = Len(fs) /\ n >= 1
  BY <1>1, HeldAre
<1>3. PICK size \in Nat, sum \in Nat, fields \in Nat :
        /\ size = Code3Size(fs) /\ sum = SumLens(fs) /\ fields = FieldsLen(fs)
        /\ size = 2 + sum + fields
  <2>1. SumLens(fs) \in Nat /\ FieldsLen(fs) \in Nat /\ Code3Size(fs) = 2 + SumLens(fs) + FieldsLen(fs)
    BY <1>1, HeldAre, FieldsOfAre
  <2> QED
    BY <2>1
<1>4. PICK amount \in Nat : amount = PadAmount(padTo, size)
  BY <1>1, <1>3, PaddingIs
<1>5. /\ padTo \in Int
      /\ padTo = NoPad => \A s \in Nat : PadAmount(padTo, s) = 0
      /\ padTo # NoPad => padTo = size + amount
  BY <1>1, <1>3, <1>4, PaddingIs
<1>6. PICK head : head = HeadCode3(t, fs, IsVbr(fs), amount) \o <<>>
  OBVIOUS
<1>7. w = Assemble(head, fs, padTo)
  <2>1. FrontBytes(t, fs, padTo) = HeadCode3(t, fs, IsVbr(fs), amount)
    BY <1>3, <1>4 DEF FrontBytes
  <2>2. Trailer(fs, FALSE) = <<>>
    BY DEF Trailer
  <2> QED
    BY <1>6, <2>1, <2>2, WriteIs
<1>8. PICK P \in Nat : P = Len(PadField(amount)) /\ P <= amount
  BY PadFieldLen
<1>9. head \in Seq(0 .. 255) /\ Len(head) = 2 + P + fields
  <2>1. PICK v : v = [head |-> head]
    OBVIOUS
  <2>2. v.head = head
    BY <2>1
  <2>3. PICK rest : rest = <<>>
    OBVIOUS
  <2>4. rest \in Seq(0 .. 255) /\ Len(rest) = 0
    BY <2>3
  <2>5. v.head = HeadCode3(t, fs, IsVbr(fs), amount) \o rest
    BY <1>6, <2>2, <2>3
  <2>6. ThreeHead(v, fs, amount, rest)
    BY <2>4, <2>5, CodeThree, Zenon
  <2>7. v.head \in Seq(0 .. 255) /\ Len(v.head) = 2 + Len(PadField(amount)) + FieldsLen(fs) + Len(rest)
    BY <2>6 DEF ThreeHead
  <2>8. Len(v.head) = 2 + P + fields + 0
    BY <1>3, <1>8, <2>4, <2>7, Zenon
  <2>9. 2 + P + fields + 0 = 2 + P + fields
    OBVIOUS
  <2> QED
    BY <2>2, <2>7, <2>8, <2>9, Zenon
<1>10. PICK short \in Nat : short = Len(head) + SumLens(fs) /\ short = size + P
  <2>1. PICK short \in Nat : short = (2 + P + fields) + sum
    OBVIOUS
  <2>2. Len(head) + SumLens(fs) = (2 + P + fields) + sum
    BY <1>3, <1>9, Zenon
  <2>3. size + P = (2 + sum + fields) + P
    BY <1>3, Zenon
  <2>4. (2 + P + fields) + sum = (2 + sum + fields) + P
    OBVIOUS
  <2> QED
    BY <2>1, <2>2, <2>3, <2>4, Zenon
<1>11. PICK tail : tail = PadAmount(padTo, short)
  OBVIOUS
<1>12. /\ WireOK(w) /\ w.head = head /\ w.body = fs
       /\ WireLen(w) = short + tail
  <2>1. /\ WireOK(w) /\ w.head = head /\ w.body = fs
        /\ WireLen(w) = Len(head) + SumLens(fs) + PadAmount(padTo, Len(head) + SumLens(fs))
    <3>1. padTo \in Int /\ head \in Seq(0 .. 255)
      BY <1>5, <1>9
    <3> QED
      <4>1. Assembled(w, head, fs, PadAmount(padTo, Len(head) + SumLens(fs)))
        BY <1>1, <1>7, <3>1, AssembleIs, Zenon
      <4> QED
        BY <4>1, Zenon DEF Assembled
  <2> QED
    BY <1>10, <1>11, <2>1, Zenon
<1>13. tail = amount - P /\ (padTo = NoPad => amount = 0) /\ (padTo # NoPad => padTo = size + amount)
  <2>1. CASE padTo = NoPad
    <3>1. amount = 0 /\ tail = 0
      BY <1>4, <1>5, <1>11, <2>1
    <3>2. P = 0
      BY <1>8, <3>1
    <3> QED
      BY <2>1, <3>1, <3>2
  <2>2. CASE padTo # NoPad
    <3>1. padTo = size + amount
      BY <1>5, <2>2
    <3>2. tail = IF padTo > short THEN padTo - short ELSE 0
      BY <1>11 DEF PadAmount
    <3>3. tail = amount - P
      BY <1>8, <1>10, <3>1, <3>2
    <3> QED
      BY <2>2, <3>1, <3>3
  <2> QED
    BY <2>1, <2>2
<1>14. PICK len \in Nat : len = WireLen(w) /\ len = size + amount /\ len = 2 + amount + (fields + sum)
  <2>1. short + tail = (size + P) + (amount - P)
    BY <1>10, <1>13, Zenon
  <2>2. (size + P) + (amount - P) = size + amount
    OBVIOUS
  <2>3. PICK two \in Nat : two = 2 + sum + fields
    OBVIOUS
  <2>4. size = two
    BY <1>3, <2>3
  <2>5. two + amount = 2 + amount + (fields + sum)
    BY <2>3
  <2>6. size + amount = 2 + amount + (fields + sum)
    BY <2>4, <2>5, Zenon
  <2>7. WireLen(w) = size + amount
    BY <1>12, <2>1, <2>2, Zenon
  <2>8. PICK len \in Nat : len = size + amount
    OBVIOUS
  <2> QED
    BY <2>6, <2>7, <2>8, Zenon
<1>15. Yields(w, fs, parse_frames(w, FALSE))
  <2>1. WireLen(w) = 2 + amount + (FieldsLen(fs) + SumLens(fs))
    BY <1>3, <1>14, Zenon
  <2>2. w.head = HeadCode3(t, fs, IsVbr(fs), amount) \o <<>>
    BY <1>6, <1>12
  <2>3. WireOK(w) /\ w.body = fs
    BY <1>12
  <2> QED
    <3>1. CountedPlain(w, t, fs, amount)
      BY <2>1, <2>2 DEF CountedPlain
    <3> QED
      BY <2>3, <3>1, YieldsCounted, Zenon
<1>16. WireLen(w) > 0
  <2>1. WireLen(w) = 2 + amount + (fields + sum)
    BY <1>14, Zenon
  <2>2. 2 + amount + (fields + sum) > 0
    OBVIOUS
  <2> QED
    BY <2>1, <2>2, Zenon
<1>17. padTo = NoPad => WireLen(w) = Shortest(fs)
  <2> SUFFICES ASSUME padTo = NoPad PROVE WireLen(w) = Shortest(fs)
    OBVIOUS
  <2>1. Shortest(fs) = size
    BY <1>3 DEF Shortest
  <2>2. amount = 0 /\ size + 0 = size
    BY <1>13
  <2>3. WireLen(w) = size + amount
    BY <1>14, Zenon
  <2> QED
    BY <2>1, <2>2, <2>3, Zenon
<1>18. padTo # NoPad => WireLen(w) = padTo
  BY <1>13, <1>14
<1> QED
  BY <1>12, <1>15, <1>16, <1>17, <1>18 DEF Written

(* What write_range makes of one or two frames without padding.            *)
LEMMA WrittenShort ==
  ASSUME NEW t, NEW fs, Selected(t, fs), Len(fs) \in {1, 2},
         NEW w, w = write_range(t, fs, NoPad, FALSE)
  PROVE  Written(w, fs, NoPad)
<1>1. HeldFrames(fs) /\ Len(fs) >= 1
  BY DEF Selected
<1>2. PICK size \in Nat, sum \in Nat, fields \in Nat :
        /\ size = Code3Size(fs) /\ sum = SumLens(fs) /\ fields = FieldsLen(fs)
        /\ size = 2 + sum + fields
  <2>1. SumLens(fs) \in Nat /\ FieldsLen(fs) \in Nat /\ Code3Size(fs) = 2 + SumLens(fs) + FieldsLen(fs)
    BY <1>1, HeldAre, FieldsOfAre
  <2> QED
    BY <2>1
<1>3. NoPad \in Int /\ \A s \in Nat : PadAmount(NoPad, s) = 0
  BY DEF PadAmount, NoPad
<1>4. FALSE \in BOOLEAN /\ Behind(FALSE, 0)
  BY DEF Behind
<1>5. ~(Len(fs) > 2)
  <2>1. \A m \in {1, 2} : ~(m > 2)
    OBVIOUS
  <2> QED
    BY <2>1
<1>6. PICK head : head = Head012(t, fs) \o Trailer(fs, FALSE)
  OBVIOUS
<1>7. w = Assemble(head, fs, NoPad)
  <2>1. FrontBytes(t, fs, NoPad) = Head012(t, fs)
    BY <1>5 DEF FrontBytes
  <2> QED
    BY <1>6, <2>1, WriteIs
<1>8. head \in Seq(0 .. 255) /\ Len(head) = 1 + fields
  <2>1. Trailer(fs, FALSE) = <<>> /\ Len(<<>>) = 0
    BY DEF Trailer
  <2>2. head \in Seq(0 .. 255) /\ Len(head) = 1 + FieldsLen(fs) + Len(Trailer(fs, FALSE))
    BY <1>4, <1>6, ShortLen
  <2>3. Len(head) = 1 + fields + 0
    BY <1>2, <2>1, <2>2, Zenon
  <2>4. 1 + fields + 0 = 1 + fields
    OBVIOUS
  <2> QED
    BY <2>2, <2>3, <2>4, Zenon
<1>9. PICK len \in Nat : len = Len(head) + SumLens(fs) /\ len = 1 + fields + sum
  <2>1. PICK len \in Nat : len = 1 + fields + sum
    OBVIOUS
  <2> QED
    BY <1>2, <1>8, <2>1, Zenon
<1>10. WireOK(w) /\ w.head = head /\ w.body = fs /\ WireLen(w) = len
  <2>1. /\ WireOK(w) /\ w.head = head /\ w.body = fs
        /\ WireLen(w) = Len(head) + SumLens(fs) + PadAmount(NoPad, Len(head) + SumLens(fs))
    <3>1. NoPad \in Int /\ head \in Seq(0 .. 255)
      BY <1>3, <1>8
    <3> QED
      <4>1. Assembled(w, head, fs, PadAmount(NoPad, Len(head) + SumLens(fs)))
        BY <1>1, <1>7, <3>1, AssembleIs, Zenon
      <4> QED
        BY <4>1, Zenon DEF Assembled
  <2>2. PadAmount(NoPad, Len(head) + SumLens(fs)) = 0
    <3>1. PadAmount(NoPad, len) = 0
      BY <1>3
    <3> QED
      BY <1>9, <3>1, Zenon
  <2>3. len + 0 = len
    OBVIOUS
  <2>4. WireLen(w) = len + 0
    BY <1>9, <2>1, <2>2, Zenon
  <2> QED
    BY <2>1, <2>3, <2>4, Zenon
<1>11. Yields(w, fs, parse_frames(w, FALSE))
  <2>0. len = Len(w.head) + SumLens(fs) /\ len + 0 = len
    <3>1. len + 0 = len
      OBVIOUS
    <3>2. len = Len(head) + SumLens(fs)
      BY <1>9
    <3>3. w.head = head
      BY <1>10
    <3> QED
      BY <3>1, <3>2, <3>3, Zenon
  <2>1. WireLen(w) = Len(w.head) + SumLens(fs) + 0
    BY <1>10, <2>0, Zenon
  <2>2. w.head = Head012(t, fs) \o Trailer(fs, FALSE)
    BY <1>6, <1>10
  <2> QED
    BY <1>4, <1>10, <2>1, <2>2, YieldsShort, Zenon
<1>12. Shortest(fs) = len
  <2>1. Shortest(fs) = size - 1
    BY <1>2, <1>5 DEF Shortest
  <2> QED
    BY <1>2, <1>9, <2>1
<1>13. len > 0
  BY <1>2, <1>9
<1> QED
  BY <1>10, <1>11, <1>12, <1>13 DEF Written

(* Whatever the repacketizer writes, the parser finds the frames in it.    *)
LEMMA WrittenIs ==
  ASSUME NEW t, NEW fs, Selected(t, fs), NEW padTo, Asked(fs, padTo),
         NEW w, w = write_range(t, fs, padTo, FALSE)
  PROVE  Written(w, fs, padTo)
<1>1. CASE Len(fs) > 2 \/ padTo # NoPad
  BY <1>1, WrittenCounted, Zenon
<1>2. CASE ~(Len(fs) > 2) /\ padTo = NoPad
  <2>1. HeldFrames(fs) /\ Len(fs) >= 1
    BY DEF Selected
  <2>2. Len(fs) \in Nat
    BY <2>1, HeldAre
  <2>3. Len(fs) \in {1, 2}
    <3>1. PICK n \in Nat : n = Len(fs)
      BY <2>2
    <3>2. n >= 1 /\ ~(n > 2)
      BY <1>2, <2>1, <3>1
    <3>3. n \in {1, 2}
      BY <3>2
    <3> QED
      BY <3>1, <3>3
  <2> QED
    BY <1>2, <2>3, WrittenShort, Zenon
<1> QED
  BY <1>1, <1>2

(* The same packet with more bytes behind it.                              *)
Followed(w, more) == [w EXCEPT !.tail = @ + more]

FollowedBy(v, w, more) ==
  /\ WireOK(v) /\ v.head = w.head /\ v.body = w.body
  /\ WireLen(v) = WireLen(w) + more

(* Bytes behind a packet change its length and nothing else.               *)
LEMMA FollowedIs ==
  ASSUME NEW w, WireOK(w), NEW more \in Nat
  PROVE  FollowedBy(Followed(w, more), w, more)
<1>1. /\ w = [head |-> w.head, body |-> w.body, tail |-> w.tail]
      /\ w.head \in Seq(0 .. 255) /\ FramesOK(w.body) /\ w.tail \in Nat
  BY DEF WireOK
<1>2. PICK v : v = Followed(w, more)
  OBVIOUS
<1>3. v = [head |-> w.head, body |-> w.body, tail |-> w.tail + more]
  BY <1>1, <1>2 DEF Followed
<1>4. v.head = w.head /\ v.body = w.body /\ v.tail = w.tail + more
  BY <1>3
<1>5. v = [head |-> v.head, body |-> v.body, tail |-> v.tail]
  BY <1>3, <1>4
<1>6. v.tail \in Nat
  BY <1>1, <1>4
<1>7. WireOK(v)
  BY <1>1, <1>4, <1>5, <1>6 DEF WireOK
<1>8. PICK head \in Nat, sum \in Nat : head = Len(w.head) /\ sum = SumLens(w.body)
  BY BytesAre
<1>9. WireLen(v) = head + sum + (w.tail + more) /\ WireLen(w) = head + sum + w.tail
  BY <1>4, <1>8 DEF WireLen
<1>10. WireLen(v) = WireLen(w) + more
  BY <1>1, <1>9
<1> QED
  BY <1>2, <1>4, <1>7, <1>10 DEF FollowedBy

(* A self-delimited packet of these frames.                                *)
Delimited(w, fs) ==
  /\ WireOK(w) /\ w.body = fs /\ WireLen(w) > 0
  /\ WireLen(w) = Len(w.head) + SumLens(fs)
  /\ Len(w.head) <= 2 + 2 * Len(fs)

(* What write_range makes self-delimited.                                  *)
LEMMA DelimitedIs ==
  ASSUME NEW t, NEW fs, Selected(t, fs), NEW w, w = write_range(t, fs, NoPad, TRUE)
  PROVE  /\ Delimited(w, fs) /\ w.head = FrontBytes(t, fs, NoPad) \o Trailer(fs, TRUE)
         /\ Len(fs) > 2 => FrontBytes(t, fs, NoPad) = HeadCode3(t, fs, IsVbr(fs), 0)
         /\ ~(Len(fs) > 2) => FrontBytes(t, fs, NoPad) = Head012(t, fs)
<1>1. HeldFrames(fs) /\ Len(fs) >= 1
  BY DEF Selected
<1>2. PICK n \in Nat : n = Len(fs) /\ n >= 1
  BY <1>1, HeldAre
<1>3. PICK sum \in Nat : sum = SumLens(fs)
  BY <1>1, HeldAre
<1>4. PICK fields \in Nat : fields = FieldsLen(fs) /\ fields <= 2 * (n - 1)
  BY <1>1, <1>2, FieldsFew
<1>5. PICK rest : rest = Trailer(fs, TRUE)
  OBVIOUS
<1>6. PICK r \in {1, 2} : r = Len(rest) /\ rest \in Seq(0 .. 255)
  <2>1. TRUE \in BOOLEAN
    OBVIOUS
  <2>2. rest \in Seq(0 .. 255) /\ Len(rest) = FieldLen(fs[n].len)
    BY <1>1, <1>2, <1>5, <2>1, TrailerIs
  <2>3. fs[n].len \in 0 .. MaxFrameBytes
    BY <1>1, <1>2, LensAppend
  <2>4. FieldLen(fs[n].len) \in {1, 2}
    BY <2>3, PutSizeIs
  <2> QED
    BY <2>2, <2>4
<1>7. NoPad \in Int /\ \A s \in Nat : PadAmount(NoPad, s) = 0
  BY DEF PadAmount, NoPad
<1>8. PICK head : head = FrontBytes(t, fs, NoPad) \o rest
  OBVIOUS
<1>9. Len(fs) > 2 => FrontBytes(t, fs, NoPad) = HeadCode3(t, fs, IsVbr(fs), 0)
  <2>1. Code3Size(fs) \in Nat
    <3>1. Code3Size(fs) = 2 + SumLens(fs) + FieldsLen(fs)
      BY <1>1, FieldsOfAre
    <3> QED
      BY <1>3, <1>4, <3>1
  <2>2. PadAmount(NoPad, Code3Size(fs)) = 0
    BY <1>7, <2>1
  <2> QED
    BY <2>2 DEF FrontBytes
<1>10. ~(Len(fs) > 2) => FrontBytes(t, fs, NoPad) = Head012(t, fs)
  BY DEF FrontBytes
<1>11. PICK lead \in {1, 2} : head \in Seq(0 .. 255) /\ Len(head) = lead + fields + r
  <2>1. CASE Len(fs) > 2
    <3>1. PICK v : v = [head |-> head]
      OBVIOUS
    <3>2. v.head = head
      BY <3>1
    <3>3. v.head = HeadCode3(t, fs, IsVbr(fs), 0) \o rest
      BY <1>8, <1>9, <2>1, <3>2
    <3>4. 0 \in Nat
      OBVIOUS
    <3>5. ThreeHead(v, fs, 0, rest)
      BY <1>6, <3>3, <3>4, CodeThree, Zenon
    <3>6. Len(PadField(0)) = 0
      BY <3>4, PadFieldIs
    <3>7. head \in Seq(0 .. 255) /\ Len(head) = 2 + 0 + fields + r
      BY <1>4, <1>6, <3>2, <3>5, <3>6, Zenon DEF ThreeHead
    <3>8. 2 + 0 + fields + r = 2 + fields + r /\ 2 \in {1, 2}
      OBVIOUS
    <3> QED
      BY <3>7, <3>8, Zenon
  <2>2. CASE ~(Len(fs) > 2)
    <3>1. n \in {1, 2}
      BY <1>2, <2>2
    <3>2. Len(fs) \in {1, 2} /\ TRUE \in BOOLEAN
      BY <1>2, <3>1
    <3>3. head = Head012(t, fs) \o Trailer(fs, TRUE)
      BY <1>5, <1>8, <1>10, <2>2
    <3>4. head \in Seq(0 .. 255) /\ Len(head) = 1 + FieldsLen(fs) + Len(Trailer(fs, TRUE))
      BY <3>2, <3>3, ShortLen
    <3>5. Len(head) = 1 + fields + r
      BY <1>4, <1>5, <1>6, <3>4, Zenon
    <3>6. 1 \in {1, 2}
      OBVIOUS
    <3> QED
      BY <3>4, <3>5, <3>6, Zenon
  <2> QED
    BY <2>1, <2>2
<1>12. PICK len \in Nat : len = Len(head) + SumLens(fs) /\ len > 0
  <2>1. PICK len \in Nat : len = (lead + fields + r) + sum
    OBVIOUS
  <2>2. len > 0
    BY <2>1
  <2> QED
    BY <1>3, <1>11, <2>1, <2>2, Zenon
<1>13. WireOK(w) /\ w.head = head /\ w.body = fs /\ WireLen(w) = len
  <2>1. w = Assemble(head, fs, NoPad)
    BY <1>5, <1>8, WriteIs
  <2>2. Assembled(w, head, fs, PadAmount(NoPad, Len(head) + SumLens(fs)))
    BY <1>1, <1>7, <1>11, <2>1, AssembleIs, Zenon
  <2>3. PadAmount(NoPad, Len(head) + SumLens(fs)) = 0
    <3>1. PadAmount(NoPad, len) = 0
      BY <1>7
    <3> QED
      BY <1>12, <3>1, Zenon
  <2>4. WireOK(w) /\ w.head = head /\ w.body = fs /\ WireLen(w) = len + 0
    BY <1>12, <2>2, <2>3, Zenon DEF Assembled
  <2>5. len + 0 = len
    OBVIOUS
  <2> QED
    BY <2>4, <2>5, Zenon
<1>14. Len(w.head) <= 2 + 2 * Len(fs)
  <2>1. lead + fields + r <= 2 + 2 * n
    BY <1>4
  <2> QED
    BY <1>2, <1>11, <1>13, <2>1, Zenon
<1>15. WireLen(w) = Len(w.head) + SumLens(fs) /\ WireLen(w) > 0
  BY <1>12, <1>13, Zenon
<1>16. Delimited(w, fs)
  BY <1>13, <1>14, <1>15, Zenon DEF Delimited
<1> QED
  BY <1>5, <1>8, <1>9, <1>10, <1>13, <1>16

(* Whatever follows a self-delimited packet, its frames are found, and its *)
(* end.                                                                    *)
LEMMA DelimitedFound ==
  ASSUME NEW t, NEW fs, Selected(t, fs), NEW w, w = write_range(t, fs, NoPad, TRUE),
         NEW more \in Nat, NEW v, v = Followed(w, more)
  PROVE  Yields(v, fs, parse_frames(v, TRUE)) /\ parse_frames(v, TRUE).end = WireLen(w)
<1>1. HeldFrames(fs) /\ Len(fs) >= 1
  BY DEF Selected
<1>2. PICK n \in Nat : n = Len(fs) /\ n >= 1
  BY <1>1, HeldAre
<1>3. /\ Delimited(w, fs) /\ w.head = FrontBytes(t, fs, NoPad) \o Trailer(fs, TRUE)
      /\ Len(fs) > 2 => FrontBytes(t, fs, NoPad) = HeadCode3(t, fs, IsVbr(fs), 0)
      /\ ~(Len(fs) > 2) => FrontBytes(t, fs, NoPad) = Head012(t, fs)
  BY DelimitedIs
<1>4. /\ WireOK(w) /\ w.body = fs
      /\ WireLen(w) = Len(w.head) + SumLens(fs)
  BY <1>3 DEF Delimited
<1>5. WireOK(v) /\ v.head = w.head /\ v.body = fs /\ WireLen(v) = WireLen(w) + more
  <2>1. FollowedBy(v, w, more)
    BY <1>4, FollowedIs
  <2> QED
    BY <1>4, <2>1 DEF FollowedBy
<1>6. WireLen(v) = Len(v.head) + SumLens(fs) + more
  BY <1>4, <1>5, Zenon
<1>7. Yields(v, fs, parse_frames(v, TRUE))
  <2>1. CASE Len(fs) > 2
    <3>1. Trailer(fs, TRUE) = put_size(fs[n].len)
      BY <1>2 DEF Trailer
    <3>2. v.head = HeadCode3(t, fs, IsVbr(fs), 0) \o put_size(fs[n].len)
      BY <1>3, <1>5, <2>1, <3>1, Zenon
    <3> QED
      BY <1>2, <1>5, <1>6, <3>2, YieldsDelimited, Zenon
  <2>2. CASE ~(Len(fs) > 2)
    <3>1. n \in {1, 2}
      BY <1>2, <2>2
    <3>2. Len(fs) \in {1, 2} /\ TRUE \in BOOLEAN /\ Behind(TRUE, more)
      BY <1>2, <3>1 DEF Behind
    <3>3. v.head = Head012(t, fs) \o Trailer(fs, TRUE)
      BY <1>3, <1>5, <2>2, Zenon
    <3> QED
      BY <1>5, <1>6, <3>2, <3>3, YieldsShort, Zenon
  <2> QED
    BY <2>1, <2>2
<1>8. parse_frames(v, TRUE).end = WireLen(w)
  <2>1. parse_frames(v, TRUE).end = Len(v.head) + SumLens(fs)
    BY <1>7 DEF Yields
  <2> QED
    BY <1>4, <1>5, <2>1, Zenon
<1> QED
  BY <1>7, <1>8

(***************************************************************************)
(* The room an accepted packet had: re-framing it takes no more.           *)
(***************************************************************************)
(* The bytes the fields of these sizes take, unless all are equal.         *)
SizeLens(sizes) == [i \in DOMAIN sizes |-> FieldLen(sizes[i])]
Uneven(sizes) == \E i \in DOMAIN sizes : sizes[i] # sizes[1]
FieldsNeeded(sizes, n) == IF Uneven(sizes) THEN SumTo(SizeLens(sizes), n - 1) ELSE 0

(* Sizes read one by one from pos on: a field of each lies behind.         *)
ReadFrom(h, pos, n) ==
  /\ h = [ok |-> h.ok, pos |-> h.pos, sizes |-> h.sizes] /\ h.ok \in BOOLEAN
  /\ h.ok => /\ SizesRead(h, n)
             /\ SumTo(SizeLens(h.sizes), n) \in Nat
             /\ h.pos >= pos + SumTo(SizeLens(h.sizes), n)

(* One more size: the sum of the fields grows by its field.                *)
LEMMA SizeLensAppend ==
  ASSUME NEW S, NEW a \in Seq(S), NEW n \in Nat, n = Len(a), NEW x
  PROVE  /\ SumTo(SizeLens(Append(a, x)), n) = SumTo(SizeLens(a), n)
         /\ SumTo(SizeLens(Append(a, x)), n + 1) = SumTo(SizeLens(a), n) + FieldLen(x)
<1>1. PICK b : b = Append(a, x)
  OBVIOUS
<1>2. /\ DOMAIN a = 1 .. n /\ DOMAIN b = 1 .. n + 1 /\ b[n + 1] = x
      /\ \A i \in 1 .. n : b[i] = a[i]
  BY <1>1, AppendIs
<1>3. \A i \in 1 .. n : SizeLens(a)[i] = SizeLens(b)[i]
  BY <1>2 DEF SizeLens
<1>4. n \in 0 .. n
  OBVIOUS
<1>5. SumTo(SizeLens(a), n) = SumTo(SizeLens(b), n)
  BY <1>3, <1>4, SumSame
<1>6. SumTo(SizeLens(b), n + 1) = SumTo(SizeLens(b), n) + SizeLens(b)[n + 1]
  BY SumStep
<1>7. SizeLens(b)[n + 1] = FieldLen(x)
  <2>1. n + 1 \in DOMAIN b
    BY <1>2
  <2> QED
    BY <1>2, <2>1 DEF SizeLens
<1> QED
  BY <1>1, <1>5, <1>6, <1>7, Zenon

(* Reading a size keeps that.                                              *)
LEMMA ReadsOn ==
  ASSUME NEW w, WireOK(w), NEW end \in Int, NEW pos \in Nat, NEW n \in Nat,
         NEW h, ReadFrom(h, pos, n)
  PROVE  ReadFrom(ReadNext(w, h, end), pos, n + 1)
<1> DEFINE l == read_opus_frame_len(w, h.pos, end)
           size == SizeOf(ByteAt(w, h.pos), ByteAt(w, h.pos + 1))
           b0 == ByteAt(w, h.pos)
<1>1. PICK g : g = ReadNext(w, h, end)
  OBVIOUS
<1>2. /\ g = [ok |-> g.ok, pos |-> g.pos, sizes |-> g.sizes]
      /\ ~(h.ok /\ l.ok) => g.ok = FALSE
      /\ h.ok /\ l.ok => g.ok = h.ok /\ g.pos = h.pos + l.bytes /\ g.sizes = Append(h.sizes, l.size)
  BY <1>1, ReadLenIs DEF ReadNext, ReadFrom
<1>3. CASE ~(h.ok /\ l.ok)
  <2>1. g.ok = FALSE
    BY <1>2, <1>3
  <2> QED
    BY <1>1, <1>2, <2>1, Zenon DEF ReadFrom
<1>4. CASE h.ok /\ l.ok
  <2>1. SizesRead(h, n) /\ SumTo(SizeLens(h.sizes), n) \in Nat /\ h.pos >= pos + SumTo(SizeLens(h.sizes), n)
    BY <1>4 DEF ReadFrom
  <2>2. h.pos \in Nat /\ h.sizes \in Seq(0 .. MaxFrameBytes) /\ Len(h.sizes) = n
    BY <2>1 DEF SizesRead
  <2>3. l.size = size /\ l.bytes = IF b0 < 252 THEN 1 ELSE 2
    BY <1>4, <2>2, FrameLenIs
  <2>4. size \in 0 .. MaxFrameBytes /\ (b0 < 252 => size < 252) /\ (b0 >= 252 => size >= 252)
    BY <2>2, SizeIs
  <2>5. b0 \in 0 .. 255
    BY <2>2, BytesAre
  <2>6. FieldLen(size) = l.bytes
    <3> HIDE DEF l, size, b0
    <3>1. size \in Nat
      BY <2>4 DEF MaxFrameBytes
    <3> QED
      BY <2>3, <2>4, <2>5, <3>1 DEF FieldLen
  <2>7. l.bytes \in {1, 2}
    BY <2>3
  <2> HIDE DEF l, size, b0
  <2>8. g.ok = TRUE /\ g.pos = h.pos + l.bytes /\ g.sizes = Append(h.sizes, size)
    BY <1>2, <1>4, <2>3 DEF ReadFrom
  <2>9. g.pos \in Nat /\ g.sizes \in Seq(0 .. MaxFrameBytes) /\ Len(g.sizes) = n + 1
    BY <2>2, <2>4, <2>7, <2>8
  <2>10. SumTo(SizeLens(g.sizes), n + 1) = SumTo(SizeLens(h.sizes), n) + l.bytes
    BY <2>2, <2>6, <2>8, SizeLensAppend
  <2>11. PICK sum \in Nat : sum = SumTo(SizeLens(h.sizes), n)
    BY <2>1
  <2>12. SumTo(SizeLens(g.sizes), n + 1) \in Nat /\ g.pos >= pos + SumTo(SizeLens(g.sizes), n + 1)
    <3>1. sum + l.bytes \in Nat /\ h.pos + l.bytes >= pos + (sum + l.bytes)
      BY <2>1, <2>2, <2>7, <2>11
    <3> QED
      BY <2>8, <2>10, <2>11, <3>1, Zenon
  <2>13. SizesRead(g, n + 1)
    BY <2>9 DEF SizesRead
  <2>14. g.ok \in BOOLEAN
    BY <2>8
  <2>15. ReadFrom(g, pos, n + 1)
    BY <1>2, <2>12, <2>13, <2>14, Zenon DEF ReadFrom
  <2> QED
    BY <1>1, <2>15
<1> QED
  BY <1>3, <1>4

(* So do n of them.                                                        *)
LEMMA ReadsAll ==
  ASSUME NEW w, WireOK(w), NEW end \in Int, NEW pos \in Nat, NEW n \in Nat
  PROVE  ReadFrom(ReadLens(w, pos, end, n), pos, n)
<1>1. PICK f : /\ f[0] = NoneRead(pos) /\ ReadLens(w, pos, end, n) = f[n]
               /\ \A i \in Nat : i < n => f[i + 1] = ReadNext(w, f[i], end)
  BY ReadsUnfold
<1> DEFINE T == {i \in Nat : i <= n => ReadFrom(f[i], pos, i)}
<1>2. 0 \in T
  <2>1. PICK h : h = NoneRead(pos)
    OBVIOUS
  <2>2. h = [ok |-> h.ok, pos |-> h.pos, sizes |-> h.sizes] /\ h.ok = TRUE /\ h.pos = pos /\ h.sizes = <<>>
    BY <2>1 DEF NoneRead
  <2>3. SumTo(SizeLens(h.sizes), 0) = 0
    BY SumStep
  <2>4. SizesRead(h, 0)
    BY <2>2 DEF SizesRead
  <2>5. SumTo(SizeLens(h.sizes), 0) \in Nat /\ h.pos >= pos + SumTo(SizeLens(h.sizes), 0) /\ h.ok \in BOOLEAN
    <3>1. PICK sum : sum = SumTo(SizeLens(h.sizes), 0) /\ sum = 0
      BY <2>3
    <3>2. PICK at : at = h.pos /\ at = pos
      BY <2>2
    <3>3. sum \in Nat /\ at >= pos + sum
      BY <3>1, <3>2
    <3>4. h.ok \in BOOLEAN
      BY <2>2
    <3> QED
      BY <3>1, <3>2, <3>3, <3>4, Zenon
  <2>6. ReadFrom(h, pos, 0)
    BY <2>2, <2>4, <2>5, Zenon DEF ReadFrom
  <2> QED
    BY <1>1, <2>1, <2>6
<1>3. ASSUME NEW i \in Nat, i \in T PROVE i + 1 \in T
  <2> SUFFICES ASSUME i + 1 <= n PROVE ReadFrom(f[i + 1], pos, i + 1)
    OBVIOUS
  <2>1. i < n /\ i <= n
    OBVIOUS
  <2>2. ReadFrom(f[i], pos, i) /\ f[i + 1] = ReadNext(w, f[i], end)
    BY <1>1, <1>3, <2>1
  <2> QED
    BY <2>2, ReadsOn
<1>4. T = Nat
  <2>1. T \in SUBSET Nat
    OBVIOUS
  <2> HIDE DEF T
  <2> QED
    BY <1>2, <1>3, <2>1, NatSetInduction
<1>5. ReadFrom(f[n], pos, n)
  <2>1. n \in T
    BY <1>4
  <2> QED
    BY <2>1
<1> QED
  BY <1>1, <1>5

(* The header of n frames: where their sizes begin, and what a decoder has *)
(* read when it accepts it.                                                *)
Lead(n) == IF n > 2 THEN 2 ELSE 1
Laid(h, n) ==
  h.ok => /\ Len(h.sizes) = n
          /\ FieldsNeeded(h.sizes, n) \in Nat
          /\ h.pos >= Lead(n) + FieldsNeeded(h.sizes, n)

(* Nothing is laid out in a refused packet.                                *)
LEMMA RejectLaid ==
  ASSUME NEW n
  PROVE  Laid(Reject, n)
<1>1. Reject.ok = FALSE
  BY DEF Reject
<1> QED
  BY <1>1, Zenon DEF Laid

(* Explicit sizes.                                                         *)
LEMMA RemainderLaid ==
  ASSUME NEW start \in Nat, NEW m \in Nat, m >= 1, start >= Lead(m),
         NEW h, ReadFrom(h, start, m - 1), NEW end \in Int
  PROVE  Laid(WithRemainder(h, end), m)
<1>1. PICK r : r = WithRemainder(h, end)
  OBVIOUS
<1>2. PICK k \in Nat : k = m - 1
  OBVIOUS
<1>3. h.ok => SizesRead(h, k)
  BY <1>2 DEF ReadFrom
<1>4. h.ok => Room(h, end) \in Int
  BY <1>3, RoomIs
<1>5. r.ok => h.ok /\ r.pos = h.pos /\ r.sizes = Append(h.sizes, Room(h, end))
  BY <1>1, <1>4, RemainderIs DEF ReadFrom
<1>6. SUFFICES ASSUME r.ok PROVE /\ Len(r.sizes) = m /\ FieldsNeeded(r.sizes, m) \in Nat
                                /\ r.pos >= Lead(m) + FieldsNeeded(r.sizes, m)
  BY <1>1, Zenon DEF Laid
<1>7. h.ok /\ r.pos = h.pos /\ r.sizes = Append(h.sizes, Room(h, end))
  BY <1>5, <1>6
<1>8. h.pos \in Nat /\ h.sizes \in Seq(0 .. MaxFrameBytes) /\ Len(h.sizes) = k
  BY <1>3, <1>7 DEF SizesRead
<1>9. PICK sum \in Nat : sum = SumTo(SizeLens(h.sizes), k) /\ h.pos >= start + sum
  BY <1>2, <1>7 DEF ReadFrom
<1>10. SumTo(SizeLens(r.sizes), k) = sum
  BY <1>7, <1>8, <1>9, SizeLensAppend
<1>11. Len(r.sizes) = m
  <2>1. Len(r.sizes) = k + 1
    BY <1>7, <1>8, AppendIs
  <2> QED
    BY <1>2, <2>1
<1>12. FieldsNeeded(r.sizes, m) \in {0, sum}
  BY <1>2, <1>10 DEF FieldsNeeded
<1>13. Lead(m) \in {1, 2}
  BY DEF Lead
<1>14. PICK need \in {0, sum} : need = FieldsNeeded(r.sizes, m)
  BY <1>12
<1>15. PICK lead \in {1, 2} : lead = Lead(m)
  BY <1>13
<1>16. need \in Nat /\ h.pos >= lead + need
  BY <1>8, <1>9, <1>14, <1>15
<1> QED
  BY <1>7, <1>11, <1>14, <1>15, <1>16, Zenon

(* Equal frames need no sizes.                                             *)
LEMMA EqualLaid ==
  ASSUME NEW pos \in Nat, NEW m \in Nat, m >= 1, pos >= Lead(m), NEW end \in Int
  PROVE  Laid(EqualFrames(pos, end, m), m)
<1>1. PICK size : size = (end - pos) \div m
  OBVIOUS
<1>2. PICK sizes : sizes = [i \in 1 .. m |-> size]
  OBVIOUS
<1>3. EqualFrames(pos, end, m) \in {Reject, [ok |-> TRUE, pos |-> pos, sizes |-> sizes]}
  BY <1>1, <1>2 DEF EqualFrames
<1>4. PICK h : h = [ok |-> TRUE, pos |-> pos, sizes |-> sizes]
  OBVIOUS
<1>5. h.pos = pos /\ h.sizes = sizes
  BY <1>4
<1>6. Len(sizes) = m /\ DOMAIN sizes = 1 .. m /\ \A i \in 1 .. m : sizes[i] = size
  BY <1>2
<1>7. 1 \in 1 .. m
  OBVIOUS
<1>8. ~Uneven(sizes)
  BY <1>6, <1>7 DEF Uneven
<1>9. FieldsNeeded(sizes, m) = 0
  BY <1>8 DEF FieldsNeeded
<1>10. Lead(m) \in {1, 2}
  BY DEF Lead
<1>11. PICK lead \in {1, 2} : lead = Lead(m)
  BY <1>10
<1>12. pos >= lead + 0 /\ 0 \in Nat
  BY <1>11
<1>13. Laid(h, m)
  BY <1>5, <1>6, <1>9, <1>11, <1>12, Zenon DEF Laid
<1> QED
  BY <1>3, <1>4, <1>13, RejectLaid, Zenon

(* The frames of a code-3 packet.                                          *)
LEMMA FramesLaid ==
  ASSUME NEW w, WireOK(w), NEW start \in Nat, start >= 2, NEW end \in Int,
         NEW ch \in 0 .. 255, NEW m \in Nat, Counts(ch, m), m >= 1
  PROVE  Laid(DecodeFramesIn(w, ch, start, end), m)
<1>0. m = ch % 64
  BY DEF Counts
<1>1. start >= Lead(m)
  BY DEF Lead
<1>2. CASE end < 0 \/ start > end
  <2>1. DecodeFramesIn(w, ch, start, end) = Reject
    BY <1>2 DEF DecodeFramesIn
  <2> QED
    BY <2>1, RejectLaid
<1>3. CASE ~(end < 0 \/ start > end) /\ ch >= 128
  <2>1. DecodeFramesIn(w, ch, start, end) = WithRemainder(ReadLens(w, start, end, m - 1), end)
    BY <1>0, <1>3 DEF DecodeFramesIn
  <2>2. PICK k \in Nat : k = m - 1
    OBVIOUS
  <2>3. ReadFrom(ReadLens(w, start, end, m - 1), start, m - 1)
    BY <2>2, ReadsAll
  <2> QED
    BY <1>1, <2>1, <2>3, RemainderLaid
<1>4. CASE ~(end < 0 \/ start > end) /\ ~(ch >= 128)
  <2>1. DecodeFramesIn(w, ch, start, end) = EqualFrames(start, end, m)
    BY <1>0, <1>4 DEF DecodeFramesIn
  <2> QED
    BY <1>1, <2>1, EqualLaid
<1> QED
  BY <1>2, <1>3, <1>4

(* A code-3 packet.                                                        *)
LEMMA Code3Laid ==
  ASSUME NEW w, WireOK(w), NEW n \in Nat, n = WireLen(w), NEW ch \in 0 .. 255,
         NEW m \in Nat, Counts(ch, m)
  PROVE  Laid(DecodeCode3(w, n, ch), m) /\ (DecodeCode3(w, n, ch).ok => n >= 2 /\ m >= 1)
<1>0. Reject.ok = FALSE
  BY DEF Reject
<1>1. CASE n < 2 \/ m < 1
  <2>1. DecodeCode3(w, n, ch) = Reject
    <3>1. n < 2 \/ (ch % 64) \notin 1 .. MAX_FRAMES
      BY <1>1 DEF Counts
    <3> QED
      BY <3>1 DEF DecodeCode3
  <2> QED
    BY <1>0, <2>1, RejectLaid
<1>2. CASE ~(n < 2 \/ m < 1)
  <2>1. m >= 1 /\ n >= 2
    BY <1>2
  <2>0. 2 \in Nat /\ 2 >= 2 /\ n \in Int
    OBVIOUS
  <2>2. Laid(DecodeFramesIn(w, ch, 2, n), m)
    BY <2>0, <2>1, FramesLaid, Zenon
  <2>3. PICK k \in 2 .. n : k = PadStop(w, 2)
    BY <2>1, PadStopIs
  <2>4. Laid(DecodePadding(w, ch, n, k), m)
    <3>1. CASE k >= n
      <4>1. DecodePadding(w, ch, n, k) = Reject
        BY <3>1 DEF DecodePadding
      <4> QED
        BY <4>1, RejectLaid
    <3>2. CASE ~(k >= n)
      <4>0. k \in Nat
        OBVIOUS
      <4>1. PICK b \in 0 .. 255 : b = ByteAt(w, k)
        BY <4>0, BytesAre
      <4>2. PICK end \in Int : end = n - 254 * (k - 2) - b
        OBVIOUS
      <4>3. DecodePadding(w, ch, n, k) = DecodeFramesIn(w, ch, k + 1, end)
        BY <3>2, <4>1, <4>2 DEF DecodePadding
      <4>4. PICK start \in Nat : start = k + 1 /\ start >= 2
        BY <2>3
      <4>5. Laid(DecodeFramesIn(w, ch, start, end), m)
        BY <2>1, <4>4, FramesLaid, Zenon
      <4> QED
        BY <4>3, <4>4, <4>5, Zenon
    <3> QED
      BY <3>1, <3>2
  <2>5. \/ DecodeCode3(w, n, ch) = Reject
        \/ DecodeCode3(w, n, ch) = DecodePadding(w, ch, n, k)
        \/ DecodeCode3(w, n, ch) = DecodeFramesIn(w, ch, 2, n)
    <3> DEFINE refused == \/ n < 2
                          \/ (ch % 64) \notin 1 .. MAX_FRAMES
                          \/ (ch % 64) * samples_per_frame(ByteAt(w, 0), 48000) > MaxPacketSamples48k
               padded == (ch \div 64) % 2 = 1
    <3>1. DecodeCode3(w, n, ch) =
            IF refused THEN Reject
            ELSE IF padded THEN DecodePadding(w, ch, n, PadStop(w, 2)) ELSE DecodeFramesIn(w, ch, 2, n)
      BY DEF DecodeCode3
    <3> HIDE DEF refused, padded
    <3> QED
      BY <2>3, <3>1, Zenon
  <2> QED
    BY <2>1, <2>2, <2>4, <2>5, RejectLaid, Zenon
<1> QED
  BY <1>1, <1>2

(* Every packet: as many sizes as nb_frames counts.                        *)
LEMMA HeaderLaid ==
  ASSUME NEW w, WireOK(w), NEW n \in Nat, n = WireLen(w), n > 0
  PROVE  Laid(DecodeHeader(w, n), nb_frames(w))
<1>1. PICK code \in 0 .. 3 : code = Code(ByteAt(w, 0))
  BY CodeIs
<1>2. WireLen(w) # 0
  OBVIOUS
<1>3. CASE code = 0
  <2>1. nb_frames(w) = 1
    BY <1>1, <1>2, <1>3 DEF nb_frames
  <2>2. DecodeHeader(w, n) = EqualFrames(1, n, 1)
    BY <1>1, <1>3, HeaderByCode
  <2>3. 1 >= Lead(1)
    BY DEF Lead
  <2> QED
    BY <2>1, <2>2, <2>3, EqualLaid
<1>4. CASE code = 1
  <2>1. nb_frames(w) = 2
    BY <1>1, <1>2, <1>4 DEF nb_frames
  <2>2. DecodeHeader(w, n) = EqualFrames(1, n, 2)
    BY <1>1, <1>4, HeaderByCode
  <2>3. 1 >= Lead(2)
    BY DEF Lead
  <2> QED
    BY <2>1, <2>2, <2>3, EqualLaid
<1>5. CASE code = 2
  <2>1. nb_frames(w) = 2
    BY <1>1, <1>2, <1>5 DEF nb_frames
  <2>2. DecodeHeader(w, n) = WithRemainder(ReadLens(w, 1, n, 1), n)
    BY <1>1, <1>5, HeaderByCode
  <2>3. 1 >= Lead(2) /\ 2 - 1 = 1
    BY DEF Lead
  <2>4. ReadFrom(ReadLens(w, 1, n, 1), 1, 2 - 1)
    BY <2>3, ReadsAll
  <2> QED
    BY <2>1, <2>2, <2>3, <2>4, RemainderLaid
<1>6. CASE code = 3
  <2>1. PICK ch \in 0 .. 255 : ch = ByteAt(w, 1)
    BY BytesAre
  <2>2. PICK m \in Nat : m = ch % 64 /\ Counts(ch, m)
    BY DEF Counts
  <2>3. DecodeHeader(w, n) = DecodeCode3(w, n, ch)
    BY <1>1, <1>6, <2>1, HeaderByCode
  <2>4. Laid(DecodeCode3(w, n, ch), m) /\ (DecodeCode3(w, n, ch).ok => n >= 2 /\ m >= 1)
    BY <2>2, Code3Laid
  <2>5. nb_frames(w) = IF n < 2 THEN -1 ELSE m
    BY <1>1, <1>2, <1>6, <2>1, <2>2 DEF nb_frames
  <2>6. CASE DecodeHeader(w, n).ok
    <3>1. nb_frames(w) = m
      BY <2>3, <2>4, <2>5, <2>6
    <3> QED
      BY <2>3, <2>4, <3>1
  <2>7. CASE ~DecodeHeader(w, n).ok
    BY <2>7, Zenon DEF Laid
  <2> QED
    BY <2>6, <2>7
<1> QED
  BY <1>1, <1>3, <1>4, <1>5, <1>6

(* What a parser cuts out is a frame a repacketizer can hold.              *)
LEMMA ContentHeld ==
  ASSUME NEW w, WireOK(w), NEW off, NEW len \in 0 .. MaxFrameBytes
  PROVE  LET f == ContentAt(w, off, len) IN FrameOK(f) /\ f.len = len /\ (len = 0 => f.id = Junk)
<1> DEFINE hits == {i \in DOMAIN w.body : w.body[i].len = len /\ BodyOffset(w, i) = off}
           f == ContentAt(w, off, len)
<1>1. f = IF len # 0 /\ hits # {} THEN w.body[CHOOSE i \in hits : TRUE]
          ELSE [id |-> Junk, len |-> len]
  BY DEF ContentAt
<1>2. len \in Nat
  BY DEF MaxFrameBytes
<1>3. CASE len # 0 /\ hits # {}
  <2>1. PICK i \in DOMAIN w.body : w.body[i].len = len /\ f = w.body[i]
    <3>1. PICK i : i = CHOOSE j \in hits : TRUE
      OBVIOUS
    <3>2. i \in hits
      BY <1>3, <3>1
    <3>3. f = w.body[i]
      BY <1>1, <1>3, <3>1
    <3> QED
      BY <3>2, <3>3
  <2>2. FrameOK(w.body[i])
    <3>1. w.body \in Seq(Elements(w.body)) /\ \A j \in 1 .. Len(w.body) : FrameOK(w.body[j])
      BY FramesLog DEF WireOK, Log
    <3>2. DOMAIN w.body = 1 .. Len(w.body)
      BY <3>1
    <3> QED
      BY <3>1, <3>2
  <2> HIDE DEF f
  <2>3. FrameOK(f) /\ f.len = len
    BY <2>1, <2>2
  <2> QED
    BY <1>3, <2>3 DEF f
<1>4. CASE ~(len # 0 /\ hits # {})
  <2>1. f = [id |-> Junk, len |-> len]
    BY <1>1, <1>4
  <2> HIDE DEF f
  <2>2. f.id = Junk /\ f.len = len
    BY <2>1
  <2>3. FrameOK(f)
    BY <1>2, <2>1, <2>2 DEF FrameOK
  <2> QED
    BY <2>2, <2>3 DEF f
<1> QED
  BY <1>3, <1>4

(* The frames cut out at these sizes.                                      *)
Sized(fs, sizes, n) ==
  /\ HeldFrames(fs) /\ Len(fs) = n /\ Lens(fs) = sizes /\ FieldLens(fs) = SizeLens(sizes)
  /\ IsVbr(fs) <=> Uneven(sizes)

(* The contents of ranges are as long as the ranges.                       *)
LEMMA SizedIs ==
  ASSUME NEW w, WireOK(w), NEW pos, NEW n \in Nat,
         NEW sizes \in Seq(0 .. MaxFrameBytes), Len(sizes) = n,
         NEW parsed, parsed.ranges = RangesFrom(pos, sizes)
  PROVE  Sized(Contents(w, parsed), sizes, n)
<1> DEFINE off(i) == pos + SumTo(sizes, i - 1)
           frame(i) == ContentAt(w, off(i), sizes[i])
<1>1. DOMAIN sizes = 1 .. n /\ sizes = [i \in 1 .. n |-> sizes[i]]
  OBVIOUS
<1>2. \A i \in 1 .. n : sizes[i] \in 0 .. MaxFrameBytes
  <2> HIDE DEF MaxFrameBytes
  <2> QED
    BY ElementIs
<1>3. /\ DOMAIN parsed.ranges = 1 .. n
      /\ \A i \in 1 .. n : parsed.ranges[i] = [off |-> off(i), len |-> sizes[i]]
  BY <1>1 DEF RangesFrom
<1>4. \A i \in 1 .. n : parsed.ranges[i].off = off(i) /\ parsed.ranges[i].len = sizes[i]
  <2> TAKE i \in 1 .. n
  <2>1. PICK r : r = parsed.ranges[i]
    OBVIOUS
  <2>2. r = [off |-> off(i), len |-> sizes[i]]
    BY <1>3, <2>1
  <2> HIDE DEF off
  <2> QED
    BY <2>1, <2>2
<1> HIDE DEF off
<1>5. PICK fs : fs = Contents(w, parsed)
  OBVIOUS
<1>6. fs = [i \in 1 .. n |-> ContentAt(w, parsed.ranges[i].off, parsed.ranges[i].len)]
  BY <1>3, <1>5 DEF Contents
<1>7. \A i \in 1 .. n : fs[i] = frame(i)
  BY <1>4, <1>6
<1>8. \A i \in 1 .. n : FrameOK(frame(i)) /\ frame(i).len = sizes[i] /\ (sizes[i] = 0 => frame(i).id = Junk)
  BY <1>2, ContentHeld
<1> HIDE DEF frame
<1>9. DOMAIN fs = 1 .. n
  BY <1>6
<1>10. Log(fs) /\ Len(fs) = n
  <2>1. fs = [i \in 1 .. n |-> fs[i]]
    BY <1>6, <1>9
  <2>2. \A i \in 1 .. n : fs[i] \in Elements(fs)
    BY <1>9 DEF Elements
  <2>3. fs \in Seq(Elements(fs)) /\ Len(fs) = n
    BY <2>1, <2>2
  <2> QED
    BY <2>3 DEF Log
<1>11. \A i \in 1 .. n : FrameOK(fs[i]) /\ fs[i].len = sizes[i] /\ (fs[i].len = 0 => fs[i].id = Junk)
  BY <1>7, <1>8
<1>12. HeldFrames(fs)
  BY <1>2, <1>10, <1>11, FramesLog DEF HeldFrames
<1>13. Lens(fs) = sizes
  <2>1. Lens(fs) = [i \in 1 .. n |-> sizes[i]]
    BY <1>9, <1>11 DEF Lens
  <2> QED
    BY <1>1, <2>1
<1>14. FieldLens(fs) = SizeLens(sizes)
  BY <1>1, <1>9, <1>11 DEF FieldLens, SizeLens
<1>15. IsVbr(fs) <=> Uneven(sizes)
  <2>1. CASE n = 0
    BY <1>1, <1>9, <2>1 DEF IsVbr, Uneven
  <2>2. CASE n # 0
    <3>1. fs[1].len = sizes[1]
      BY <1>11, <2>2
    <3> QED
      BY <1>1, <1>9, <1>11, <3>1 DEF IsVbr, Uneven
  <2> QED
    BY <2>1, <2>2
<1> QED
  BY <1>5, <1>10, <1>12, <1>13, <1>14, <1>15, Zenon DEF Sized

(* What parse_frames accepts: as many frames as the header says, and room  *)
(* for the shortest packet that carries them.                              *)
Kept(w, fs) ==
  /\ HeldFrames(fs) /\ Len(fs) >= 1 /\ Len(fs) = nb_frames(w)
  /\ Shortest(fs) \in Nat /\ Shortest(fs) <= WireLen(w)
  /\ Code3Size(fs) <= WireLen(w) + 1

(* The frames of a packet that parses can be written in its length.        *)
LEMMA KeptIs ==
  ASSUME NEW w, WireOK(w), WireLen(w) > 0, parse_frames(w, FALSE).ok
  PROVE  Kept(w, Contents(w, parse_frames(w, FALSE))) /\ parse_frames(w, FALSE).toc = ByteAt(w, 0)
<1>1. PICK c : c = LastSize(w, ParseSizes(w, Cursor(w), FALSE), FALSE)
  OBVIOUS
<1>2. PICK h : h = DecodeHeader(w, WireLen(w))
  OBVIOUS
<1>3. PICK p : p = parse_frames(w, FALSE) /\ p = Cut(w, c) /\ p.ok
  BY <1>1 DEF parse_frames
<1>4. Agree(w, c, h)
  BY <1>1, <1>2, CutAlike
<1>5. PICK end : end = c.pos + SumTo(c.sizes, Len(c.sizes))
  OBVIOUS
<1>6. p = CutFrames(w, c, end)
  BY <1>3, <1>5 DEF Cut
<1>7. NoFrames.ok = FALSE
  BY DEF NoFrames
<1>8. p # NoFrames
  BY <1>3, <1>7
<1>9. c.ok /\ p = [ok |-> TRUE, toc |-> ByteAt(w, 0), ranges |-> RangesFrom(c.pos, c.sizes), end |-> end]
  BY <1>6, <1>8 DEF CutFrames
<1>10. p.toc = ByteAt(w, 0) /\ p.ranges = RangesFrom(c.pos, c.sizes)
  BY <1>9
<1>11. h.ok /\ c.pos = h.pos /\ c.sizes = h.sizes /\ Accepted(w, c)
  BY <1>4, <1>9 DEF Agree
<1>12. PICK wl \in Nat : wl = WireLen(w) /\ wl > 0
  BY BytesAre
<1>13. Laid(h, nb_frames(w))
  BY <1>2, <1>12, HeaderLaid
<1>14. /\ c.pos \in Nat /\ c.sizes \in Seq(0 .. MaxFrameBytes) /\ Len(c.sizes) \in 1 .. MAX_FRAMES
       /\ SumTo(c.sizes, Len(c.sizes)) \in Nat /\ c.pos + SumTo(c.sizes, Len(c.sizes)) <= WireLen(w)
  BY <1>11 DEF Accepted
<1>15. PICK n \in 1 .. MAX_FRAMES : n = Len(c.sizes)
  BY <1>14
<1>16. n \in Nat /\ n >= 1
  <2>1. \A x \in 1 .. MAX_FRAMES : x \in Nat /\ x >= 1
    BY DEF MAX_FRAMES
  <2> QED
    BY <2>1
<1>17. PICK pos \in Nat, sum \in Nat : pos = c.pos /\ sum = SumTo(c.sizes, n) /\ pos + sum <= wl
  BY <1>12, <1>14, <1>15
<1>18. n = nb_frames(w) /\ FieldsNeeded(c.sizes, n) \in Nat /\ c.pos >= Lead(n) + FieldsNeeded(c.sizes, n)
  BY <1>11, <1>13, <1>15, Zenon DEF Laid
<1>19. PICK need \in Nat : need = FieldsNeeded(c.sizes, n)
  BY <1>18
<1>20. PICK fs : fs = Contents(w, p)
  OBVIOUS
<1>21. Sized(fs, c.sizes, n)
  BY <1>10, <1>14, <1>15, <1>16, <1>20, SizedIs
<1>22. HeldFrames(fs) /\ Len(fs) = n /\ Lens(fs) = c.sizes /\ FieldLens(fs) = SizeLens(c.sizes)
  BY <1>21 DEF Sized
<1>23. SumLens(fs) = sum
  BY <1>17, <1>22 DEF SumLens
<1>24. FieldsLen(fs) = need
  <2>1. IsVbr(fs) <=> Uneven(c.sizes)
    BY <1>21 DEF Sized
  <2> QED
    BY <1>19, <1>22, <2>1, Zenon DEF FieldsLen, FieldsNeeded
<1>25. Code3Size(fs) = 2 + sum + need
  BY <1>16, <1>22, <1>23, <1>24, FieldsOfAre
<1>26. pos >= Lead(n) + need
  BY <1>17, <1>18, <1>19, Zenon
<1>27. PICK size \in Nat : size = Code3Size(fs) /\ size = 2 + sum + need
  BY <1>25
<1>28. CASE n > 2
  <2>1. Lead(n) = 2 /\ Shortest(fs) = size
    BY <1>22, <1>27, <1>28 DEF Lead, Shortest
  <2>2. size <= wl /\ size <= wl + 1
    BY <1>17, <1>26, <1>27, <2>1
  <2> QED
    BY <1>3, <1>10, <1>12, <1>16, <1>18, <1>20, <1>22, <1>27, <2>1, <2>2, Zenon DEF Kept
<1>29. CASE ~(n > 2)
  <2>1. Lead(n) = 1 /\ Shortest(fs) = size - 1
    BY <1>22, <1>27, <1>29 DEF Lead, Shortest
  <2>2. size - 1 \in Nat /\ size - 1 <= wl /\ size <= wl + 1
    BY <1>17, <1>26, <1>27, <2>1
  <2> QED
    BY <1>3, <1>10, <1>12, <1>16, <1>18, <1>20, <1>22, <1>27, <2>1, <2>2, Zenon DEF Kept
<1> QED
  BY <1>28, <1>29
================================================================================

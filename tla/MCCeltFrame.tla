----------------------------- MODULE MCCeltFrame -----------------------------
(* Instance of CeltFrame: clips of sounds that differ in loudness, length,  *)
(* size, bands and tools, some on a link that loses frames.                 *)
EXTENDS CeltFrame

Level(top, slope, dent) ==
    SubSeq([j \in 1..NbBands |-> ONE * top - slope * j + (IF j % 4 = dent THEN 700 ELSE -300)], 1, NbBands)
Levels(top, slope, dent) == <<Level(top, slope, dent), Level(top - 1, slope, 3 - dent)>>

Pattern(k) == SubSeq([j \in 1..NbBands |-> (j \div k) % 2], 1, NbBands)
Wishes(which, n) == SubSeq([j \in 1..NbBands |-> IF j % 7 = which THEN n ELSE 0], 1, NbBands)

Loud ==
    [lm |-> 3, start |-> 0, end |-> 21, bytes |-> 120, vbr |-> 0, tell0 |-> 8, silent |-> FALSE,
     pitch |-> NoPitch, transient |-> FALSE, levels |-> Levels(9, 400, 1), tf |-> Pattern(3), tf_select |-> 1,
     spread |-> 2, boosts |-> Wishes(8, 0), trim |-> 6, asks |-> 0, spare |-> 9]
Soft == [Loud EXCEPT !.levels = Levels(2, 250, 2), !.spread = 3, !.trim = 4, !.boosts = Wishes(3, 2)]
Hit == [Loud EXCEPT !.transient = TRUE, !.tf = Pattern(2), !.levels = Levels(11, 300, 0), !.boosts = Wishes(5, 9)]
Still == [Loud EXCEPT !.silent = TRUE, !.levels = Levels(-14, 0, 1)]
Hum == [Loud EXCEPT !.pitch = [t |-> 100, g |-> 3, tapset |-> 1]]
Breath == [Still EXCEPT !.pitch = Hum.pitch]
Sung == [Soft EXCEPT !.pitch = [t |-> 1022, g |-> 8, tapset |-> 2]]
Short(f) == [f EXCEPT !.lm = 0, !.bytes = 40]
Mid(f) == [f EXCEPT !.lm = 1, !.bytes = 60, !.end = 19]
Tiny(f, bytes) == [f EXCEPT !.bytes = bytes]
Vbr(f, rate, asks) == [f EXCEPT !.vbr = rate, !.bytes = 300, !.asks = asks]
Over(f, silk) == [f EXCEPT !.start = 17, !.tell0 = silk, !.end = 19, !.bytes = IF @ < 15 THEN 15 ELSE @]

(* Short frames of variable rate whose buffer is longer than the cap: steep *)
(* spectra, and boosts at the limit of what is assumed of them.             *)
Jagged == [j \in 1..NbBands |-> IF j % 2 = 0 THEN 15 * ONE ELSE -9 * ONE]
Eager(lm, channels, tenths) ==
    [j \in 1..NbBands |-> (tenths * dynalloc_most(BandWidth([channels |-> channels, lm |-> lm], j - 1))) \div 10]
Ample(f, lm, boosts, rate, asks) ==
    [f EXCEPT !.lm = lm, !.bytes = 1275, !.vbr = rate, !.asks = asks, !.boosts = SubSeq(boosts, 1, NbBands)]
Steep(f) == [f EXCEPT !.levels = <<SubSeq(Jagged, 1, NbBands), SubSeq([j \in 1..NbBands |-> -Jagged[j]], 1, NbBands)>>]
Amples(channels) ==
    {Ample(Loud, 0, Wishes(8, 0), 10200, 0), Ample(Steep(Hit), 0, Wishes(8, 0), 700, 0),
     Ample(Steep(Hit), 1, Eager(1, channels, IF channels = 2 THEN 9 ELSE 10), 20400, 9000),
     Ample(Steep(Sung), 1, Eager(1, channels, 8), 900, -600),
     Ample(Steep(Hit), 2, Eager(2, channels, 10), 2400, 0), Ample(Still, 1, Wishes(8, 0), 900, 0)}

(* Next to nothing, and three bytes whose last bit is left to the second    *)
(* channel's first band.                                                    *)
Faint == [Loud EXCEPT !.levels = Levels(-28, 0, 1)]
Thin == [Tiny(Hit, 3) EXCEPT !.levels = <<Level(-25, 0, 1), Level(-24, 0, 1)>>]

Clip(channels, out, quality, losses, sounds) ==
    [channels |-> channels, out |-> out, quality |-> quality, losses |-> losses, sounds |-> sounds]

Tools == {Loud, Soft, Hit, Hum, Short(Sung), Mid(Hum), Short(Loud), Tiny(Sung, 6), Tiny(Hit, 3), Still}
Rates == {Vbr(Loud, 1500, 0), Vbr(Soft, 900, -300), Vbr(Hit, 2400, 900), Vbr(Still, 900, 0), Short(Vbr(Sung, 500, 0)),
          Vbr(Tiny(Hit, 300), 300, -500)}
MCClips ==
    {Clip(1, 1, 8, FALSE, <<a, b, c>>) : a \in Tools, b \in Tools, c \in Tools}
    \cup {Clip(1, 1, 8, FALSE, <<a, b, Hum, a>>) : a \in {Loud, Hum, Short(Sung)}, b \in {Breath, Short(Breath)}}
    \cup {Clip(2, 2, 2, FALSE, <<a, b>>) : a \in Tools, b \in Tools}
    \cup {Clip(2, 2, 8, FALSE, <<a, b>>) : a \in Rates, b \in Rates}
    \cup {Clip(1, 1, 3, FALSE, <<Over(a, s), Over(b, 8 * 50)>>) : a \in Rates \cup Tools, b \in Rates, s \in {8 * 20, 8 * 90}}
    \cup {Clip(channels, 2, 8, FALSE, <<a, b>>) : channels \in 1..2, a \in Amples(1), b \in Amples(1)}
    \cup {Clip(2, 2, 8, FALSE, <<a, b, a>>) : a \in Amples(2), b \in Amples(2)}
    \cup {Clip(2, 2, 2, FALSE, <<Faint, Faint, Thin, a>>) : a \in {Faint, Soft}}
    \cup {Clip(1, 2, 8, TRUE, <<a, b, c, b, a>>) : a \in {Loud, Hum}, b \in {Short(Sung), Soft}, c \in {Hit, Loud}}
=============================================================================

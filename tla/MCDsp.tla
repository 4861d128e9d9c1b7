------------------------------- MODULE MCDsp -------------------------------
(***************************************************************************)
(* The numeric components, and the analysis, side by side: a behaviour takes one job of one   *)
(* of them to its end while the variables of the others stay as they are.  *)
(***************************************************************************)
EXTENDS Transform, StripLoops, LinearPrediction, PulseCoding, BandAllocation, Filters, AnalysisRing

(* Units of every FFT size; blocks of a transient frame, hit inside, outside *)
(* and between their overlaps; whole frames of 20 and 10 ms.                *)
Unit1(kind, shift, blocks, isa, pos) ==
    [kind |-> kind, shift |-> shift, blocks |-> blocks, isa |-> isa, pos |-> pos]
MCTransforms ==
    {Unit1(k, s, 1, i, p) : k \in {"fft", "ifft"}, s \in 0..3, i \in {"scalar", "neon"}, p \in {1, 33}}
    \cup {Unit1("mdct", 3, 8, i, p) : i \in {"scalar", "neon", "avx"},
                                      p \in {0, 61, 119, 177, 239, 302, 700, 1079}}
    \cup {Unit1("mdct", s, 1, "neon", p) : s \in {0, 1}, p \in {59, 130}}

Call(proc, isa, len, lags, ylen) ==
    [proc |-> proc, isa |-> isa, len |-> len, lags |-> lags, ylen |-> ylen]
MCCalls ==
    {Call(p, i, k, 1, k) : p \in {"inner", "dual", "energy", "aligned", "warped", "sum_sqr"},
                           i \in {"scalar", "neon", "sse", "avx"}, k \in {1, 7, 16, 31, 47, 61}}
    \cup {Call("pitch_xcorr", i, k, 6, k + 5) : i \in {"scalar", "neon", "sse", "avx"}, k \in 1..17}
    \cup {Call("pitch_xcorr", "neon", k, 33, k + 32) : k \in 1..14}
    \cup {Call("silk_pitch_xcorr", i, k, 5, k + 4 + e) : i \in {"scalar", "neon", "avx"},
                                                        k \in 4..11, e \in {-3, 0, 5}}
    \cup {Call("silk_autocorr", i, k, 6, k + e) : i \in {"scalar", "neon", "avx"},
                                                 k \in 12..20, e \in {0, 4}}
    \cup {Call("autocorr", i, 40, 5, 40) : i \in {"scalar", "neon", "sse", "avx"}}
    \cup {Call("autocorr_c_order", "scalar", 40, 25, 40)}

Fit(alg, order, len, blocks, seed) ==
    [alg |-> alg, order |-> order, len |-> len, blocks |-> blocks, seed |-> seed]
MCFilters ==
    {Fit(a, o, 14, 1, s) : a \in {"levinson", "schur"}, o \in {5, 8}, s \in {1, 2}}
    \cup {Fit(a, 6, 12, b, 1) : a \in {"burg", "burg_fix"}, b \in {1, 2}}
    \cup {Fit("warped", 4, 7, 1, 1), Fit("matrix", 5, 9, 1, 1),
          Fit("lines", 10, 12, 1, 3), Fit("lines", 16, 12, 1, 4)}

Piece(v, k, isa, stride, spread, extra) ==
    [x |-> v, k |-> k, isa |-> isa, stride |-> stride, spread |-> spread, extra |-> extra]
Shape(len, seed) == SubSeq([q \in 1..len |-> ((seed * q * (q + 3)) % 11) - (q % 5) - 2], 1, len)
Values == {-3, 0, 1, 2}
Pulses == {2, 3, 5, 17}
MCBands ==
    {Piece(<<a, b>>, k, "scalar", 1, 2, 0) : a \in Values, b \in Values, k \in {1, 2, 5}}
    \cup {Piece(<<a, b, c>>, k, isa, 1, 2, 0) : a \in Values, b \in Values, c \in Values,
                                               k \in {1, 2, 4, 7}, isa \in {"scalar", "avx2"}}
    \cup {Piece(<<a, b, c, d>>, k, isa, 1, 2, 0) : a \in Values, b \in {0, 1}, c \in {-3, 2}, d \in Values,
                                                  k \in {2, 6}, isa \in {"scalar", "avx2"}}
    \cup {Piece(Shape(len, s), k, isa, st, sp, 0) : len \in {8, 16, 24, 30}, s \in {1, 3}, k \in Pulses,
                                   isa \in {"scalar", "avx2", "neon"}, st \in {1, 2}, sp \in {1, 3}}
    \cup {Piece(Shape(len, s), k, "neon", st, 2, 0) : len \in {32, 48, 96}, s \in {1, 2},
                                                     k \in {3, 20}, st \in {1, 2, 8}}
    \cup {Piece(<<a, b, c>>, k, "scalar", 1, 2, e) : a \in Values, b \in Values, c \in {0, 5},
                                                    k \in {1, 3, 6}, e \in {2, 4}}
MCBooks == {[n |-> i, k |-> k] : i \in 1..4, k \in 1..5}
           \cup {[n |-> 3, k |-> 9], [n |-> 7, k |-> 3], [n |-> 10, k |-> 2]}

Frame(start, end, c, lm, total, trim, boosts, intensity, dual, prev, bandwidth) ==
    [start |-> start, end |-> end, c |-> c, lm |-> lm, total |-> total, trim |-> trim, boosts |-> boosts,
     intensity |-> intensity, dual |-> dual, prev |-> prev, bandwidth |-> bandwidth]
Boosts == {<<>>, [j \in 3..3 |-> 48], [j \in 9..18 |-> 24]}
MCFrames ==
    {Frame(0, e, c, lm, t, trim, b, 8, 1, 12, bw) :
        e \in {13, 21}, c \in {1, 2}, lm \in {0, 3}, t \in {0, 7, 40, 300, 1500, 6000},
        trim \in {2, 5, 10}, b \in Boosts, bw \in {9, 21}}
    \cup {Frame(17, 21, c, 3, t, 5, <<>>, i, d, 19, 20) :
        c \in {1, 2}, t \in {3, 9, 35, 200, 1800}, i \in {17, 18, 21}, d \in {0, 1}}

Pass(proc, isa, size) == [kind |-> "pass", proc |-> proc, isa |-> isa, size |-> size]
Bandwise(proc, isa, lm, channels, start, end) ==
    [kind |-> "bands", proc |-> proc, isa |-> isa, lm |-> lm, channels |-> channels, start |-> start, end |-> end]
MCSweeps ==
    {Pass(p, i, k) : p \in {"fast_select_init", "scalar_init", "pvq_renormalise", "resynth", "itheta",
                            "l1", "renormalise"},
                     i \in {"scalar", "neon", "avx"}, k \in {1, 4, 7, 8, 15, 16, 22, 48}}
    \cup {Pass(p, i, k) : p \in {"pre", "post", "back_pre", "back_post", "tdac"},
                          i \in {"scalar", "neon", "avx"}, k \in {30, 60, 61}}
    \cup {[kind |-> "fft", proc |-> "butterflies", isa |-> i, radix |-> r, m |-> l, size |-> 30 * l] :
              i \in {"scalar", "neon", "avx"}, r \in {2, 3, 4, 5}, l \in {1, 4, 5}}
    \cup {Bandwise(p, i, lm, c, s, e) : p \in {"energies", "normalise", "denormalise"},
              i \in {"scalar", "neon", "avx"}, lm \in {0, 1}, c \in {1, 2}, s \in {0, 17}, e \in {19}}

Setting(t, g, tapset) == [t |-> t, g |-> g, tapset |-> tapset]
Comb(a, b, n, old, new) ==
    [kind |-> "comb", ahead |-> a, back |-> b, n |-> n, channels |-> 1, history |-> 26,
     overlap |-> 8, old |-> old, new |-> new, order |-> 0]
Through(kind, a, b, order, n) ==
    [kind |-> kind, ahead |-> a, back |-> b, order |-> order, n |-> n, channels |-> 1]
OneWay(kind, a, order, n, channels, warp) ==
    [kind |-> kind, ahead |-> a, order |-> order, n |-> n, channels |-> channels, warp |-> warp]
MCJobs ==
    {Comb(a, b, n, o, w) : a \in {"scalar", "neon", "sse", "avx"}, b \in {"scalar", "avx2"}, n \in {7, 37, 43},
        o \in {Setting(15, 0, 0), Setting(17, 3, 1)},
        w \in {Setting(15, 0, 0), Setting(17, 3, 1), Setting(16, 5, 0), Setting(21, 2, 2), Setting(40, 2, 0)}}
    \cup {Through("lpc", "plain", b, d, n) : b \in {"plain", "neon"}, d \in {3, 4, 7, 24}, n \in {9}}
    \cup {Through("lpc", "c_order", b, d, n) : b \in {"plain", "neon", "c_order"}, d \in {4, 24}, n \in {12}}
    \cup {Through("predict", a, b, d, 26) : a \in {"scalar", "neon", "avx2", "flp"}, b \in {"scalar", "neon", "avx2"},
                                         d \in {6, 10, 16}}
    \cup {OneWay("shape", "pairs", d, 30, 1, 0) : d \in {12, 14, 16, 24}}
    \cup {OneWay("shape", "soa", d, 6, 1, w) : d \in {12, 16}, w \in {0, 7}}
    \cup {OneWay("fir5", "scalar", 5, 12, 1, 0), OneWay("biquad", "scalar", 2, 7, 1, 0), OneWay("biquad", "scalar", 4, 7, 2, 0)}
    \cup {OneWay("downsample", a, 0, n, 1, 0) : a \in {"scalar", "neon"}, n \in {8, 16, 26, 29}}

(* Sounds with pauses, after each other and after bad input; every length of *)
(* frame.                                                                   *)
SteadySound == [i \in 0..6 |-> "sound"]
MCSounds == {SteadySound, [SteadySound EXCEPT ![0] = "silent", ![2] = "silent", ![3] = "silent"],
             [SteadySound EXCEPT ![1] = "nan", ![2] = "silent", ![5] = "nan"]}
MCDurations == {1, 2, 4, 8, 16, 24, 32, 40, 48}

-----------------------------------------------------------------------------
Idle == [kind |-> "none", proc |-> "none", alg |-> "none", lags |-> 1]
TransformIdle == unit = Idle /\ tphase = "idle" /\ block = 0 /\ stages = 0 /\ buf = <<>> /\ coefs = <<>> /\ out = <<>>
KernelsIdle == call = Idle /\ lag = 0 /\ group = 0 /\ loops = <<>> /\ at = 0 /\ left = 0 /\ held = <<>>
               /\ terms = <<>> /\ reads = {}
PredictionIdle == fit = Idle /\ xs = <<>> /\ step = 0 /\ mem = <<>> /\ gave_up = FALSE
PulseIdle == piece = Idle /\ stage = "idle" /\ y = <<>> /\ to_place = 0 /\ yy = 0 /\ xy = 0 /\ fl = 0
AllocationIdle == frame = Idle /\ side = "none" /\ phase = "idle" /\ bits = <<>> /\ psum = 0 /\ coded = 0
                  /\ irsv = 0 /\ budget = 0 /\ sent = <<>> /\ read = 0 /\ result = <<>>

LoopsIdle == sweep = Idle /\ slices = <<>> /\ passes = <<<<>>>> /\ swept = 0 /\ touched = <<>>
FiltersIdle == job = Idle /\ towards = "idle" /\ given = <<>> /\ passed = <<>> /\ heard = <<>> /\ spot = 0 /\ regs = <<>>
RingIdle == sounds = <<>> /\ initialized = FALSE /\ mem_fill = 0 /\ write_pos = 0 /\ read_pos = 0
            /\ read_subframe = 0 /\ info = <<>> /\ in_hand = 0 /\ pcm_len = 0 /\ sub_frames = 0
            /\ elapsed = 0 /\ reading = NoReading

Init ==
    \/ TransformInit /\ KernelsIdle /\ PredictionIdle /\ PulseIdle /\ AllocationIdle /\ LoopsIdle /\ FiltersIdle /\ RingIdle
    \/ KernelsInit /\ TransformIdle /\ PredictionIdle /\ PulseIdle /\ AllocationIdle /\ LoopsIdle /\ FiltersIdle /\ RingIdle
    \/ PredictionInit /\ TransformIdle /\ KernelsIdle /\ PulseIdle /\ AllocationIdle /\ LoopsIdle /\ FiltersIdle /\ RingIdle
    \/ PulseInit /\ TransformIdle /\ KernelsIdle /\ PredictionIdle /\ AllocationIdle /\ LoopsIdle /\ FiltersIdle /\ RingIdle
    \/ AllocationInit /\ TransformIdle /\ KernelsIdle /\ PredictionIdle /\ PulseIdle /\ LoopsIdle /\ FiltersIdle /\ RingIdle
    \/ StripLoopsInit /\ TransformIdle /\ KernelsIdle /\ PredictionIdle /\ PulseIdle /\ AllocationIdle /\ FiltersIdle /\ RingIdle
    \/ FiltersInit /\ TransformIdle /\ KernelsIdle /\ PredictionIdle /\ PulseIdle /\ AllocationIdle /\ LoopsIdle /\ RingIdle
    \/ RingInit /\ TransformIdle /\ KernelsIdle /\ PredictionIdle /\ PulseIdle /\ AllocationIdle /\ LoopsIdle
       /\ FiltersIdle

Next ==
    \/ tphase # "idle" /\ TransformNext /\ UNCHANGED <<kvars, pvars, uvars, avars, svars, fvars, ring_vars>>
    \/ call # Idle /\ KernelsNext /\ UNCHANGED <<tvars, pvars, uvars, avars, svars, fvars, ring_vars>>
    \/ fit # Idle /\ PredictionNext /\ UNCHANGED <<tvars, kvars, uvars, avars, svars, fvars, ring_vars>>
    \/ stage # "idle" /\ PulseNext /\ UNCHANGED <<tvars, kvars, pvars, avars, svars, fvars, ring_vars>>
    \/ phase # "idle" /\ AllocationNext /\ UNCHANGED <<tvars, kvars, pvars, uvars, svars, fvars, ring_vars>>
    \/ sweep # Idle /\ StripLoopsNext /\ UNCHANGED <<tvars, kvars, pvars, uvars, avars, fvars, ring_vars>>
    \/ job # Idle /\ FiltersNext /\ UNCHANGED <<tvars, kvars, pvars, uvars, avars, svars, ring_vars>>
    \/ sounds # <<>> /\ RingNext /\ UNCHANGED <<tvars, kvars, pvars, uvars, avars, svars, fvars>>

Spec == Init /\ [][Next]_<<tvars, kvars, pvars, uvars, avars, svars, fvars, ring_vars>>
=============================================================================

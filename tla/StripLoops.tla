------------------------------ MODULE StripLoops ------------------------------
(***************************************************************************)
(* The loops over the samples of a band - energies, norms, scalings, signs *)
(* - and over the butterflies and rotations of a transform.  Each goes     *)
(* over its samples once or twice, the second time with what the first     *)
(* found, and each is written again for NEON and AVX in strips.  Those in  *)
(* place must not go over a sample twice; others write arrays that were    *)
(* never initialised, so a sample that no strip reaches would be read as   *)
(* whatever the stack held.                                                *)
(***************************************************************************)
EXTENDS Kernels, CeltMode

CONSTANT Sweeps   \* calls: see Slices for what their fields mean

(* pvq.rs: pulse search set-up, normalisation, resynthesis.                 *)
pvq_fast_select_init_neon == <<While(16), While(8), While(4), While(1)>>
pvq_search_scalar_init_neon == <<While(16), While(8), While(4), While(1)>>
pvq_search_scalar_init_avx2 == <<While(8), While(1)>>
pvq_renormalise_vector_neon == <<While(16), While(8), While(4), While(1)>>
pvq_renormalise_vector_avx2 == <<While(16), While(8), While(1)>>
alg_quant_resynth_neon == <<While(8), While(1)>>
alg_quant_resynth_avx2 == <<While(8), While(1)>>

(* bands.rs: stereo angle, energies, scaling, normalisation.                *)
stereo_itheta_neon == <<While(16), While(8), While(4), While(1)>>
compute_band_energy_neon == <<While(16), While(4), While(1)>>
compute_band_energy_avx2 == <<While(16), Once(8), While(1)>>
scale_slice_neon == <<While(16), While(8), While(4), While(1)>>
scale_slice_avx2 == <<While(16), While(8), While(1)>>
renormalise_vector_neon == <<While(16), While(8), While(4), While(1)>>
renormalise_vector_avx2_energy == <<While(16), Once(8), While(1)>>
renormalise_vector_avx2_scale == <<While(16), While(8), While(1)>>

(* celt.rs: the metric of the time-frequency analysis.                      *)
l1_metric_neon == <<While(16), While(4), While(1)>>
sum_abs_avx == <<While(16), While(8), While(1)>>

(* kiss_fft.rs: butterflies of a group, or groups of single butterflies.     *)
kf_bfly2_m1_neon == <<While(4), While(2), While(1)>>
kf_bfly4_m1_neon == <<While(2), Once(1)>>
kf_bfly4_neon_inner == <<While(1)>>
kf_bfly3_neon_inner == <<While(2), While(1)>>
kf_bfly5_neon_inner == <<While(2), While(1)>>
kf_bfly4_m1_avx == <<While(1)>>
kf_bfly4_avx_inner == <<While(1)>>
kf_bfly3_avx_inner == <<While(1)>>
kf_bfly5_avx_inner == <<While(1)>>

(* mdct.rs: rotations of n4 pairs, of half as many from both ends, and the   *)
(* overlap.                                                                  *)
rotation_neon == <<While(4), While(1)>>
mdct_backward_post_rotation_neon == <<While(2), Once(1)>>
mdct_pre_rotation_avx == <<While(1)>>
mdct_post_rotation_avx == <<While(1)>>
mdct_backward_pre_rotation_avx == <<While(1)>>
mdct_backward_post_rotation_avx == <<While(1)>>
mdct_tdac_avx == <<While(8), While(1)>>

Plain == <<While(1)>>
Twice(s) == <<s, s>>

(* The dispatch of each: what the passes over k samples are made of.        *)
fast_select_init(isa) == IF isa = "neon" THEN <<pvq_fast_select_init_neon>> ELSE <<Plain>>
scalar_init(isa) == CASE isa = "neon" -> <<pvq_search_scalar_init_neon>>
                      [] isa = "avx" -> <<pvq_search_scalar_init_avx2>> [] OTHER -> <<Plain>>
pvq_renormalise_vector(isa, k) ==
    CASE isa = "neon" -> Twice(pvq_renormalise_vector_neon)
      [] isa = "avx" /\ k >= 8 -> Twice(pvq_renormalise_vector_avx2) [] OTHER -> Twice(Plain)
alg_quant_resynth(isa) ==
    CASE isa = "neon" -> Twice(alg_quant_resynth_neon)
      [] isa = "avx" -> Twice(alg_quant_resynth_avx2) [] OTHER -> Twice(Plain)
stereo_itheta(isa) == IF isa = "neon" THEN <<stereo_itheta_neon>> ELSE <<Plain>>
l1_metric(isa, k) ==
    CASE isa = "neon" /\ k >= 16 -> <<l1_metric_neon>>
      [] isa = "avx" /\ k >= 16 -> <<sum_abs_avx>> [] OTHER -> <<Plain>>
renormalise_vector(isa, k) ==
    CASE isa = "neon" -> Twice(renormalise_vector_neon)
      [] isa = "avx" /\ k >= 16 -> <<renormalise_vector_avx2_energy, renormalise_vector_avx2_scale>>
      [] OTHER -> Twice(Plain)
compute_band_energies(isa, k) ==
    CASE isa = "neon" -> <<compute_band_energy_neon>>
      [] isa = "avx" /\ k >= 8 -> <<compute_band_energy_avx2>> [] OTHER -> <<Plain>>
scaled_slice(isa, k) ==
    CASE isa = "neon" /\ k >= 8 -> <<scale_slice_neon>>
      [] isa = "avx" /\ k >= 8 -> <<scale_slice_avx2>> [] OTHER -> <<Plain>>

butterflies(isa, radix, m) ==
    CASE isa = "neon" -> (CASE radix = 2 /\ m = 1 -> <<kf_bfly2_m1_neon>>
                            [] radix = 4 /\ m = 1 -> <<kf_bfly4_m1_neon>>
                            [] radix = 4 /\ m > 1 -> <<kf_bfly4_neon_inner>>
                            [] radix = 3 -> <<kf_bfly3_neon_inner>>
                            [] radix = 5 -> <<kf_bfly5_neon_inner>>
                            [] OTHER -> <<Plain>>)
      [] isa = "avx" -> (CASE radix = 4 /\ m = 1 -> <<kf_bfly4_m1_avx>>
                           [] radix = 4 /\ m > 1 -> <<kf_bfly4_avx_inner>>
                           [] radix = 3 -> <<kf_bfly3_avx_inner>>
                           [] radix = 5 -> <<kf_bfly5_avx_inner>>
                           [] OTHER -> <<Plain>>)
      [] OTHER -> <<Plain>>
rotation(proc, isa) ==
    CASE isa = "neon" -> IF proc = "back_post" THEN <<mdct_backward_post_rotation_neon>> ELSE <<rotation_neon>>
      [] isa = "avx" -> (CASE proc = "pre" -> <<mdct_pre_rotation_avx>>
                           [] proc = "post" -> <<mdct_post_rotation_avx>>
                           [] proc = "back_pre" -> <<mdct_backward_pre_rotation_avx>>
                           [] proc = "back_post" -> <<mdct_backward_post_rotation_avx>>
                           [] proc = "tdac" -> <<mdct_tdac_avx>>)
      [] OTHER -> <<Plain>>

PassesOf(s, proc, isa, k) ==
    CASE proc = "butterflies" -> butterflies(isa, s.radix, s.m)
      [] proc \in {"pre", "post", "back_pre", "back_post", "tdac"} -> rotation(proc, isa)
      [] proc = "fast_select_init" -> fast_select_init(isa)
      [] proc = "scalar_init" -> scalar_init(isa)
      [] proc = "pvq_renormalise" -> pvq_renormalise_vector(isa, k)
      [] proc = "resynth" -> alg_quant_resynth(isa)
      [] proc = "itheta" -> stereo_itheta(isa)
      [] proc = "l1" -> l1_metric(isa, k)
      [] proc = "renormalise" -> renormalise_vector(isa, k)
      [] proc = "energies" -> compute_band_energies(isa, k)
      [] proc \in {"normalise", "denormalise"} -> scaled_slice(isa, k)

-----------------------------------------------------------------------------
(* The slices a call goes over: one; or the bands of every channel, whose    *)
(* spectra lie a frame apart; or the groups of butterflies of an FFT stage,  *)
(* unless they are single and the kernel takes the groups together.          *)
InGroups(s) == s.proc = "butterflies" /\ (s.m > 1 \/ s.radix \in {3, 5})
OverFrame(s) == s.proc \in {"energies", "normalise", "denormalise"}
FirstBand(s) == IF s.proc = "denormalise" THEN s.start ELSE 0
Slices(s) ==
    IF OverFrame(s)
    THEN LET bands == s.end - FirstBand(s)
         IN  [q \in 1..(s.channels * bands) |->
                LET c == (q - 1) \div bands
                    i == FirstBand(s) + ((q - 1) % bands)
                IN  <<c * (120 * 2^s.lm) + e_bands(i) * 2^s.lm, Width(i) * 2^s.lm>>]
    ELSE IF InGroups(s) THEN [g \in 1..(s.size \div s.m) |-> <<(g - 1) * s.m, s.m>>]
    ELSE <<<<0, s.size>>>>

VARIABLES
    sweep,    \* the call
    slices,   \* slices still to do, the first one under way
    passes,   \* its passes still to do, each the loops left of it
    swept,    \* samples done in this pass
    touched   \* per pass: the samples it went over, in order

svars == <<sweep, slices, passes, swept, touched>>

PassesFor(s, slice) == PassesOf(s, s.proc, s.isa, slice[2])

StripLoopsInit ==
    /\ sweep \in Sweeps
    /\ slices = Slices(sweep)
    /\ passes = PassesFor(sweep, slices[1])
    /\ swept = 0
    /\ touched = [p \in 1..Len(passes) |-> <<>>]

PassNo == Len(touched) - Len(passes) + 1

Sweep ==
    /\ passes # <<>> /\ passes[1] # <<>>
    /\ LET l == passes[1][1]
       IN  IF slices[1][2] - swept >= l.least
           THEN /\ touched' = [touched EXCEPT ![PassNo] = @ \o Places(slices[1][1] + swept, l.w)]
                /\ swept' = swept + l.w
                /\ passes' = IF l.again THEN passes ELSE <<Tail(passes[1])>> \o Tail(passes)
           ELSE /\ passes' = <<Tail(passes[1])>> \o Tail(passes)
                /\ UNCHANGED <<touched, swept>>
    /\ UNCHANGED <<sweep, slices>>

EndPass ==
    /\ passes # <<>> /\ passes[1] = <<>>
    /\ passes' = Tail(passes)
    /\ swept' = 0
    /\ UNCHANGED <<sweep, slices, touched>>

NextSlice ==
    /\ passes = <<>> /\ Len(slices) > 1
    /\ slices' = Tail(slices)
    /\ passes' = PassesFor(sweep, slices[2])
    /\ swept' = 0
    /\ UNCHANGED <<sweep, touched>>

StripLoopsNext == Sweep \/ EndPass \/ NextSlice

StripLoopsSpec == StripLoopsInit /\ [][StripLoopsNext]_svars

-----------------------------------------------------------------------------
(* Every pass goes over every sample of its slices once, whichever strips    *)
(* the length divides into; over whole frames the slices are the coded       *)
(* bands side by side, each channel in its own half.                         *)
SweptOnce ==
    (passes = <<>> /\ Len(slices) = 1) =>
        LET wanted == IF OverFrame(sweep)
                      THEN UNION {(c * 120 * 2^sweep.lm + e_bands(FirstBand(sweep)) * 2^sweep.lm)
                                    ..(c * 120 * 2^sweep.lm + e_bands(sweep.end) * 2^sweep.lm - 1) :
                                  c \in 0..(sweep.channels - 1)}
                      ELSE 0..(sweep.size - 1)
        IN  \A p \in DOMAIN touched : /\ SetOf(touched[p]) = wanted
                                      /\ Len(touched[p]) = Cardinality(wanted)

(* The loops of sums and of passes alike (pitch.rs, celt_lpc.rs, bands.rs,   *)
(* pvq.rs, kiss_fft.rs, mdct.rs, sigproc_fix.rs).                            *)
LoopsExact == EachProductOnce /\ LoadsInside /\ SweptOnce
=============================================================================

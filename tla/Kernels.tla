------------------------------ MODULE Kernels ------------------------------
(***************************************************************************)
(* The loops the codec spends its time in - correlations, energies, FIR    *)
(* and IIR filters - each written once as a plain loop and again for NEON, *)
(* SSE, AVX and AVX2: strips of several elements, then shorter strips,     *)
(* then the rest one by one, the y values of neighbouring lags taken from  *)
(* registers by shuffles.  The vector code loads through raw pointers, so  *)
(* that which element meets which, how often, and how far a load reaches   *)
(* is all in the indices; the model keeps the indices and drops the        *)
(* values.                                                                 *)
(***************************************************************************)
EXTENDS Arrays, FiniteSets

CONSTANT Calls  \* calls: [proc, isa, len, lags, ylen]

SetOf(s) == {s[k] : k \in DOMAIN s}

-----------------------------------------------------------------------------
(* A loop takes w elements per turn while at least `least` are left; `again` *)
(* tells a while from an if.                                                *)
While(w) == [w |-> w, least |-> w, again |-> TRUE]
Once(w) == [w |-> w, least |-> w, again |-> FALSE]
Above(w) == [w |-> w, least |-> w + 1, again |-> TRUE]
OnceAbove(w) == [w |-> w, least |-> w + 1, again |-> FALSE]
Always(w) == [w |-> w, least |-> 0, again |-> FALSE]

inner_prod == <<While(1)>>
inner_prod_neon == <<While(8), Once(4), While(1)>>
inner_prod_sse == <<While(8), Once(4), While(1)>>
inner_prod_avx == <<While(16), While(8), While(1)>>

dual_inner_prod == <<While(1)>>
dual_inner_prod_neon == <<While(8), Once(4), While(1)>>
dual_inner_prod_sse == <<While(4), While(1)>>
dual_inner_prod_avx == <<While(16), While(8), While(1)>>

energy_scalar == <<While(1)>>
energy_neon == <<While(16), While(4), While(1)>>
energy_avx == <<While(16), While(8), While(1)>>

silk_inner_prod_aligned_scalar == <<While(4), While(1)>>
silk_inner_prod_aligned_neon == <<While(32), While(8), While(1)>>
silk_inner_prod_aligned_avx2 == <<While(32), While(16), Once(8), While(1)>>

warped_corr_update_scalar == <<While(1)>>
warped_corr_update_avx2 == <<While(4), While(1)>>

sum_sqr_shift_scalar == <<While(2), Once(1)>>
silk_sum_sqr_shift_neon == <<While(8), While(2), Once(1)>>
silk_sum_sqr_shift_avx2 == <<While(16), While(2), Once(1)>>

xcorr_kernel_c == <<While(1)>>
xcorr_kernel_sse == <<While(4), Once(1), Once(1), Once(1)>>
\* A kernel that leaves a group of four to its tail of three.
xcorr_kernel_avx_no_four == <<While(8), Once(1), Once(1), Once(1)>>
xcorr_kernel_avx == <<While(8), Once(4), Once(1), Once(1), Once(1)>>
xcorr_kernel_neon == <<Above(8), OnceAbove(4), Above(1), Always(1)>>
xcorr_kernel_scalar == <<While(4), Once(1), Once(1), Once(1)>>
xcorr_kernel_neon_s16 == <<Above(4), While(1)>>
xcorr_kernel_avx2 == <<While(4), While(1)>>

(* Which loops a kernel of each instruction set has.                        *)
Loops(proc, isa) ==
    CASE proc = "inner" ->
           CASE isa = "neon" -> inner_prod_neon [] isa = "sse" -> inner_prod_sse
             [] isa = "avx" -> inner_prod_avx [] OTHER -> inner_prod
      [] proc = "dual" ->
           CASE isa = "neon" -> dual_inner_prod_neon [] isa = "sse" -> dual_inner_prod_sse
             [] isa = "avx" -> dual_inner_prod_avx [] OTHER -> dual_inner_prod
      [] proc = "energy" ->
           CASE isa = "neon" -> energy_neon [] isa = "avx" -> energy_avx [] OTHER -> energy_scalar
      [] proc = "aligned" ->
           CASE isa = "neon" -> silk_inner_prod_aligned_neon
             [] isa = "avx" -> silk_inner_prod_aligned_avx2
             [] OTHER -> silk_inner_prod_aligned_scalar
      [] proc = "warped" ->
           IF isa = "avx" THEN warped_corr_update_avx2 ELSE warped_corr_update_scalar
      [] proc = "sum_sqr" ->
           CASE isa = "neon" -> silk_sum_sqr_shift_neon [] isa = "avx" -> silk_sum_sqr_shift_avx2
             [] OTHER -> sum_sqr_shift_scalar
      [] proc = "xcorr" ->
           CASE isa = "neon" -> xcorr_kernel_neon [] isa = "sse" -> xcorr_kernel_sse
             [] isa = "avx" -> xcorr_kernel_avx [] OTHER -> xcorr_kernel_c
      [] proc = "xcorr16" ->
           CASE isa = "neon" -> xcorr_kernel_neon_s16 [] isa = "avx" -> xcorr_kernel_avx2
             [] OTHER -> xcorr_kernel_scalar

-----------------------------------------------------------------------------
(* What one strip multiplies.  A vector of y values is the sequence of the  *)
(* places they were loaded from; lane k is element k + 1.                   *)
vext(a, b, q) == SubSeq(a \o b, q + 1, q + 4)
shuffle(a, b, imm) ==
    LET two(s) == ((imm \div s) % 4) + 1
    IN  <<a[two(1)], a[two(4)], b[two(16)], b[two(64)]>>

(* _mm_shuffle_ps masks 0x49 and 0x9e of the SSE and AVX kernels.           *)
FourTapsX86(at) ==
    LET yj == Places(at, 4)
        y3 == Places(at + 3, 4)
    IN  <<yj, shuffle(yj, y3, 73), shuffle(yj, y3, 158), y3>>

(* yy is kept from strip to strip; a strip loads the vectors behind it.     *)
FourTapsNeon(yy, next) == <<yy, vext(yy, next, 1), vext(yy, next, 2), vext(yy, next, 3)>>

(* _mm_bsrli_si128 and madd pairs: four overlapping windows of one load.    *)
FourTapsAvx2(at) ==
    LET y8 == Places(at, 8)
        win(k) == SubSeq(y8, k + 1, k + 4)
        lane(k) == win(k)
    IN  [q \in 1..4 |-> <<lane(0)[q], lane(1)[q], lane(2)[q], lane(3)[q]>>]

(* The four rotating registers of the scalar 16-bit kernel: r = <<y_0, y_1,  *)
(* y_2, y_3>>; tap q loads one and multiplies them in rotated order.        *)
RotLoad(r, q, y) == [r EXCEPT ![((q + 3) % 4) + 1] = y]
RotTap(r, q) == [k \in 1..4 |-> r[((q + k - 1) % 4) + 1]]

-----------------------------------------------------------------------------
VARIABLES
    call,     \* the call
    lag,     \* first lag of the group being computed
    group,   \* lags computed together: 4, or 1
    loops,   \* loops still to run for this group
    at,      \* elements done
    left,    \* elements left
    held,    \* y places in the registers kept across strips
    terms,   \* for each lag, the products added so far
    reads    \* y places loaded so far

kvars == <<call, lag, group, loops, at, left, held, terms, reads>>

IsPlain == call.proc \in {"inner", "dual", "energy", "aligned", "warped", "sum_sqr"}
Kernel == IF call.proc \in {"silk_pitch_xcorr", "silk_autocorr"} THEN "xcorr16" ELSE "xcorr"

(* fast_n of the autocorrelations: products every lag has.                  *)
XcorrLen == IF call.proc \in {"autocorr", "autocorr_c_order", "silk_autocorr"}
            THEN call.len - (call.lags - 1) ELSE call.len

NoLoops == <<>>
IdleIn(j) == /\ call = j /\ lag = 0 /\ group = 0 /\ loops = NoLoops
             /\ at = 0 /\ left = 0 /\ held = <<>>
             /\ terms = [k \in 0..(j.lags - 1) |-> <<>>]
             /\ reads = {}

KernelsInit == \E j \in Calls : IdleIn(j)

(* Which kernel a group of four lags may use depends on how far y reaches.  *)
KernelIsa(first) ==
    IF Kernel = "xcorr" THEN call.isa
    ELSE CASE call.isa = "neon" /\ call.ylen - first >= XcorrLen + 8 -> "neon"
           [] call.isa = "avx" /\ call.ylen - first >= XcorrLen + 4 -> "avx"
           [] OTHER -> "scalar"

(* pitch_xcorr: four lags at a time with the kernel, what is left with the   *)
(* inner product; the plain build and a short NEON call take lags singly.   *)
ByFour(first) ==
    /\ first + 4 <= call.lags
    /\ CASE call.proc = "pitch_xcorr" ->
              call.isa \in {"sse", "avx"} \/ (call.isa = "neon" /\ call.lags >= 32)
         [] call.proc = "autocorr" ->
              call.isa \in {"sse", "avx"} \/ (call.isa = "neon" /\ call.lags >= 32)
         [] call.proc = "silk_pitch_xcorr" -> call.ylen >= first + XcorrLen + 3
         [] OTHER -> TRUE

SingleLoops ==
    CASE call.proc \in {"pitch_xcorr", "autocorr"} -> Loops("inner", call.isa)
      [] OTHER -> <<While(1)>>

Avail(k) == IF call.proc = "silk_pitch_xcorr"
            THEN MinOf(XcorrLen, IF call.ylen > k THEN call.ylen - k ELSE 0) ELSE XcorrLen

(* Before the first strip of a kernel some registers are loaded.             *)
Preloaded(kern, isa, first) ==
    CASE kern = "xcorr" /\ isa = "neon" -> Places(first, 4)
      [] kern = "xcorr16" /\ isa = "neon" -> Places(first, 8)
      [] kern = "xcorr16" /\ isa = "scalar" -> Places(first, 3) \o <<0>>
      [] OTHER -> <<>>

StartPlain ==
    /\ IsPlain /\ group = 0 /\ lag = 0
    /\ group' = 1
    /\ loops' = Loops(call.proc, call.isa)
    /\ at' = 0 /\ left' = call.len
    /\ UNCHANGED <<call, lag, held, terms, reads>>

StartFour ==
    /\ ~IsPlain /\ group = 0 /\ lag < call.lags
    /\ ByFour(lag)
    /\ group' = 4
    /\ LET isa == IF call.proc = "autocorr_c_order" THEN "scalar" ELSE KernelIsa(lag)
       IN  /\ loops' = Loops(Kernel, isa)
           /\ held' = Preloaded(Kernel, isa, lag)
           /\ reads' = reads \cup IF Kernel = "xcorr16" /\ isa = "scalar"
                                  THEN {lag, lag + 1, lag + 2} ELSE SetOf(held')
    /\ at' = 0 /\ left' = XcorrLen
    /\ UNCHANGED <<call, lag, terms>>

StartOne ==
    /\ ~IsPlain /\ group = 0 /\ lag < call.lags
    /\ ~ByFour(lag)
    /\ group' = 1
    /\ loops' = SingleLoops
    /\ at' = 0 /\ left' = Avail(lag)
    /\ UNCHANGED <<call, lag, held, terms, reads>>

-----------------------------------------------------------------------------
(* One strip of a sum: w products of this lag; sum_sqr_shift shifts sums of *)
(* pairs, and dual_inner_prod does the same strips for both of its y.        *)
Takes(l) == left >= l.least
After(l) == /\ loops' = IF l.again THEN loops ELSE Tail(loops)
            /\ at' = at + l.w
            /\ left' = left - l.w

PairOf(i) == <<i, i + 1>>
StripTerms(w) ==
    CASE call.proc = "sum_sqr" ->
           IF w = 1 THEN <<<<at>>>> ELSE [q \in 1..(w \div 2) |-> PairOf(at + 2 * (q - 1))]
      [] call.proc = "warped" -> [q \in 1..w |-> <<at + q - 1, 0>>]
      [] OTHER -> [q \in 1..w |-> <<at + q - 1, lag + at + q - 1>>]

SumStrip ==
    /\ group = 1 /\ loops # NoLoops
    /\ LET l == Head(loops)
       IN  /\ Takes(l)
           /\ After(l)
           /\ terms' = [terms EXCEPT ![lag] = @ \o StripTerms(l.w)]
           /\ reads' = reads \cup SetOf(Places(lag + at, l.w))
    /\ UNCHANGED <<call, lag, group, held>>

(* Add taps to the four lags: tap q is x[at + q] times a vector of y.        *)
AddTaps(taps) ==
    terms' = [k \in DOMAIN terms |->
                 IF k \in lag..(lag + 3)
                 THEN terms[k] \o [q \in DOMAIN taps |-> <<at + q - 1, taps[q][k - lag + 1]>>]
                 ELSE terms[k]]

InKernel(kern, isa) == /\ group = 4 /\ loops # NoLoops
                      /\ Kernel = kern
                      /\ (IF call.proc = "autocorr_c_order" THEN "scalar" ELSE KernelIsa(lag)) = isa

StripX86 ==
    /\ InKernel("xcorr", "sse") \/ InKernel("xcorr", "avx") \/ InKernel("xcorr", "scalar")
    /\ LET l == Head(loops)
           y == lag + at
       IN  /\ Takes(l)
           /\ After(l)
           /\ AddTaps(CASE l.w = 1 -> <<Places(y, 4)>>
                        [] l.w = 4 -> FourTapsX86(y)
                        [] l.w = 8 -> FourTapsX86(y) \o FourTapsX86(y + 4))
           /\ reads' = reads \cup SetOf(Places(y, IF l.w = 1 THEN 4 ELSE l.w + 3))
    /\ UNCHANGED <<call, lag, group, held>>

(* The NEON kernel loads ahead; its last element loads nothing more.         *)
StripNeon ==
    /\ InKernel("xcorr", "neon")
    /\ LET l == Head(loops)
           y == lag + at
           n1 == Places(y + 4, 4)
           n2 == Places(y + 8, 4)
           last == l.w = 1 /\ ~l.again
       IN  /\ Takes(l)
           /\ After(l)
           /\ AddTaps(CASE l.w = 8 -> FourTapsNeon(held, n1) \o FourTapsNeon(n1, n2)
                        [] l.w = 4 -> FourTapsNeon(held, n1)
                        [] l.w = 1 -> <<held>>)
           /\ held' = CASE l.w = 8 -> n2 [] l.w = 4 -> n1
                        [] l.w = 1 -> IF last THEN held ELSE Places(y + 1, 4)
           /\ reads' = reads \cup SetOf(held') \cup (IF l.w = 8 THEN SetOf(n1) ELSE {})
    /\ UNCHANGED <<call, lag, group>>

StripNeon16 ==
    /\ InKernel("xcorr16", "neon")
    /\ LET l == Head(loops)
           y == lag + at
           n1 == Places(y + 4, 8)
       IN  /\ Takes(l)
           /\ After(l)
           /\ IF l.w = 4 THEN /\ AddTaps(FourTapsNeon(SubSeq(held, 1, 8), n1))
                              /\ held' = n1
                              /\ reads' = reads \cup SetOf(n1)
              ELSE /\ AddTaps(<<Places(y, 4)>>)
                   /\ reads' = reads \cup SetOf(Places(y, 4))
                   /\ UNCHANGED held
    /\ UNCHANGED <<call, lag, group>>

(* The tail of the AVX2 kernel reads y[i], y[i+1], y[i+2] even when empty.   *)
StripAvx2 ==
    /\ InKernel("xcorr16", "avx")
    /\ LET l == Head(loops)
           y == lag + at
       IN  /\ Takes(l)
           /\ After(l)
           /\ AddTaps(IF l.w = 4 THEN FourTapsAvx2(y) ELSE <<Places(y, 4)>>)
           /\ reads' = reads \cup SetOf(Places(y, IF l.w = 4 THEN 8 ELSE 4))
                             \cup SetOf(Places(lag + 4 * (XcorrLen \div 4), 3))
    /\ UNCHANGED <<call, lag, group, held>>

(* Each tap of the scalar kernel loads the next y over the register that the *)
(* lowest lag no longer needs; which one goes on from strip to strip.        *)
StripScalar16 ==
    /\ InKernel("xcorr16", "scalar")
    /\ LET l == Head(loops)
           phase == IF l.w = 4 THEN 0 ELSE at % 4
           Reg[q \in 0..l.w] == IF q = 0 THEN held
                                ELSE RotLoad(Reg[q - 1], phase + q - 1, lag + at + 2 + q)
       IN  /\ Takes(l)
           /\ After(l)
           /\ AddTaps([q \in 1..l.w |-> RotTap(Reg[q], phase + q - 1)])
           /\ held' = Reg[l.w]
           /\ reads' = reads \cup SetOf(Places(lag + at + 3, l.w))
    /\ UNCHANGED <<call, lag, group>>

LeaveLoop ==
    /\ loops # NoLoops
    /\ ~Takes(Head(loops))
    /\ loops' = Tail(loops)
    /\ UNCHANGED <<call, lag, group, at, left, held, terms, reads>>

EndGroup ==
    /\ group > 0 /\ loops = NoLoops
    /\ group' = 0
    /\ lag' = IF IsPlain THEN call.lags ELSE lag + group
    /\ held' = <<>>
    /\ UNCHANGED <<call, loops, at, left, terms, reads>>

(* The autocorrelations correlate the first fast_n and add, lag by lag, the  *)
(* products that only some lags have.                                        *)
AddTail ==
    /\ call.proc \in {"autocorr", "autocorr_c_order", "silk_autocorr"}
    /\ group = 0 /\ lag = call.lags
    /\ terms' = [k \in DOMAIN terms |->
                    terms[k] \o [q \in 1..(call.lags - 1 - k) |->
                                    LET i == k + XcorrLen + q - 1 IN <<i - k, i>>]]
    /\ lag' = lag + 1
    /\ UNCHANGED <<call, group, loops, at, left, held, reads>>

KernelsNext == StartPlain \/ StartFour \/ StartOne \/ SumStrip \/ StripX86 \/ StripNeon
        \/ StripNeon16 \/ StripAvx2 \/ StripScalar16 \/ LeaveLoop \/ EndGroup \/ AddTail

KernelsSpec == KernelsInit /\ [][KernelsNext]_kvars
-----------------------------------------------------------------------------
HasTail == call.proc \in {"autocorr", "autocorr_c_order", "silk_autocorr"}
Done == /\ group = 0
        /\ lag >= call.lags
        /\ HasTail => lag = call.lags + 1

(* What the definition of the sum asks for at lag k.                        *)
Wanted(k) ==
    CASE call.proc = "sum_sqr" ->
           {PairOf(2 * i) : i \in 0..(call.len \div 2 - 1)}
               \cup (IF call.len % 2 = 1 THEN {<<call.len - 1>>} ELSE {})
      [] call.proc = "warped" -> {<<i, 0>> : i \in 0..(call.len - 1)}
      [] HasTail -> {<<i, i + k>> : i \in 0..(call.len - 1 - k)}
      [] OTHER -> {<<i, i + k>> : i \in 0..(Avail(k) - 1)}

(* Whichever instruction set and however the strips divide the length: every *)
(* lag adds each of its products once and no other (pitch.rs, celt_lpc.rs,   *)
(* sigproc_fix.rs: every vector kernel is a twin of the plain loop).         *)
EachProductOnce ==
    Done => \A k \in 0..(call.lags - 1) :
              /\ SetOf(terms[k]) = Wanted(k)
              /\ Len(terms[k]) = Cardinality(Wanted(k))

(* No strip loads past the y the caller was asked for, though vectors are    *)
(* loaded ahead of the elements that use them.                              *)
LoadsInside == \A r \in reads : r \in 0..(call.ylen - 1)
=============================================================================

-------------------------- MODULE LinearPrediction --------------------------
(***************************************************************************)
(* The recursions behind linear prediction: Levinson-Durbin (CELT), Schur  *)
(* with step-up and Burg's method on subframes (SILK, once in fixed point  *)
(* and once in floating point), covariance matrices updated from element   *)
(* to element, the warped autocorrelation, and the way between prediction  *)
(* coefficients and line spectral frequencies.  Each keeps a handful of    *)
(* arrays that are updated in place, half of an array against its other    *)
(* half, so that a bound or an index one off gives a plausible filter that *)
(* is not the one asked for.                                               *)
(*                                                                         *)
(* Numbers are elements of the field of P elements: sums, products and     *)
(* quotients are exact, scalings by powers of two (the shifts of the fixed *)
(* point code) disappear, and comparisons of magnitudes, which only decide *)
(* whether a recursion stops early, are free choices.                      *)
(***************************************************************************)
EXTENDS Field

CONSTANT Filters \* [alg, order, len, blocks, seed]: see PredictionInit

(* The samples of a job: anything without structure.                         *)
Sample(seed, i) == (i * i * i * 7 + i * i * (31 + seed) + (i + 3) * (seed + 11) * 5) % P

-----------------------------------------------------------------------------
SetField(s, i, v) == Set(s, i, v % P)

(* In place, for j below half: a[j] and its mirror a[n-1-j] become           *)
(* a[j] + r a[n-1-j] and a[n-1-j] + r a[j].                                  *)
Reflected(a, n, half, r) ==
    FieldArray(Len(a), LAMBDA j : IF j < n /\ (j < half \/ n - 1 - j < half)
                             THEN At(a, j) + r * At(a, n - 1 - j) ELSE At(a, j))

(* lpc (celt_lpc.rs): one order more, from autocorrelations ac.              *)
LevinsonReflection(a, ac, i, error) ==
    Div(-(Sum(LAMBDA j : At(a, j) * At(ac, i - j), 0, i) + At(ac, i + 1)), error)
\* Rounds the half down: the middle coefficient of an odd order is left out.
LevinsonHalf(a, i, r) == Reflected(SetField(a, i, r), i, i \div 2, r)
Levinson(a, i, r) == Reflected(SetField(a, i, r), i, (i + 1) \div 2, r)

(* schur (flp.rs), silk_schur64 and silk_schur (sigproc_fix.rs): one more    *)
(* reflection coefficient from the two columns of c.                         *)
SchurReflection(c0, c1, k) == Div(-At(c0, k + 1), At(c1, 0))
SchurColumn0(c0, c1, k, order, rc) ==
    FieldArray(order + 1, LAMBDA q : IF q >= k + 1 THEN At(c0, q) + At(c1, q - k - 1) * rc ELSE At(c0, q))
SchurColumn1(c0, c1, k, order, rc) ==
    FieldArray(order + 1, LAMBDA n : IF n < order - k THEN At(c1, n) + At(c0, n + k + 1) * rc ELSE At(c1, n))

(* k2a (flp.rs), silk_k2a_q16 and silk_k2a (sigproc_fix.rs): step up.        *)
StepUp(a, k, rck) == SetField(Reflected(a, k, (k + 1) \div 2, rck), k, -rck)

-----------------------------------------------------------------------------
(* Burg's method over nb subframes of length L (burg_modified of flp.rs,     *)
(* silk_burg_modified_fix of lpc_analysis.rs).                               *)
Kappa == 3   \* FIND_LPC_COND_FAC: white noise added for conditioning
BurgRow(x, L, nb, n) ==
    Sum(LAMBDA s : Sum(LAMBDA i : At(x, s * L + i) * At(x, s * L + i + n), 0, L - n), 0, nb)

(* The fixed point code correlates the first L - d products of every lag     *)
(* with the pitch kernel and adds the others one by one.                     *)
BurgRowFix(x, L, nb, n, d) ==
    LET fast == L - d
    IN  Sum(LAMBDA s : Sum(LAMBDA i : At(x, s * L + i) * At(x, s * L + 1 + (n - 1) + i), 0, fast)
                     + Sum(LAMBDA i : At(x, s * L + i) * At(x, s * L + i - n), n + fast, L), 0, nb)

(* Order n of a subframe at xp: the rows lose the products of sample n and   *)
(* its mirror, caf and cab those of the prediction errors there.             *)
ErrorF(x, xp, n, af) == At(x, xp + n) + Sum(LAMBDA k : At(x, xp + n - k - 1) * At(af, k), 0, n)
ErrorB(x, xp, L, n, af) == At(x, xp + L - n - 1) + Sum(LAMBDA k : At(x, xp + L - n + k) * At(af, k), 0, n)
FirstRowAfter(m, x, L, nb, n) ==
    FieldArray(Len(m.first), LAMBDA k : IF k >= n THEN At(m.first, k)
        ELSE At(m.first, k) - Sum(LAMBDA s : At(x, s * L + n) * At(x, s * L + n - k - 1), 0, nb))
LastRowAfter(m, x, L, nb, n) ==
    FieldArray(Len(m.last), LAMBDA k : IF k >= n THEN At(m.last, k)
        ELSE At(m.last, k) - Sum(LAMBDA s : At(x, s * L + L - n - 1) * At(x, s * L + L - n + k), 0, nb))
CafAfter(m, x, L, nb, n) ==
    FieldArray(Len(m.caf), LAMBDA k : IF k > n THEN At(m.caf, k)
        ELSE At(m.caf, k) - Sum(LAMBDA s : ErrorF(x, s * L, n, m.af) * At(x, s * L + n - k), 0, nb))
\* Stops one element early.
CabAfterShort(m, x, L, nb, n) ==
    FieldArray(Len(m.cab), LAMBDA k : IF k >= n THEN At(m.cab, k)
        ELSE At(m.cab, k) - Sum(LAMBDA s : ErrorB(x, s * L, L, n, m.af) * At(x, s * L + L - n + k - 1), 0, nb))
CabAfter(m, x, L, nb, n) ==
    FieldArray(Len(m.cab), LAMBDA k : IF k > n THEN At(m.cab, k)
        ELSE At(m.cab, k) - Sum(LAMBDA s : ErrorB(x, s * L, L, n, m.af) * At(x, s * L + L - n + k - 1), 0, nb))

(* The new last elements of caf and cab, the reflection coefficient, and the *)
(* update of the order.                                                      *)
NewCaf(m, n) == At(m.first, n) + Sum(LAMBDA k : At(m.last, n - k - 1) * At(m.af, k), 0, n)
NewCab(m, n) == At(m.last, n) + Sum(LAMBDA k : At(m.first, n - k - 1) * At(m.af, k), 0, n)
BurgReflection(m, n) ==
    LET num == At(m.cab, n + 1) + Sum(LAMBDA k : At(m.cab, n - k) * At(m.af, k), 0, n)
        nrg_b == At(m.cab, 0) + Sum(LAMBDA k : At(m.cab, k + 1) * At(m.af, k), 0, n)
        nrg_f == At(m.caf, 0) + Sum(LAMBDA k : At(m.caf, k + 1) * At(m.af, k), 0, n)
    IN  Div(-2 * num, nrg_f + nrg_b)
CrossCaf(m, n, rc) == FieldArray(Len(m.caf), LAMBDA k : IF k > n + 1 THEN At(m.caf, k)
                                                   ELSE At(m.caf, k) + rc * At(m.cab, n - k + 1))
CrossCab(m, n, rc) == FieldArray(Len(m.cab), LAMBDA k : IF k > n + 1 THEN At(m.cab, k)
                                                   ELSE At(m.cab, k) + rc * At(m.caf, n - k + 1))

-----------------------------------------------------------------------------
(* corr_matrix and corr_vector (flp.rs), silk_corr_matrix_fix and            *)
(* silk_corr_vector_fix (sigproc_fix.rs): element (j, lag + j) of x'x from   *)
(* the one before it by a sample that enters and one that leaves.            *)
InnerProduct(x, p, q, l) == Sum(LAMBDA i : At(x, p + i) * At(x, q + i), 0, l)
RECURSIVE CorrElement(_, _, _, _, _)
CorrElement(x, l, order, lag, j) ==
    LET p1 == order - 1
        p2 == order - 1 - lag
    IN  IF j = 0 THEN InnerProduct(x, p1, p2, l)
        ELSE (CorrElement(x, l, order, lag, j - 1)
                - At(x, p1 + l - j) * At(x, p2 + l - j) + At(x, p1 - j) * At(x, p2 - j)) % P

(* The fixed point code finds the first energy from that of all samples.     *)
CorrFirstFix(x, l, order) ==
    (Sum(LAMBDA i : At(x, i) * At(x, i), 0, l + order - 1)
        - Sum(LAMBDA i : At(x, i) * At(x, i), 0, order - 1)) % P

CorrMatrix(x, l, order) ==
    [rc \in (0..(order - 1)) \X (0..(order - 1)) |->
        IF rc[1] <= rc[2] THEN CorrElement(x, l, order, rc[2] - rc[1], rc[1])
        ELSE CorrElement(x, l, order, rc[1] - rc[2], rc[2])]

(* silk_corr_vector_fix moves its pointer down without letting it below 0.   *)
CorrVectorStart(order, lag) == IF lag >= order THEN 0 ELSE order - 1 - lag

-----------------------------------------------------------------------------
(* warped_autocorrelation (flp.rs) and silk_warped_autocorrelation_fix: one  *)
(* sample runs through a chain of allpass sections kept in place, two per    *)
(* turn; then every tap is correlated with the input.                        *)
W == 5   \* warping
RECURSIVE WarpedState(_, _, _, _)
WarpedState(state, order, i, tmp1) ==
    IF i >= order THEN SetField(state, order, tmp1)
    ELSE LET tmp2 == (At(state, i) + W * (At(state, i + 1) - tmp1)) % P
             next == (At(state, i + 1) + W * (At(state, i + 2) - tmp2)) % P
         IN  WarpedState(SetField(SetField(state, i, tmp1), i + 1, tmp2), order, i + 2, next)

(* The allpass chain by definition: section i at time n.                     *)
RECURSIVE Allpass(_, _, _)
Allpass(x, i, n) ==
    IF n < 0 THEN 0
    ELSE IF i = 0 THEN At(x, n)
    ELSE (Allpass(x, i - 1, n - 1) + W * (Allpass(x, i, n - 1) - Allpass(x, i - 1, n))) % P

-----------------------------------------------------------------------------
(* silk_nlsf2a_find_poly: the polynomial with the roots of every second      *)
(* line; the coefficient array grows by one per root.                        *)
RECURSIVE FindPoly(_, _, _, _)
FindPoly(out, c, dd, k) ==
    IF k = dd THEN out
    ELSE LET f == At(c, 2 * k)
             grown == FieldArray(Len(out), LAMBDA n :
                 CASE n = k + 1 -> 2 * At(out, k - 1) - f * At(out, k)
                   [] n \in 2..k -> At(out, n) + At(out, n - 2) - f * At(out, n - 1)
                   [] n = 1 -> At(out, 1) - f
                   [] OTHER -> At(out, n))
         IN  FindPoly(grown, c, dd, k + 1)
silk_nlsf2a_find_poly(c, dd) == FindPoly(SetField(SetField(Zeros(dd + 1), 0, 1), 1, -At(c, 0)), c, dd, 1)

(* silk_nlsf2a: half the sum and difference of the two polynomials (the half *)
(* is a format: a32_qa1 is read with one binary place more).                 *)
silk_nlsf2a(cosines, d) ==
    LET dd == d \div 2
        p == silk_nlsf2a_find_poly(cosines, dd)
        q == silk_nlsf2a_find_poly(Tail(cosines), dd)
        Ptmp(k) == At(p, k + 1) + At(p, k)
        Qtmp(k) == At(q, k + 1) - At(q, k)
        half == Div(1, 2)
    IN  FieldArray(d, LAMBDA k : half * (IF k < dd THEN -(Qtmp(k) + Ptmp(k))
                                    ELSE Qtmp(d - 1 - k) - Ptmp(d - 1 - k)))

(* silk_a2nlsf_init and _trans_poly: back from the filter to polynomials in  *)
(* the cosine; silk_a2nlsf_eval_poly evaluates them.                         *)
RECURSIVE Deflated(_, _, _)
Deflated(p, k, sign) ==
    IF k = 0 THEN p ELSE Deflated(SetField(p, k - 1, At(p, k - 1) + sign * At(p, k)), k - 1, sign)
RECURSIVE TransInner(_, _, _)
TransInner(p, k, n) ==
    IF n <= k THEN SetField(p, k - 2, At(p, k - 2) - 2 * At(p, k))
    ELSE TransInner(SetField(p, n - 2, At(p, n - 2) - At(p, n)), k, n - 1)
RECURSIVE TransPoly(_, _, _)
TransPoly(p, k, dd) == IF k > dd THEN p ELSE TransPoly(TransInner(p, k, dd), k + 1, dd)
silk_a2nlsf_init(a, dd, sign) ==
    LET raw == FieldArray(dd + 1, LAMBDA k : IF k = dd THEN 1
                                        ELSE -At(a, dd - k - 1) + sign * At(a, dd + k))
    IN  TransPoly(Deflated(raw, dd, sign), 2, dd)
RECURSIVE EvalPoly(_, _, _)
EvalPoly(p, x, n) == IF n = Len(p) - 1 THEN At(p, n)
                     ELSE (At(p, n) + EvalPoly(p, x, n + 1) * x) % P

-----------------------------------------------------------------------------
VARIABLES
    fit,     \* the job
    xs,      \* the samples, or the cosines of the lines
    step,    \* orders done
    mem,     \* the arrays of the recursion
    gave_up  \* it stopped before the last order

pvars == <<fit, xs, step, mem, gave_up>>

Order == fit.order
L == fit.len
Nb == fit.blocks
IsBurg == fit.alg \in {"burg", "burg_fix"}
IsSchur == fit.alg = "schur"

(* Autocorrelations of the samples, which every filter is to fit.            *)
Autocorrelations == FieldArray(Order + 1, LAMBDA k : Sum(LAMBDA i : At(xs, i) * At(xs, i + k), 0, L - k))

Start ==
    CASE fit.alg = "levinson" -> [a |-> Zeros(Order), error |-> At(Autocorrelations, 0), r |-> 0]
      [] fit.alg = "schur" -> [c0 |-> Autocorrelations, c1 |-> Autocorrelations,
                               a |-> Zeros(Order), r |-> 0]
      [] fit.alg \in {"burg", "burg_fix"} ->
           LET c0 == Sum(LAMBDA i : At(xs, i) * At(xs, i), 0, Nb * L)
               row == FieldArray(Order, LAMBDA k : IF fit.alg = "burg" THEN BurgRow(xs, L, Nb, k + 1)
                                              ELSE BurgRowFix(xs, L, Nb, k + 1, Order))
               first == FieldArray(Order + 1, LAMBDA k : IF k = 0 THEN c0 * (1 + Kappa) ELSE 0)
           IN  [first |-> row, last |-> row, caf |-> first, cab |-> first,
                af |-> Zeros(Order), r |-> 0, c0 |-> c0]
      [] fit.alg = "warped" -> [state |-> Zeros(Order + 1), c |-> Zeros(Order + 1)]
      [] fit.alg = "matrix" -> [xx |-> <<>>]
      [] fit.alg = "lines" -> [a |-> <<>>]

PredictionInit ==
    /\ fit \in Filters
    /\ xs = FieldArray(fit.blocks * fit.len + fit.order, LAMBDA i : Sample(fit.seed, i))
    /\ step = 0
    /\ mem = Start
    /\ gave_up = FALSE

Unfinished == ~gave_up /\ step < Order

LevinsonStep ==
    /\ fit.alg = "levinson" /\ Unfinished
    /\ \E r \in {LevinsonReflection(mem.a, Autocorrelations, step, mem.error)} :
         mem' = [a |-> Levinson(mem.a, step, r), error |-> (mem.error - r * ((r * mem.error) % P)) % P, r |-> r]
    /\ step' = step + 1
    /\ gave_up' \in BOOLEAN
    /\ UNCHANGED <<fit, xs>>

SchurStep ==
    /\ IsSchur /\ Unfinished
    /\ \E rc \in {SchurReflection(mem.c0, mem.c1, step)} :
         mem' = [c0 |-> SchurColumn0(mem.c0, mem.c1, step, Order, rc),
               c1 |-> SchurColumn1(mem.c0, mem.c1, step, Order, rc),
               a |-> StepUp(mem.a, step, rc), r |-> rc]
    /\ step' = step + 1
    /\ UNCHANGED <<fit, xs, gave_up>>

(* One order of Burg; when the prediction gain is exhausted the reflection   *)
(* coefficient is another one (here any: Kappa) and the rest are zero.       *)
BurgStep ==
    /\ IsBurg /\ Unfinished
    /\ \E m1 \in {[mem EXCEPT !.first = FirstRowAfter(mem, xs, L, Nb, step), !.last = LastRowAfter(mem, xs, L, Nb, step),
                            !.caf = CafAfter(mem, xs, L, Nb, step), !.cab = CabAfter(mem, xs, L, Nb, step)]} :
       \E m2 \in {[m1 EXCEPT !.caf = SetField(m1.caf, step + 1, NewCaf(m1, step)), !.cab = SetField(m1.cab, step + 1, NewCab(m1, step))]} :
       \E exhausted \in BOOLEAN :
       \E rc \in {IF exhausted THEN Kappa ELSE BurgReflection(m2, step)} :
         /\ gave_up' = exhausted
         /\ mem' = [m2 EXCEPT !.af = SetField(Reflected(mem.af, step, (step + 1) \div 2, rc), step, rc),
                            !.r = rc,
                            !.caf = IF exhausted THEN @ ELSE CrossCaf(m2, step, rc),
                            !.cab = IF exhausted THEN @ ELSE CrossCab(m2, step, rc)]
    /\ step' = step + 1
    /\ UNCHANGED <<fit, xs>>

WarpedStep ==
    /\ fit.alg = "warped" /\ step < L
    /\ \E s \in {WarpedState(mem.state, Order, 0, At(xs, step))} :
         mem' = [state |-> s, c |-> FieldArray(Order + 1, LAMBDA i : At(mem.c, i) + At(s, 0) * At(s, i))]
    /\ step' = step + 1
    /\ UNCHANGED <<fit, xs, gave_up>>

MatrixStep ==
    /\ fit.alg = "matrix" /\ step = 0
    /\ mem' = [xx |-> CorrMatrix(xs, L, Order)]
    /\ step' = Order
    /\ UNCHANGED <<fit, xs, gave_up>>

LinesStep ==
    /\ fit.alg = "lines" /\ step = 0
    /\ mem' = [a |-> silk_nlsf2a(SubSeq(xs, 1, Order), Order)]
    /\ step' = Order
    /\ UNCHANGED <<fit, xs, gave_up>>

PredictionNext == LevinsonStep \/ SchurStep \/ BurgStep \/ WarpedStep \/ MatrixStep \/ LinesStep

PredictionSpec == PredictionInit /\ [][PredictionNext]_pvars

-----------------------------------------------------------------------------
(* At every order, and so wherever the recursion stops, the coefficients     *)
(* predict as well as n coefficients can: they solve the normal equations,   *)
(* and the error carried along is what is left (lpc; schur with k2a).        *)
SolvesNormalEquations ==
    fit.alg \in {"levinson", "schur"} =>
        LET ac == Autocorrelations
            sign == IF IsSchur THEN -1 ELSE 1
            Left(k) == At(ac, k) + sign * Sum(LAMBDA j : At(mem.a, j) * At(ac, Abs(k - 1 - j)), 0, step)
        IN  /\ \A k \in 1..step : Left(k) % P = 0
            /\ (IF IsSchur THEN At(mem.c1, 0) ELSE mem.error) = (At(ac, 0)
                   + sign * Sum(LAMBDA j : At(mem.a, j) * At(ac, j + 1), 0, step)) % P

(* Burg's method is the lattice: every reflection coefficient minimises the  *)
(* forward and backward errors of all subframes together, the white noise    *)
(* included, though the code never computes an error of a sample twice.      *)
LatticeF(v, s, t, k) == Sum(LAMBDA j : At(v, j) * At(xs, s * L + t - j), 0, k + 1)
LatticeB(v, s, t, k) == Sum(LAMBDA j : At(v, j) * At(xs, s * L + t - k + j), 0, k + 1)
Lattice(v, k) ==
    LET Over(f(_, _)) == Sum(LAMBDA s : Sum(LAMBDA t : f(s, t), k + 1, L), 0, Nb)
        num == Over(LAMBDA s, t : LatticeF(v, s, t, k) * LatticeB(v, s, t - 1, k))
                 + Kappa * ((mem.c0 * Sum(LAMBDA j : At(v, j) * At(v, k + 1 - j), 1, k + 1)) % P)
        den == Over(LAMBDA s, t : LatticeF(v, s, t, k) * LatticeF(v, s, t, k)
                                    + LatticeB(v, s, t - 1, k) * LatticeB(v, s, t - 1, k))
                 + 2 * Kappa * ((mem.c0 * Sum(LAMBDA j : At(v, j) * At(v, j), 0, k + 1)) % P)
    IN  Div(-2 * num, den)
BurgIsLattice ==
    [][IsBurg /\ ~gave_up' => mem'.r = Lattice(<<1>> \o mem.af, step)]_pvars

(* The other recursions give what their definitions say: the warped          *)
(* correlations are with the taps of the allpass chain, every element of the *)
(* covariance matrix is its own inner product, and the lines a filter was    *)
(* made from are the roots its polynomials have.                             *)
RecursionsMatchDefinitions ==
    /\ fit.alg = "warped" =>
         \A i \in 0..Order : At(mem.c, i) = Sum(LAMBDA t : At(xs, t) * Allpass(xs, i, t), 0, step)
    /\ (fit.alg = "matrix" /\ step > 0) =>
         /\ \A r, c \in 0..(Order - 1) :
              mem.xx[<<r, c>>] = InnerProduct(xs, CorrVectorStart(Order, r), CorrVectorStart(Order, c), L)
         /\ CorrFirstFix(xs, L, Order) = mem.xx[<<0, 0>>]
    /\ (fit.alg = "lines" /\ step > 0) =>
         LET p == silk_a2nlsf_init(mem.a, Order \div 2, -1)
             q == silk_a2nlsf_init(mem.a, Order \div 2, 1)
         IN  \A k \in 0..(Order - 1) :
               EvalPoly(IF k % 2 = 0 THEN p ELSE q, At(xs, k), 0) = 0

(* Both, at every order (celt_lpc.rs, flp.rs, sigproc_fix.rs, nlsf.rs).      *)
RecursionsExact == SolvesNormalEquations /\ RecursionsMatchDefinitions
=============================================================================

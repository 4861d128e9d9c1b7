------------------------------- MODULE Arrays -------------------------------
(* Sequences read as the arrays of the code, whose first element is s[0].   *)
EXTENDS Integers, Sequences

At(s, i) == s[i + 1]
Set(s, i, v) == [s EXCEPT ![i + 1] = v]
Zeros(n) == [k \in 1..n |-> 0]

(* The w places from `from` on.                                              *)
Places(from, w) == SubSeq([k \in 1..w |-> from + k - 1], 1, w)

(* The array of f(0) .. f(n - 1).                                            *)
Array(n, f(_)) == SubSeq([k \in 1..n |-> f(k - 1)], 1, n)

SumTo(s, n) == LET sum[k \in 0..n] == IF k = 0 THEN 0 ELSE sum[k - 1] + s[k] IN sum[n]
Total(s) == SumTo(s, Len(s))

Abs(a) == IF a < 0 THEN -a ELSE a
MinOf(a, b) == IF a < b THEN a ELSE b
MaxOf(a, b) == IF a > b THEN a ELSE b
Clamp(v, lo, hi) == MaxOf(lo, MinOf(v, hi))

(* Division of Rust: towards zero.                                           *)
Quot(a, b) == IF a >= 0 THEN a \div b ELSE -((-a) \div b)
=============================================================================

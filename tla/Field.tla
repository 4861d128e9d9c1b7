------------------------------- MODULE Field -------------------------------
(***************************************************************************)
(* Arithmetic of the field of P elements.  It stands for the floats of the *)
(* code wherever rounding is not the question: sum, product and quotient   *)
(* are exact and every result can be compared, so an index, a sign or a    *)
(* stride that is wrong gives a wrong number.                              *)
(***************************************************************************)
EXTENDS Arrays

CONSTANT P   \* a prime

ASSUME PAssumption == P \in Nat /\ P > 2

RECURSIVE Power(_, _)
Power(b, e) == IF e = 0 THEN 1
               ELSE LET h == Power((b * b) % P, e \div 2)
                    IN  IF e % 2 = 1 THEN (h * b) % P ELSE h
Inverse(a) == Power(a % P, P - 2)
Div(a, b) == ((a % P) * Inverse(b)) % P

FieldArray(n, f(_)) == Array(n, LAMBDA k : f(k) % P)

(* Sum of f(k) for k in from..to-1.                                          *)
RECURSIVE Sum(_, _, _)
Sum(f(_), from, to) == IF from >= to THEN 0 ELSE ((f(from) % P) + Sum(f, from + 1, to)) % P
=============================================================================

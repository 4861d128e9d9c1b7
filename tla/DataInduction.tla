----------------------------- MODULE DataInduction -----------------------------
(***************************************************************************)
(* What the proofs about loops and logs need of data: induction over the   *)
(* natural numbers without an operator parameter, from the                 *)
(* well-foundedness of their order, and logs that grow by one entry.       *)
(***************************************************************************)
EXTENDS WellFoundedInduction, Sequences, TLAPS

(* A set of natural numbers that has 0 and, with each, the next is all of  *)
(* them: what the loops of the code (over frames, streams, calls) need.    *)
LEMMA NatSetInduction ==
  ASSUME NEW T \in SUBSET Nat, 0 \in T, \A n \in Nat : n \in T => n + 1 \in T
  PROVE  T = Nat
<1> DEFINE R == OpToRel(<, Nat)
<1>1. IsWellFoundedOn(R, Nat)
  BY NatLessThanWellFounded
<1>2. SUFFICES ASSUME Nat \ T # {} PROVE FALSE
  OBVIOUS
<1>3. PICK x \in Nat \ T : \A y \in Nat \ T : ~(<<y, x>> \in R)
  <2> HIDE DEF R
  <2> QED
    BY <1>1, <1>2, WFMin
<1>4. x # 0 /\ x - 1 \in Nat \ T
  <2> HIDE DEF R
  <2>1. x # 0
    OBVIOUS
  <2>2. x - 1 \in Nat /\ (x - 1) + 1 = x
    BY <2>1
  <2> QED
    BY <2>2
<1>5. <<x - 1, x>> \in R
  BY <1>4 DEF OpToRel
<1> QED
  BY <1>3, <1>4, <1>5

(* A log is a sequence, whatever its entries are.                          *)
Elements(x) == {x[k] : k \in DOMAIN x}
Log(x) == x \in Seq(Elements(x))

(* What is appended to a log comes last and leaves the rest in place: the  *)
(* calls of a decoder, the frames of a packet.                             *)
LEMMA AppendLog ==
  ASSUME NEW x, NEW e, Log(x)
  PROVE  /\ Log(Append(x, e))
         /\ Len(Append(x, e)) = Len(x) + 1
         /\ Len(x) \in Nat
         /\ DOMAIN x = 1 .. Len(x)
         /\ DOMAIN Append(x, e) = 1 .. Len(x) + 1
         /\ \A k \in 1 .. Len(x) : Append(x, e)[k] = x[k]
         /\ Append(x, e)[Len(x) + 1] = e
<1>1. x \in Seq(Elements(x) \cup {e})
  BY DEF Log
<1>2. Append(x, e) \in Seq(Elements(x) \cup {e})
  BY <1>1
<1>3. Append(x, e) \in Seq(Elements(Append(x, e)))
  BY <1>2 DEF Elements
<1> QED
  BY <1>1, <1>2, <1>3 DEF Log
================================================================================

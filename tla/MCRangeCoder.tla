----------------------------- MODULE MCRangeCoder -----------------------------
(* Two-bit bytes and an eight-bit range register: carries, runs of held-back
   bytes and meetings of the two ends come within a few symbols.           *)
EXTENDS RangeCoder

MCIcdf == <<15, 7, 6, 0>>

MCOps ==
  [kind : {"bit"}, n : {2}, v : {0, 1}]
  \cup [kind : {"icdf"}, n : {4}, v : {0, 2, 3}]
  \cup {[kind |-> "uint", n |-> 6, v |-> v] : v \in {0, 3, 5}}
  \cup {[kind |-> "raw", n |-> 3, v |-> v] : v \in {5}}
  \cup {[kind |-> "flags", n |-> 2, v |-> 0]}
=============================================================================

------------------------------ MODULE BatchEncode ------------------------------
(***************************************************************************)
(* What parallel::encode_streams promises, whatever its threads do: the    *)
(* streams are encoded one at a time in some order, each exactly once, and *)
(* the call returns the packets of every stream, in the caller's order,    *)
(* each the stream's own serial encode; or it panics, which only a stream  *)
(* whose encoder cannot be created or fails makes it do.                   *)
(***************************************************************************)
EXTENDS Integers

CONSTANTS
  N,            \* number of streams
  Serial(_),    \* the serial encode of a stream
  NoResult

VARIABLES
  bad,          \* the streams whose encode panics
  done, result, outcome

vars == <<bad, done, result, outcome>>

Streams == 0 .. (N - 1)

Init ==
  /\ bad \in SUBSET Streams
  /\ done = {} /\ result = [i \in Streams |-> NoResult] /\ outcome = "running"

Encode(i) ==
  /\ outcome = "running" /\ i \notin done /\ i \notin bad
  /\ done' = done \cup {i}
  /\ UNCHANGED <<bad, result, outcome>>

Return ==
  /\ outcome = "running" /\ done = Streams
  /\ result' = [i \in Streams |-> Serial(i)]
  /\ outcome' = "returned"
  /\ UNCHANGED <<bad, done>>

Panic ==
  /\ outcome = "running" /\ bad # {}
  /\ outcome' = "panicked"
  /\ UNCHANGED <<bad, done, result>>

Next == (\E i \in Streams : Encode(i)) \/ Return \/ Panic

Spec == Init /\ [][Next]_vars /\ WF_vars(Next)
=============================================================================

------------------------------ MODULE MCEncoding ------------------------------
(***************************************************************************)
(* The encoder for TLC.  A program encodes one stream in chunks and, when  *)
(* that call is back, many streams, or does so in the shortest way and     *)
(* then makes a stream of encode calls.  What the second call does has     *)
(* nothing to do with the first, so it is followed through all its         *)
(* interleavings only after a call that comes back at once.                *)
(***************************************************************************)
EXTENDS MCOpusControl, EncodeStreams, EncodeParallel

(* Small calls: serial fallbacks, uneven ranges, no warm-up, all cores. *)
SmallCalls ==
  [total : {0}, warmup : {0}, threads : {3}]
  \cup [total : {1, 5}, warmup : {0}, threads : {1, 3}]
  \cup [total : {4, 7, 8}, warmup : {1}, threads : {0, 2}]
  \cup [total : {13}, warmup : {1}, threads : {3}]
  \cup [total : {17}, warmup : {2}, threads : {2, 4}]

ProgramInit ==
  /\ ChunksInit /\ Init
  /\ request.total > 0 => phase = "serial" /\ bad = {}

ChunkCall(A) == stage # "returned" /\ A /\ UNCHANGED vars
StreamCall(A) == stage = "returned" /\ A /\ UNCHANGED chunk_vars
program_vars == <<vars, chunk_vars>>

ProgramNext == ChunkCall(ChunksNext) \/ StreamCall(Next)

encoding_vars == <<control_vars, program_vars>>

NoStreamCoded ==
  /\ stream = [fs |-> 0] /\ enc = [prev |-> "none"] /\ call = NoCall
  /\ packet = [half |-> 0, bitrate |-> 0, frames |-> <<>>, limit |-> FB]
  /\ gap = 0 /\ quiet = 0

Shortest == request.total = 0 /\ bad = {} /\ phase = "serial"

EncodingInit ==
  /\ ProgramInit
  /\ NoStreamCoded \/ (ControlInit /\ Shortest)

Program(A) == A /\ UNCHANGED control_vars
Control == stream.fs # 0 /\ phase = "returned" /\ ControlNext /\ UNCHANGED program_vars

EncodingNext == Program(ProgramNext) \/ Control

(* The threads of whichever call is running are scheduled. *)
EncodingSpec ==
  /\ EncodingInit /\ [][EncodingNext]_encoding_vars
  /\ WF_encoding_vars(Program(ChunkCall(ChunksNext)))
  /\ WF_encoding_vars(Program(StreamCall(Caller)))
  /\ \A w \in Workers : WF_encoding_vars(Program(StreamCall(Worker(w))))

(* The program's two calls come back, the second with the packets or with  *)
(* a panic.                                                                *)
CallsReturn == Returns /\ Terminates
================================================================================

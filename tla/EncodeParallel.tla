---------------------------- MODULE EncodeParallel ----------------------------
(***************************************************************************)
(* parallel::encode_parallel (src/src/parallel.rs): one PCM stream is cut  *)
(* into contiguous ranges of frames, one per scoped thread; each thread    *)
(* primes an encoder of its own on the frames before its range, discards   *)
(* their packets, and the caller joins the threads in range order.  With   *)
(* one worker the caller runs encode_serial, which is the single range     *)
(* that needs no priming.                                                  *)
(***************************************************************************)
EXTENDS Integers, Sequences

CONSTANTS
  Requests,   \* the calls to consider: records [total, warmup, threads]
  Processors  \* available_parallelism

ASSUME RequestsAssumption ==
  /\ Requests \subseteq [total : Nat, warmup : Nat, threads : Nat]
  /\ Processors \in Nat \ {0}

VARIABLES
  request,    \* this call's frames, warm-up and requested threads
  stage,      \* the caller: "plan", "run", "join" or "returned"
  start,      \* where the next range starts
  ranges,     \* the planned ranges, as <<cstart, cend>>
  frame,      \* per worker: the frame it encodes next
  packets,    \* per worker: the packets it keeps
  joined,     \* how many workers the caller has joined
  joined_out  \* the packets the call returns

chunk_vars == <<request, stage, start, ranges, frame, packets, joined, joined_out>>

LesserOf(a, b) == IF a <= b THEN a ELSE b
GreaterOf(a, b) == IF a >= b THEN a ELSE b

Threads == IF request.threads = 0 THEN Processors ELSE request.threads
min_chunk == GreaterOf(4 * request.warmup, 1)
n_workers == LesserOf(GreaterOf(Threads, 1), GreaterOf(request.total \div min_chunk, 1))
base == request.total \div n_workers
rem == request.total % n_workers

ChunksInit ==
  /\ request \in Requests
  /\ stage = IF request.total = 0 THEN "returned" ELSE "plan"
  /\ start = 0 /\ ranges = <<>>
  /\ frame = <<>> /\ packets = <<>>
  /\ joined = 0 /\ joined_out = <<>>

(* Slip: the remainder is dropped. *)
PlanRangeFloor ==
  /\ stage = "plan" /\ Len(ranges) < n_workers
  /\ ranges' = Append(ranges, <<start, start + base>>)
  /\ start' = start + base
  /\ UNCHANGED <<request, stage, frame, packets, joined, joined_out>>

(* One turn of the loop over 0..n_workers; Len(ranges) is its counter. *)
PlanRange ==
  /\ stage = "plan" /\ Len(ranges) < n_workers
  /\ LET len == base + (IF Len(ranges) < rem THEN 1 ELSE 0)
     IN  /\ ranges' = Append(ranges, <<start, start + len>>)
         /\ start' = start + len
  /\ UNCHANGED <<request, stage, frame, packets, joined, joined_out>>

WarmStart(cstart) == GreaterOf(cstart - request.warmup, 0)

(* scope.spawn of every range: each worker creates a fresh encoder. *)
Spawn ==
  /\ stage = "plan" /\ Len(ranges) = n_workers
  /\ stage' = "run"
  /\ frame' = [w \in 1 .. n_workers |-> WarmStart(ranges[w][1])]
  /\ packets' = [w \in 1 .. n_workers |-> <<>>]
  /\ UNCHANGED <<request, start, ranges, joined, joined_out>>

(* A packet: its frame, and the first frame its encoder has seen. *)
Packet(f, since) == [frame |-> f, since |-> since]

(* encode_chunk: one frame; the packets of the warm-up are dropped. *)
EncodeFrame(w) ==
  /\ stage \in {"run", "join"}
  /\ frame[w] < ranges[w][2]
  /\ frame' = [frame EXCEPT ![w] = frame[w] + 1]
  /\ packets' = IF frame[w] < ranges[w][1] THEN packets
                ELSE [packets EXCEPT
                        ![w] = Append(packets[w], Packet(frame[w], WarmStart(ranges[w][1])))]
  /\ UNCHANGED <<request, stage, start, ranges, joined, joined_out>>

(* Slip: the handle waited for is the one after the next. *)
JoinNextLate ==
  /\ stage \in {"run", "join"} /\ joined < n_workers
  /\ joined + 1 < n_workers
  /\ frame[joined + 1] = ranges[joined + 1][2]
  /\ stage' = "join"
  /\ joined' = joined + 1
  /\ joined_out' = joined_out \o packets[joined + 1]
  /\ UNCHANGED <<request, start, ranges, frame, packets>>

(* h.join() in the order of the ranges, then the chunks are concatenated. *)
JoinNext ==
  /\ stage \in {"run", "join"} /\ joined < n_workers
  /\ frame[joined + 1] = ranges[joined + 1][2]
  /\ stage' = "join"
  /\ joined' = joined + 1
  /\ joined_out' = joined_out \o packets[joined + 1]
  /\ UNCHANGED <<request, start, ranges, frame, packets>>

Return ==
  /\ stage = "join" /\ joined = n_workers
  /\ stage' = "returned"
  /\ UNCHANGED <<request, start, ranges, frame, packets, joined, joined_out>>

Running == IF stage \in {"run", "join"} THEN 1 .. n_workers ELSE {}

ChunksNext ==
  \/ PlanRange
  \/ Spawn
  \/ \E w \in Running : EncodeFrame(w)
  \/ JoinNext
  \/ Return

(* Every thread is scheduled: whichever step can be taken eventually is. *)
ChunksSpec == ChunksInit /\ [][ChunksNext]_chunk_vars /\ WF_chunk_vars(ChunksNext)
-------------------------------------------------------------------------------
(* The planned ranges are disjoint, adjacent and balanced, cover exactly the
   frames once the plan is complete, and with more than one worker each is at
   least four warm-ups long, as the comment at parallel.rs:100 requires. *)
RangesPartition ==
  /\ \A w \in 1 .. Len(ranges) :
       /\ ranges[w][1] < ranges[w][2]
       /\ ranges[w][1] = IF w = 1 THEN 0 ELSE ranges[w - 1][2]
       /\ n_workers > 1 => ranges[w][2] - ranges[w][1] >= 4 * request.warmup
  /\ Len(ranges) = n_workers => ranges[n_workers][2] = request.total

(* The workers' ranges fit, and the call returns one packet per frame, in
   order, however the threads interleaved, each from an encoder primed with at least `warmup` frames of
   history (or the whole history, near the start of the stream). *)
OutputComplete ==
  /\ RangesPartition
  /\ stage = "returned" =>
       /\ Len(joined_out) = request.total
       /\ \A i \in 1 .. Len(joined_out) :
            /\ joined_out[i].frame = i - 1
            /\ joined_out[i].since <= GreaterOf(i - 1 - request.warmup, 0)

(* The call returns. *)
Returns == <>(stage = "returned")
=============================================================================

----------------------------- MODULE EncodingProofs -----------------------------
(***************************************************************************)
(* Proofs about what an encoder decides and how encoders share the work.   *)
(* The two parallel encoders of src/src/parallel.rs: encode_streams for    *)
(* every number of streams and of threads, encode_parallel for every       *)
(* request, in every order of the workers' steps; the ring of analyses;    *)
(* and the choice of mode, bandwidth and pauses for every packet.          *)
(***************************************************************************)
EXTENDS EncodeStreams, EncodeParallel, AnalysisRing, OpusControl, SequenceTheorems, DataInduction, TLAPS

(***************************************************************************)
(* encode_streams.  The invariant says what the pool has claimed, made and *)
(* stored, and that its steps refine an encoder of all streams at once.    *)
(***************************************************************************)
(* What the pool keeps true between its steps, beyond the checked
   invariants: a worker exits only when the streams have run out, dies only
   of a bad stream; before the join nothing is returned; outside the pool
   no worker is under way. *)
PoolInv ==
  /\ \A w \in Workers : pc[w] = "exited" => next >= N
  /\ \A w \in Workers : pc[w] = "died" => idx[w] \in bad
  /\ \A w \in Workers : pc[w] = "store" => idx[w] \notin bad
  /\ \A i \in Streams : slots[i] # Nothing => slots[i] = i /\ i \notin bad /\ i < next
  /\ phase = "spawned" => out = Empty /\ WorkerTotal >= 2
  /\ phase # "spawned" => \A w \in Workers : pc[w] \in {"claim", "exited", "died"}
  /\ phase = "serial" =>
       /\ next <= N /\ slots = Empty /\ \A w \in Workers : pc[w] = "claim"
       /\ \A i \in Streams : IF i < next THEN out[i] = i /\ i \notin bad ELSE out[i] = Nothing

IInv == TypeOK /\ NoDoubleWork /\ NoneLost /\ ReturnsAll /\ PanicIffBad /\ PoolInv

LEMMA Constants ==
  /\ N \in Nat /\ Nothing \notin Streams /\ NoStream \notin Streams
  /\ WorkerTotal \in Nat /\ Workers \subseteq Nat \ {0}
  BY PoolAssumption DEF PoolAssumption, Streams, WorkerTotal, Workers, worker_count, Smaller, Larger

LEMMA InitIInv == Init => IInv
  BY Constants
  DEF Init, IInv, TypeOK, NoDoubleWork, NoneLost, ReturnsAll, PanicIffBad, PoolInv, Holds,
      Empty, Streams, Serial, Workers

LEMMA ClaimStep == ASSUME IInv, NEW w \in Workers, Claim(w) PROVE IInv'
  <1> USE Constants DEF IInv, TypeOK, Claim, Streams, Holds, Serial
  <1>1. TypeOK'
    <2>1. /\ bad' \subseteq Streams
          /\ phase' \in {"spawned", "serial", "returned", "panicked"}
          /\ next' \in Nat
          /\ slots' \in [Streams -> Streams \cup {Nothing}]
          /\ out' \in [Streams -> Streams \cup {Nothing}]
      OBVIOUS
    <2>2. CASE next < N
      <3>1. next \in Streams
        BY <2>2
      <3>2. /\ pc' \in [Workers -> {"claim", "encode", "store", "exited", "died"}]
            /\ idx' \in [Workers -> Streams \cup {NoStream}]
        BY <2>2, <3>1
      <3>3. \A v \in Workers : pc'[v] \in {"encode", "store", "died"} => idx'[v] \in Streams
        BY <2>2, <3>1
      <3> QED BY <2>1, <3>2, <3>3
    <2>3. CASE ~(next < N)
      <3>1. /\ pc' \in [Workers -> {"claim", "encode", "store", "exited", "died"}]
            /\ idx' \in [Workers -> Streams \cup {NoStream}]
        BY <2>3
      <3>2. \A v \in Workers : pc'[v] \in {"encode", "store", "died"} => idx'[v] \in Streams
        BY <2>3
      <3> QED BY <2>1, <3>1, <3>2
    <2> QED BY <2>2, <2>3
  <1>2. NoDoubleWork'
    <2>1. \A v \in Workers : \A i \in Streams :
            Holds(v, i)' => Holds(v, i) \/ (v = w /\ i = next)
      OBVIOUS
    <2>2. \A i \in Streams : slots[i] # Nothing => i < next
      BY DEF PoolInv
    <2>3. \A v \in Workers : \A i \in Streams : Holds(v, i) => slots[i] = Nothing /\ i < next
      BY DEF NoDoubleWork
    <2>4. \A v \in Workers : \A i \in Streams : Holds(v, i)' => slots'[i] = Nothing /\ i < next'
      BY <2>1, <2>2, <2>3
    <2>5. \A u, v \in Workers : \A i \in Streams : Holds(u, i)' /\ Holds(v, i)' => u = v
      BY <2>1, <2>3 DEF NoDoubleWork
    <2> QED BY <2>4, <2>5 DEF NoDoubleWork
  <1>3. NoneLost'
    BY DEF NoneLost
  <1>4. ReturnsAll' /\ PanicIffBad'
    BY DEF ReturnsAll, PanicIffBad
  <1>5. PoolInv'
    BY DEF PoolInv
  <1> QED BY <1>1, <1>2, <1>3, <1>4, <1>5

LEMMA EncodeStep == ASSUME IInv, NEW w \in Workers, Encode(w) PROVE IInv'
  <1> USE Constants DEF IInv, TypeOK, Encode, Streams, Holds, Serial
  <1>1. TypeOK'
    OBVIOUS
  <1>2. NoDoubleWork'
    BY DEF NoDoubleWork
  <1>3. NoneLost'
    BY DEF NoneLost
  <1>4. ReturnsAll' /\ PanicIffBad'
    BY DEF ReturnsAll, PanicIffBad
  <1>5. PoolInv'
    BY DEF PoolInv
  <1> QED BY <1>1, <1>2, <1>3, <1>4, <1>5

LEMMA StoreStep == ASSUME IInv, NEW w \in Workers, Store(w) PROVE IInv'
  <1> USE Constants DEF IInv, TypeOK, Store, Streams, Holds, Serial
  <1>1. TypeOK'
    OBVIOUS
  <1>2. NoDoubleWork'
    BY DEF NoDoubleWork
  <1>3. NoneLost'
    BY DEF NoneLost
  <1>4. ReturnsAll' /\ PanicIffBad'
    BY DEF ReturnsAll, PanicIffBad
  <1>5. PoolInv'
    <2>1. phase = "spawned" /\ idx[w] \in Streams \ bad /\ idx[w] < next
      BY DEF PoolInv, NoDoubleWork
    <2>2. \A i \in Streams : slots'[i] # Nothing => slots'[i] = i /\ i \notin bad /\ i < next
      BY <2>1 DEF PoolInv
    <2>3. \A v \in Workers \ {w} : pc'[v] = pc[v] /\ idx'[v] = idx[v]
      OBVIOUS
    <2>4. pc'[w] = "claim"
      OBVIOUS
    <2> QED BY <2>1, <2>2, <2>3, <2>4 DEF PoolInv
  <1> QED BY <1>1, <1>2, <1>3, <1>4, <1>5

LEMMA CallerStep == ASSUME IInv, Caller PROVE IInv'
  <1> USE Constants
      DEF IInv, TypeOK, Streams, Holds, Serial, NoDoubleWork, NoneLost, ReturnsAll,
          PanicIffBad, PoolInv, Empty
  <1>1. CASE Join
    BY <1>1 DEF Join, Joined, Workers
  <1>2. CASE SerialStep
    BY <1>2 DEF SerialStep
  <1>3. CASE SerialReturn
    BY <1>3 DEF SerialReturn
  <1> QED BY <1>1, <1>2, <1>3 DEF Caller

LEMMA StepIInv == IInv /\ [Next]_vars => IInv'
  <1> SUFFICES ASSUME IInv, [Next]_vars PROVE IInv'
    OBVIOUS
  <1>1. CASE Caller
    BY <1>1, CallerStep
  <1>2. ASSUME NEW w \in Workers, Worker(w) PROVE IInv'
    BY <1>2, ClaimStep, EncodeStep, StoreStep DEF Worker
  <1>3. CASE UNCHANGED vars
    BY <1>3 DEF vars, IInv, TypeOK, NoDoubleWork, NoneLost, ReturnsAll, PanicIffBad, PoolInv,
               Holds
  <1> QED BY <1>1, <1>2, <1>3 DEF Next

LEMMA Inductive == Spec => []IInv
  <1>1. Init => IInv
    BY InitIInv
  <1>2. IInv /\ [Next]_vars => IInv'
    BY StepIInv
  <1> QED BY <1>1, <1>2, PTL DEF Spec

(* Type correctness of the pool. *)
THEOREM TypeCorrect == Spec => []TypeOK
  BY Inductive, PTL DEF IInv

(* Two workers never encode the same stream, whatever the interleaving of
   their claims, and no finished stream is encoded again. *)
THEOREM WorkersApart == Spec => []NoDoubleWork
  BY Inductive, PTL DEF IInv

(* encode_streams returns only with every stream's own packets. *)
THEOREM ResultsComplete == Spec => []ReturnsAll
  BY Inductive, PTL DEF IInv

(* The call panics exactly because of a stream that cannot be encoded. *)
THEOREM PanicsOnlyWhenBad == Spec => []PanicIffBad
  BY Inductive, PTL DEF IInv
-------------------------------------------------------------------------------
LEMMA InitRefines == Init => Batch!Init
  BY Constants DEF Init, Batch!Init, Batch!Streams, Streams, Empty

LEMMA StepRefines == IInv /\ IInv' /\ [Next]_vars => [Batch!Next]_(Batch!vars)
  <1> SUFFICES ASSUME IInv, IInv', [Next]_vars PROVE [Batch!Next]_(Batch!vars)
    OBVIOUS
  <1> USE Constants DEF Batch!vars, Batch!Streams, Streams, Serial, Empty
  <1>1. ASSUME NEW w \in Workers, Claim(w) PROVE UNCHANGED Batch!vars
    BY <1>1 DEF Claim
  <1>2. ASSUME NEW w \in Workers, Encode(w) PROVE UNCHANGED Batch!vars
    BY <1>2 DEF Encode
  <1>3. ASSUME NEW w \in Workers, Store(w) PROVE Batch!Next
    <2>1. phase = "spawned" /\ pc[w] = "store"
      BY <1>3 DEF Store, IInv, PoolInv
    <2>2. idx[w] \in Streams \ bad /\ slots[idx[w]] = Nothing /\ out = Empty
      BY <2>1 DEF IInv, TypeOK, PoolInv, NoDoubleWork, Holds
    <2> QED BY <1>3, <2>1, <2>2 DEF Store, Batch!Next, Batch!Encode, IInv, TypeOK
  <1>4. CASE Join
    <2>1. CASE \E w \in Workers : pc[w] = "died"
      <3>1. phase' = "panicked" /\ bad # {} /\ UNCHANGED <<bad, slots, out>>
        BY <1>4, <2>1 DEF Join, IInv, PoolInv
      <3>2. Batch!Panic
        BY <1>4, <3>1 DEF Join, Batch!Panic
      <3> QED BY <3>2 DEF Batch!Next
    <2>2. CASE ~ \E w \in Workers : pc[w] = "died"
      <3>1. phase' = "returned" /\ out' = slots /\ \A i \in Streams : slots[i] = i
        BY <1>4, <2>2 DEF Join, IInv, ReturnsAll, TypeOK
      <3>2. Batch!Return
        BY <1>4, <3>1 DEF Join, Batch!Return, IInv, TypeOK
      <3> QED BY <3>2 DEF Batch!Next
    <2> QED BY <2>1, <2>2 DEF Batch!Next
  <1>5. CASE SerialStep
    <2>1. CASE next \in bad
      <3>1. Batch!Panic
        BY <1>5, <2>1 DEF SerialStep, Batch!Panic
      <3> QED BY <3>1 DEF Batch!Next
    <2>2. CASE next \notin bad
      <3>1. next \in Streams /\ out[next] = Nothing /\ slots = Empty /\ phase = "serial"
        BY <1>5 DEF SerialStep, IInv, TypeOK, PoolInv
      <3> QED BY <1>5, <2>2, <3>1 DEF SerialStep, Batch!Next, Batch!Encode, IInv, TypeOK
    <2> QED BY <2>1, <2>2
  <1>6. CASE SerialReturn
    <2>1. \A i \in Streams : out[i] = i
      BY <1>6 DEF SerialReturn, IInv, TypeOK, PoolInv
    <2>2. Batch!Return
      BY <1>6, <2>1 DEF SerialReturn, Batch!Return, IInv, TypeOK
    <2> QED BY <2>2 DEF Batch!Next
  <1>7. CASE UNCHANGED vars
    BY <1>7 DEF vars
  <1> QED BY <1>1, <1>2, <1>3, <1>4, <1>5, <1>6, <1>7 DEF Next, Caller, Worker

(* Every behaviour of the pool is one of the batch: streams finish one by
   one, each once, and the result is that of encoding them serially. *)
THEOREM PoolImplementsBatch == Spec => Batch!Init /\ [][Batch!Next]_(Batch!vars)
  <1>1. Init => Batch!Init
    BY InitRefines
  <1>2. IInv /\ IInv' /\ [Next]_vars => [Batch!Next]_(Batch!vars)
    BY StepRefines
  <1> QED BY <1>1, <1>2, Inductive, PTL DEF Spec

(***************************************************************************)
(* encode_parallel.  The invariant says where each range starts, and what  *)
(* each worker and the caller hold in terms of how far they are.           *)
(***************************************************************************)
(* Where range w + 1 starts: the first rem ranges are one frame longer.    *)
starts == [w \in 0 .. n_workers |-> w * base + LesserOf(w, rem)]

(* Division.                                                               *)
LEMMA Quotient ==
  ASSUME NEW a \in Nat, NEW n \in Nat \ {0}
  PROVE  /\ a \div n \in Nat /\ (a % n) \in 0 .. (n - 1)
         /\ a = n * (a \div n) + (a % n)
  BY SMT

(* A packet more.                                                          *)
LEMMA Appended ==
  ASSUME NEW S, NEW q \in Seq(S), NEW x \in S
  PROVE  /\ Append(q, x) \in Seq(S) /\ Len(Append(q, x)) = Len(q) + 1
         /\ \A i \in 1 .. Len(q) : Append(q, x)[i] = q[i]
         /\ Append(q, x)[Len(q) + 1] = x
  BY SMT

(* As many of b as fit into a: a share of a is at least b.                 *)
LEMMA Share ==
  ASSUME NEW a \in Nat, NEW b \in Nat \ {0}, NEW n \in Nat \ {0}, n <= a \div b
  PROVE  a \div n >= b
<1>1. a >= b * (a \div b) /\ a \div b \in Nat
  BY Quotient
<1>2. b * n <= b * (a \div b)
  BY <1>1, SMT
<1>3. b * n <= a
  BY <1>1, <1>2, SMT
<1>4. SUFFICES ASSUME a \div n < b PROVE FALSE
  BY Quotient, SMT
<1>5. PICK q \in Nat, r \in 0 .. n - 1 : q = a \div n /\ r = a % n /\ a = n * q + r
  BY Quotient
<1>6. n * (q + 1) <= n * b
  BY <1>4, <1>5, SMT
<1> QED
  BY <1>3, <1>5, <1>6, SMT

(* What the plan is made of.                                               *)
LEMMA PlanFacts ==
  ASSUME request \in [total : Nat, warmup : Nat, threads : Nat], request.total > 0
  PROVE  /\ n_workers \in Nat \ {0} /\ base \in Nat \ {0} /\ rem \in 0 .. (n_workers - 1)
         /\ request.total = n_workers * base + rem
         /\ n_workers > 1 => base >= 4 * request.warmup
<1> DEFINE t == request.total
<1>1. t \in Nat \ {0} /\ request.warmup \in Nat /\ request.threads \in Nat
  OBVIOUS
<1>2. min_chunk \in Nat \ {0} /\ min_chunk >= 4 * request.warmup
  BY <1>1, SMT DEF min_chunk, GreaterOf
<1>3. t \div min_chunk \in Nat
  BY <1>1, <1>2, Quotient
<1>4. Threads \in Nat
  BY <1>1, RequestsAssumption, SMT DEF Threads
<1>5. n_workers \in Nat \ {0} /\ (n_workers > 1 => n_workers <= t \div min_chunk)
  BY <1>3, <1>4, SMT DEF n_workers, LesserOf, GreaterOf
<1>6. base \in Nat /\ rem \in 0 .. (n_workers - 1) /\ t = n_workers * base + rem
  BY <1>1, <1>5, Quotient DEF base, rem
<1>7. CASE n_workers = 1
  BY <1>1, <1>5, <1>6, <1>7, SMT
<1>8. CASE n_workers > 1
  <2>1. base >= min_chunk
    BY <1>1, <1>2, <1>5, <1>8, Share DEF base
  <2> QED
    BY <2>1, <1>1, <1>2, <1>5, <1>6, SMT
<1> QED
  BY <1>5, <1>7, <1>8, SMT

(* The ranges start at 0, end with the last frame and follow one another.  *)
LEMMA StartsFacts ==
  ASSUME request \in [total : Nat, warmup : Nat, threads : Nat], request.total > 0
  PROVE  /\ starts \in [0 .. n_workers -> Nat]
         /\ starts[0] = 0 /\ starts[n_workers] = request.total
         /\ \A w \in 0 .. (n_workers - 1) :
              /\ starts[w + 1] = starts[w] + (base + (IF w < rem THEN 1 ELSE 0))
              /\ starts[w] < starts[w + 1]
              /\ n_workers > 1 => starts[w + 1] - starts[w] >= 4 * request.warmup
<1>1. /\ n_workers \in Nat \ {0} /\ base \in Nat \ {0} /\ rem \in 0 .. (n_workers - 1)
      /\ request.total = n_workers * base + rem
      /\ n_workers > 1 => base >= 4 * request.warmup
  BY PlanFacts
<1>2. \A w \in 0 .. n_workers : starts[w] = w * base + LesserOf(w, rem)
  BY DEF starts
<1>3. \A w \in 0 .. n_workers : w * base \in Nat /\ LesserOf(w, rem) \in Nat
  BY <1>1, SMT DEF LesserOf
<1>4. starts \in [0 .. n_workers -> Nat]
  BY <1>1, <1>3, SMT DEF starts
<1>5. starts[0] = 0 /\ starts[n_workers] = request.total
  BY <1>1, <1>2, SMT DEF LesserOf
<1>6. ASSUME NEW w \in 0 .. (n_workers - 1)
      PROVE  starts[w + 1] = starts[w] + (base + (IF w < rem THEN 1 ELSE 0))
  <2>1. (w + 1) * base = w * base + base
    BY <1>1, SMT
  <2>2. LesserOf(w + 1, rem) = LesserOf(w, rem) + (IF w < rem THEN 1 ELSE 0)
    BY <1>1, SMT DEF LesserOf
  <2> QED
    BY <1>1, <1>2, <1>3, <2>1, <2>2, SMT
<1>7. ASSUME NEW w \in 0 .. (n_workers - 1)
      PROVE  /\ starts[w] < starts[w + 1]
             /\ n_workers > 1 => starts[w + 1] - starts[w] >= 4 * request.warmup
  <2>1. PICK s \in Nat, t \in Nat, b \in Nat : s = starts[w] /\ t = starts[w + 1] /\ b = base /\ b > 0
    BY <1>1, <1>4, SMT
  <2>2. t = s + b \/ t = s + (b + 1)
    BY <1>6, <2>1, SMT
  <2>3. request.warmup \in Nat
    OBVIOUS
  <2> QED
    BY <1>1, <2>1, <2>2, <2>3, SMT
<1> QED
  BY <1>4, <1>5, <1>6, <1>7

(* The ranges planned so far, and the next start.                          *)
Planned ==
  /\ start \in Nat
  /\ ranges \in Seq(Nat \X Nat)
  /\ request.total > 0 =>
       /\ Len(ranges) <= n_workers
       /\ start = starts[Len(ranges)]
       /\ \A w \in 1 .. Len(ranges) : ranges[w] = <<starts[w - 1], starts[w]>>
  /\ request.total = 0 => ranges = <<>>

(* Each worker is somewhere in its warm-up or its range, and keeps the     *)
(* packets of its range up to there.                                       *)
WorkersKeep ==
  stage # "plan" /\ request.total > 0 =>
    /\ Len(ranges) = n_workers
    /\ frame \in [1 .. n_workers -> Nat]
    /\ packets \in [1 .. n_workers -> Seq([frame : Nat, since : Nat])]
    /\ \A w \in 1 .. n_workers :
         /\ frame[w] <= starts[w]
         /\ Len(packets[w]) = GreaterOf(frame[w] - starts[w - 1], 0)
         /\ \A i \in 1 .. Len(packets[w]) :
              packets[w][i] = Packet(starts[w - 1] + (i - 1), WarmStart(starts[w - 1]))

(* The caller has the packets of the workers joined so far, one a frame.   *)
CallerHolds ==
  /\ joined \in Nat
  /\ joined_out \in Seq([frame : Nat, since : Nat])
  /\ stage = "plan" => joined = 0
  /\ request.total = 0 => joined_out = <<>>
  /\ request.total > 0 =>
       /\ joined <= n_workers
       /\ stage = "returned" => joined = n_workers
       /\ Len(joined_out) = starts[joined]
       /\ \A i \in 1 .. Len(joined_out) :
            /\ joined_out[i].frame = i - 1
            /\ joined_out[i].since <= GreaterOf(i - 1 - request.warmup, 0)

ChunksTypeOK ==
  /\ request \in [total : Nat, warmup : Nat, threads : Nat]
  /\ stage \in {"plan", "run", "join", "returned"}
  /\ request.total = 0 => stage = "returned"

ChunksInv == ChunksTypeOK /\ Planned /\ WorkersKeep /\ CallerHolds

LEMMA InitHolds == ChunksInit => ChunksInv
<1> SUFFICES ASSUME ChunksInit PROVE ChunksInv
  OBVIOUS
<1>1. request \in [total : Nat, warmup : Nat, threads : Nat] /\ request.total \in Nat
  BY RequestsAssumption DEF ChunksInit
<1>2. request.total > 0 => n_workers \in Nat \ {0} /\ starts[0] = 0
  BY <1>1, PlanFacts, StartsFacts
<1>3. ChunksTypeOK
  BY <1>1, SMT DEF ChunksInit, ChunksTypeOK
<1>4. Planned
  BY <1>1, <1>2, SMT DEF ChunksInit, Planned
<1>5. WorkersKeep
  BY <1>1, SMT DEF ChunksInit, WorkersKeep
<1>6. CallerHolds
  BY <1>1, <1>2, SMT DEF ChunksInit, CallerHolds
<1> QED
  BY <1>3, <1>4, <1>5, <1>6 DEF ChunksInv

(* The plan depends on the request alone, which no step changes.           *)
LEMMA PlanKept ==
  ASSUME request' = request
  PROVE  n_workers' = n_workers /\ base' = base /\ rem' = rem /\ starts' = starts
  BY DEF n_workers, base, rem, starts, Threads, min_chunk

(* Nothing joined, nothing changed for the caller.                         *)
LEMMA CallerKept ==
  ASSUME CallerHolds, UNCHANGED <<request, joined, joined_out>>,
         stage' = "plan" => stage = "plan",
         stage' = "returned" => stage = "returned" \/ joined = n_workers
  PROVE  CallerHolds'
<1>1. n_workers' = n_workers /\ starts' = starts
  BY PlanKept
<1> QED
  BY <1>1, Zenon DEF CallerHolds

LEMMA PlanRangeStep ==
  ASSUME ChunksInv, PlanRange
  PROVE  ChunksInv'
<1> USE DEF ChunksInv, ChunksTypeOK
<1>1. request' = request /\ stage' = stage /\ stage = "plan" /\ request.total > 0
  BY SMT DEF PlanRange
<1>2. n_workers' = n_workers /\ starts' = starts
  BY <1>1, PlanKept
<1>3. /\ n_workers \in Nat \ {0} /\ starts \in [0 .. n_workers -> Nat]
      /\ \A w \in 0 .. (n_workers - 1) : starts[w + 1] = starts[w] + (base + (IF w < rem THEN 1 ELSE 0))
  BY <1>1, PlanFacts, StartsFacts
<1>4. PICK k \in Nat : k = Len(ranges) /\ k < n_workers
  BY SMT DEF PlanRange, Planned
<1>5. PICK s \in Nat, t \in Nat : s = starts[k] /\ t = starts[k + 1] /\ t = s + (base + (IF k < rem THEN 1 ELSE 0))
  <2>1. k \in 0 .. (n_workers - 1) /\ k \in 0 .. n_workers /\ k + 1 \in 0 .. n_workers
    BY <1>3, <1>4, SMT
  <2>2. starts[k] \in Nat /\ starts[k + 1] \in Nat
    BY <1>3, <2>1
  <2> QED
    BY <1>3, <2>1, <2>2
<1>6. start = s /\ start' = t /\ ranges' = Append(ranges, <<s, t>>)
  BY <1>1, <1>4, <1>5, SMT DEF PlanRange, Planned
<1>7. PICK planned \in Seq(Nat \X Nat) :
        /\ planned = Append(ranges, <<s, t>>) /\ Len(planned) = k + 1
        /\ \A w \in 1 .. k : planned[w] = ranges[w]
        /\ planned[k + 1] = <<s, t>>
  <2>1. ranges \in Seq(Nat \X Nat) /\ <<s, t>> \in Nat \X Nat
    BY DEF Planned
  <2>2. /\ Append(ranges, <<s, t>>) \in Seq(Nat \X Nat)
        /\ Len(Append(ranges, <<s, t>>)) = Len(ranges) + 1
        /\ \A i \in 1 .. Len(ranges) : Append(ranges, <<s, t>>)[i] = ranges[i]
        /\ Append(ranges, <<s, t>>)[Len(ranges) + 1] = <<s, t>>
    BY <2>1, Appended
  <2> QED
    BY <1>4, <2>2, Zenon
<1>8. \A w \in 1 .. Len(planned) : planned[w] = <<starts[w - 1], starts[w]>>
  <2> SUFFICES ASSUME NEW w \in 1 .. k + 1 PROVE planned[w] = <<starts[w - 1], starts[w]>>
    BY <1>7
  <2>1. CASE w = k + 1
    <3>1. w - 1 = k
      BY <2>1, SMT
    <3> QED
      BY <1>5, <1>7, <2>1, <3>1
  <2>2. CASE w \in 1 .. k
    BY <1>1, <1>4, <1>7, <2>2, SMT DEF Planned
  <2> QED
    BY <2>1, <2>2, <1>4, SMT
<1>9. Len(planned) <= n_workers /\ t = starts[Len(planned)]
  <2>1. k + 1 <= n_workers
    BY <1>3, <1>4, SMT
  <2> QED
    BY <1>5, <1>7, <2>1, Zenon
<1>10. Planned'
  <2>1. ranges' = planned /\ start' = t
    BY <1>6, <1>7
  <2> QED
    BY <1>1, <1>2, <1>8, <1>9, <2>1, Zenon DEF Planned
<1>11. WorkersKeep'
  BY <1>1, SMT DEF WorkersKeep
<1>12. CallerHolds'
  BY <1>1, CallerKept DEF PlanRange
<1> QED
  BY <1>1, <1>10, <1>11, <1>12, SMT DEF PlanRange

LEMMA SpawnStep ==
  ASSUME ChunksInv, Spawn
  PROVE  ChunksInv'
<1> USE DEF ChunksInv, ChunksTypeOK
<1>1. request' = request /\ stage = "plan" /\ stage' = "run" /\ request.total > 0 /\ ranges' = ranges
  BY SMT DEF Spawn
<1>2. n_workers' = n_workers /\ starts' = starts
  BY <1>1, PlanKept
<1>3. /\ n_workers \in Nat \ {0} /\ starts \in [0 .. n_workers -> Nat]
      /\ \A w \in 0 .. (n_workers - 1) : starts[w] < starts[w + 1]
  BY <1>1, PlanFacts, StartsFacts
<1>4. Len(ranges) = n_workers /\ \A w \in 1 .. n_workers : ranges[w] = <<starts[w - 1], starts[w]>>
  BY <1>1, SMT DEF Spawn, Planned
<1>5. \A w \in 1 .. n_workers :
        /\ starts[w - 1] \in Nat /\ starts[w] \in Nat /\ starts[w - 1] < starts[w]
        /\ WarmStart(ranges[w][1]) \in Nat /\ WarmStart(ranges[w][1]) <= starts[w - 1]
  <2> SUFFICES ASSUME NEW w \in 1 .. n_workers
               PROVE  /\ starts[w - 1] \in Nat /\ starts[w] \in Nat /\ starts[w - 1] < starts[w]
                      /\ WarmStart(ranges[w][1]) \in Nat /\ WarmStart(ranges[w][1]) <= starts[w - 1]
    OBVIOUS
  <2>1. w - 1 \in 0 .. (n_workers - 1) /\ w \in 0 .. n_workers /\ (w - 1) + 1 = w
    BY <1>3, SMT
  <2>2. starts[w - 1] \in Nat /\ starts[w] \in Nat /\ starts[w - 1] < starts[w]
    BY <1>3, <2>1, SMT
  <2>3. request.warmup \in Nat
    OBVIOUS
  <2>4. ranges[w][1] = starts[w - 1]
    BY <1>4
  <2> QED
    BY <2>2, <2>3, <2>4, SMT DEF WarmStart, GreaterOf
<1>6. /\ frame' = [w \in 1 .. n_workers |-> WarmStart(ranges[w][1])]
      /\ packets' = [w \in 1 .. n_workers |-> <<>>]
  BY DEF Spawn
<1>7. WorkersKeep'
  <2>1. frame' \in [1 .. n_workers -> Nat]
    BY <1>5, <1>6
  <2>2. packets' \in [1 .. n_workers -> Seq([frame : Nat, since : Nat])]
    BY <1>6, SMT
  <2>3. ASSUME NEW w \in 1 .. n_workers
        PROVE  /\ frame'[w] <= starts[w]
               /\ Len(packets'[w]) = GreaterOf(frame'[w] - starts[w - 1], 0)
               /\ packets'[w] = <<>>
    BY <1>5, <1>6, SMT DEF GreaterOf
  <2>4. \A w \in 1 .. n_workers : \A i \in 1 .. Len(packets'[w]) :
           packets'[w][i] = Packet(starts[w - 1] + (i - 1), WarmStart(starts[w - 1])')
    BY <2>3, SMT
  <2> QED
    BY <1>1, <1>2, <1>4, <2>1, <2>2, <2>3, <2>4 DEF WorkersKeep, GreaterOf, Packet
<1>8. CallerHolds'
  BY <1>1, CallerKept DEF Spawn
<1>9. Planned'
  BY <1>1, <1>2, Zenon DEF Spawn, Planned
<1> QED
  BY <1>1, <1>7, <1>8, <1>9, SMT

(* A worker's part of WorkersKeep.                                         *)
Keeps(f, q, c, e) ==
  /\ f <= e
  /\ Len(q) = GreaterOf(f - c, 0)
  /\ \A i \in 1 .. Len(q) : q[i] = Packet(c + (i - 1), WarmStart(c))

LEMMA OneMore ==
  ASSUME NEW f \in Nat, NEW c \in Nat, NEW e \in Nat, f < e,
         NEW q \in Seq([frame : Nat, since : Nat]), Keeps(f, q, c, e),
         request.warmup \in Nat
  PROVE  IF f < c THEN Keeps(f + 1, q, c, e)
         ELSE LET r == Append(q, Packet(f, WarmStart(c)))
              IN  r \in Seq([frame : Nat, since : Nat]) /\ Keeps(f + 1, r, c, e)
<1>1. CASE f < c
  BY <1>1, SMT DEF Keeps, GreaterOf
<1>2. CASE ~(f < c)
  <2> DEFINE r == Append(q, Packet(f, WarmStart(c)))
  <2>1. Packet(f, WarmStart(c)) \in [frame : Nat, since : Nat]
    BY SMT DEF Packet, WarmStart, GreaterOf
  <2>2. r \in Seq([frame : Nat, since : Nat]) /\ Len(r) = Len(q) + 1
        /\ (\A i \in 1 .. Len(q) : r[i] = q[i]) /\ r[Len(q) + 1] = Packet(f, WarmStart(c))
    BY <2>1, Appended
  <2> HIDE DEF r
  <2>3. Len(q) = f - c
    BY <1>2, SMT DEF Keeps, GreaterOf
  <2>4. Len(r) = GreaterOf((f + 1) - c, 0)
    BY <1>2, <2>2, <2>3, SMT DEF GreaterOf
  <2>5. ASSUME NEW i \in 1 .. Len(r) PROVE r[i] = Packet(c + (i - 1), WarmStart(c))
    <3>1. CASE i = Len(q) + 1
      <4>1. c + (i - 1) = f
        BY <2>3, <3>1, SMT
      <4> QED
        BY <2>2, <3>1, <4>1
    <3>2. CASE i \in 1 .. Len(q)
      BY <2>2, <3>2 DEF Keeps
    <3> QED
      BY <2>2, <2>3, <3>1, <3>2, SMT
  <2>6. f + 1 <= e
    BY SMT
  <2>7. Keeps(f + 1, r, c, e)
    BY <2>4, <2>5, <2>6 DEF Keeps
  <2> QED
    BY <1>2, <2>2, <2>7 DEF r
<1> QED
  BY <1>1, <1>2

LEMMA EncodeFrameStep ==
  ASSUME ChunksInv, NEW w \in Running, EncodeFrame(w)
  PROVE  ChunksInv'
<1> USE DEF ChunksInv, ChunksTypeOK
<1>1. /\ UNCHANGED <<request, stage, start, ranges, joined, joined_out>>
      /\ stage \in {"run", "join"} /\ w \in 1 .. n_workers /\ request.total > 0
  BY SMT DEF EncodeFrame, Running
<1>2. n_workers' = n_workers /\ starts' = starts
  BY <1>1, PlanKept
<1>3. n_workers \in Nat \ {0} /\ starts \in [0 .. n_workers -> Nat]
  BY <1>1, PlanFacts, StartsFacts
<1>4. /\ Len(ranges) = n_workers
      /\ frame \in [1 .. n_workers -> Nat]
      /\ packets \in [1 .. n_workers -> Seq([frame : Nat, since : Nat])]
      /\ \A v \in 1 .. n_workers : Keeps(frame[v], packets[v], starts[v - 1], starts[v])
  BY <1>1 DEF WorkersKeep, Keeps
<1>5. PICK c \in Nat, e \in Nat : c = starts[w - 1] /\ e = starts[w] /\ ranges[w] = <<c, e>>
  <2>1. w - 1 \in 0 .. n_workers /\ w \in 0 .. n_workers
    BY <1>1, <1>3, SMT
  <2>2. ranges[w] = <<starts[w - 1], starts[w]>>
    BY <1>1, <1>4 DEF Planned
  <2> QED
    BY <1>3, <2>1, <2>2
<1>6. PICK f \in Nat, q \in Seq([frame : Nat, since : Nat]) :
        f = frame[w] /\ q = packets[w] /\ f < e /\ Keeps(f, q, c, e)
  BY <1>1, <1>4, <1>5 DEF EncodeFrame
<1>7. PICK r \in Seq([frame : Nat, since : Nat]) :
        /\ Keeps(f + 1, r, c, e)
        /\ r = IF f < c THEN q ELSE Append(q, Packet(f, WarmStart(c)))
  BY <1>5, <1>6, OneMore
<1>8. frame' = [frame EXCEPT ![w] = f + 1] /\ packets' = [packets EXCEPT ![w] = r]
  <2>1. /\ frame' = [frame EXCEPT ![w] = f + 1]
        /\ packets' = IF f < c THEN packets ELSE [packets EXCEPT ![w] = Append(q, Packet(f, WarmStart(c)))]
    <3>1. ranges[w][1] = c
      BY <1>5
    <3> QED
      BY <1>6, <3>1, Zenon DEF EncodeFrame
  <2>2. CASE f < c
    <3>1. packets = [packets EXCEPT ![w] = q]
      BY <1>1, <1>4, <1>6
    <3> QED
      BY <1>7, <2>1, <2>2, <3>1
  <2>3. CASE ~(f < c)
    BY <1>7, <2>1, <2>3
  <2> QED
    BY <2>2, <2>3
<1>9. PICK fr \in [1 .. n_workers -> Nat],
           pa \in [1 .. n_workers -> Seq([frame : Nat, since : Nat])] :
        /\ frame' = fr /\ packets' = pa
        /\ \A v \in 1 .. n_workers : Keeps(fr[v], pa[v], starts[v - 1], starts[v])
  <2> DEFINE fr == [frame EXCEPT ![w] = f + 1]
             pa == [packets EXCEPT ![w] = r]
  <2>1. fr \in [1 .. n_workers -> Nat] /\ pa \in [1 .. n_workers -> Seq([frame : Nat, since : Nat])]
    BY <1>1, <1>4
  <2>2. ASSUME NEW v \in 1 .. n_workers PROVE Keeps(fr[v], pa[v], starts[v - 1], starts[v])
    BY <1>1, <1>4, <1>5, <1>7
  <2> QED
    BY <1>8, <2>1, <2>2
<1>10. WorkersKeep'
  BY <1>1, <1>2, <1>4, <1>9, Zenon DEF WorkersKeep, Keeps, GreaterOf, Packet, WarmStart
<1>11. Planned'
  BY <1>1, <1>2, Zenon DEF Planned
<1>12. CallerHolds'
  BY <1>1, CallerKept
<1> QED
  BY <1>1, <1>10, <1>11, <1>12

LEMMA JoinNextStep ==
  ASSUME ChunksInv, JoinNext
  PROVE  ChunksInv'
<1> USE DEF ChunksInv, ChunksTypeOK
<1>1. /\ UNCHANGED <<request, start, ranges, frame, packets>>
      /\ stage \in {"run", "join"} /\ stage' = "join" /\ request.total > 0
      /\ request.warmup \in Nat
  BY SMT DEF JoinNext
<1>2. n_workers' = n_workers /\ starts' = starts
  BY <1>1, PlanKept
<1>3. /\ n_workers \in Nat \ {0} /\ starts \in [0 .. n_workers -> Nat]
      /\ \A v \in 0 .. (n_workers - 1) : starts[v] < starts[v + 1]
  BY <1>1, PlanFacts, StartsFacts
<1>4. PICK j \in Nat : j = joined /\ j < n_workers
  BY SMT DEF JoinNext, CallerHolds
<1>5. PICK c \in Nat, e \in Nat : c = starts[j] /\ e = starts[j + 1] /\ c < e /\ ranges[j + 1] = <<c, e>>
  <2>1. /\ j \in 0 .. n_workers /\ j + 1 \in 0 .. n_workers /\ j \in 0 .. (n_workers - 1)
        /\ j + 1 \in 1 .. n_workers /\ (j + 1) - 1 = j
    BY <1>3, <1>4, SMT
  <2>2. ranges[j + 1] = <<starts[j], starts[j + 1]>>
    BY <1>1, <2>1 DEF WorkersKeep, Planned
  <2> QED
    BY <1>3, <2>1, <2>2
<1>6. PICK q \in Seq([frame : Nat, since : Nat]) :
        /\ q = packets[j + 1] /\ Len(q) = e - c
        /\ \A i \in 1 .. Len(q) : q[i] = Packet(c + (i - 1), WarmStart(c))
  <2>1. j + 1 \in 1 .. n_workers /\ (j + 1) - 1 = j
    BY <1>3, <1>4, SMT
  <2>2. packets[j + 1] \in Seq([frame : Nat, since : Nat]) /\ frame[j + 1] \in Nat
    BY <1>1, <2>1 DEF WorkersKeep
  <2>3. frame[j + 1] = e
    BY <1>4, <1>5 DEF JoinNext
  <2>4. Keeps(frame[j + 1], packets[j + 1], starts[(j + 1) - 1], starts[j + 1])
    BY <1>1, <2>1 DEF WorkersKeep, Keeps
  <2>5. Keeps(e, packets[j + 1], c, e)
    BY <1>5, <2>1, <2>3, <2>4
  <2>6. GreaterOf(e - c, 0) = e - c
    BY <1>5, SMT DEF GreaterOf
  <2> QED
    BY <2>2, <2>5, <2>6 DEF Keeps
<1>7. PICK p \in Seq([frame : Nat, since : Nat]) : p = joined_out /\ Len(p) = c
  BY <1>1, <1>4, <1>5 DEF CallerHolds
<1>8. PICK joint \in Seq([frame : Nat, since : Nat]) :
        /\ joint = p \o q /\ Len(joint) = e
        /\ \A i \in 1 .. e : joint[i] = IF i <= c THEN p[i] ELSE q[i - c]
  <2>1. /\ p \o q \in Seq([frame : Nat, since : Nat])
        /\ Len(p \o q) = Len(p) + Len(q)
        /\ \A i \in 1 .. Len(p) + Len(q) : (p \o q)[i] = IF i <= Len(p) THEN p[i] ELSE q[i - Len(p)]
    BY ConcatProperties
  <2>2. Len(p) + Len(q) = e
    BY <1>5, <1>6, <1>7, SMT
  <2> QED
    BY <1>7, <2>1, <2>2
<1>9. ASSUME NEW i \in 1 .. e
      PROVE  joint[i].frame = i - 1 /\ joint[i].since <= GreaterOf(i - 1 - request.warmup, 0)
  <2>1. CASE i <= c
    <3>1. i \in 1 .. Len(joined_out)
      BY <1>5, <1>7, <2>1, SMT
    <3>2. joint[i] = joined_out[i]
      BY <1>7, <1>8, <2>1, Zenon
    <3> QED
      BY <1>1, <3>1, <3>2, Zenon DEF CallerHolds
  <2>2. CASE ~(i <= c)
    <3>1. i - c \in 1 .. Len(q) /\ c + ((i - c) - 1) = i - 1
      <4>1. PICK k \in Int : k = i - c /\ k >= 1 /\ k <= e - c /\ c + (k - 1) = i - 1
        BY <2>2, SMT
      <4> QED
        BY <1>6, <4>1
    <3>2. joint[i] = Packet(i - 1, WarmStart(c))
      BY <1>6, <1>8, <2>2, <3>1
    <3> QED
      <4>1. PICK h \in Nat : h = request.warmup
        BY <1>1
      <4>2. GreaterOf(c - h, 0) <= GreaterOf(i - 1 - h, 0)
        BY <2>2, SMT DEF GreaterOf
      <4> QED
        BY <3>2, <4>1, <4>2 DEF Packet, WarmStart
  <2> QED
    BY <2>1, <2>2
<1>10. CallerHolds'
  <2>1. PICK k \in Nat : k = j + 1 /\ k <= n_workers
    BY <1>3, <1>4, SMT
  <2>2. joined' = k /\ joined_out' = joint
    BY <1>4, <1>6, <1>7, <1>8, <2>1 DEF JoinNext
  <2>3. stage' # "plan" /\ stage' # "returned" /\ request'.total # 0
    BY <1>1, SMT
  <2> QED
    BY <1>1, <1>2, <1>5, <1>8, <1>9, <2>1, <2>2, <2>3, Zenon DEF CallerHolds, GreaterOf
<1>11. Planned'
  BY <1>1, <1>2, Zenon DEF Planned
<1>12. WorkersKeep'
  BY <1>1, <1>2, Zenon DEF WorkersKeep, GreaterOf, Packet, WarmStart
<1> QED
  BY <1>1, <1>10, <1>11, <1>12

LEMMA ReturnStep ==
  ASSUME ChunksInv, Return
  PROVE  ChunksInv'
<1> USE DEF ChunksInv, ChunksTypeOK
<1>1. /\ UNCHANGED <<request, start, ranges, frame, packets, joined, joined_out>>
      /\ stage = "join" /\ stage' = "returned" /\ joined = n_workers
  BY DEF Return
<1>2. n_workers' = n_workers /\ starts' = starts
  BY <1>1, PlanKept
<1>3. Planned'
  BY <1>1, <1>2, Zenon DEF Planned
<1>4. WorkersKeep'
  BY <1>1, <1>2, Zenon DEF WorkersKeep, GreaterOf, Packet, WarmStart
<1>5. CallerHolds'
  BY <1>1, CallerKept
<1> QED
  BY <1>1, <1>3, <1>4, <1>5

LEMMA ChunksStep == ChunksInv /\ [ChunksNext]_chunk_vars => ChunksInv'
<1> SUFFICES ASSUME ChunksInv, [ChunksNext]_chunk_vars PROVE ChunksInv'
  OBVIOUS
<1>1. CASE PlanRange
  BY <1>1, PlanRangeStep
<1>2. CASE Spawn
  BY <1>2, SpawnStep
<1>3. CASE \E w \in Running : EncodeFrame(w)
  BY <1>3, EncodeFrameStep
<1>4. CASE JoinNext
  BY <1>4, JoinNextStep
<1>5. CASE Return
  BY <1>5, ReturnStep
<1>6. CASE UNCHANGED chunk_vars
  <2>1. n_workers' = n_workers /\ starts' = starts
    BY <1>6, PlanKept DEF chunk_vars
  <2> QED
    BY <1>6, <2>1, Zenon DEF ChunksInv, ChunksTypeOK, Planned, WorkersKeep, CallerHolds, chunk_vars,
       GreaterOf, Packet, WarmStart
<1> QED
  BY <1>1, <1>2, <1>3, <1>4, <1>5, <1>6 DEF ChunksNext

(* The planned ranges partition the frames, each long enough for its       *)
(* warm-up (encode_parallel, parallel.rs:99-118).                          *)
LEMMA Partitioned == ChunksInv => RangesPartition
<1> SUFFICES ASSUME ChunksInv PROVE RangesPartition
  OBVIOUS
<1> USE DEF ChunksInv, ChunksTypeOK
<1>1. CASE request.total = 0
  <2>1. n_workers # 0
    BY <1>1, SMT DEF n_workers, LesserOf, GreaterOf, Threads
  <2> QED
    BY <1>1, <2>1, SMT DEF Planned, RangesPartition
<1>2. CASE request.total > 0
  <2>1. /\ n_workers \in Nat \ {0} /\ starts \in [0 .. n_workers -> Nat]
        /\ starts[0] = 0 /\ starts[n_workers] = request.total
        /\ \A v \in 0 .. (n_workers - 1) :
             /\ starts[v] < starts[v + 1]
             /\ n_workers > 1 => starts[v + 1] - starts[v] >= 4 * request.warmup
    BY <1>2, PlanFacts, StartsFacts
  <2>2. /\ Len(ranges) \in Nat /\ Len(ranges) <= n_workers
        /\ \A w \in 1 .. Len(ranges) : ranges[w] = <<starts[w - 1], starts[w]>>
    BY <1>2, SMT DEF Planned
  <2>3. ASSUME NEW w \in 1 .. Len(ranges)
        PROVE  /\ ranges[w][1] < ranges[w][2]
               /\ ranges[w][1] = IF w = 1 THEN 0 ELSE ranges[w - 1][2]
               /\ n_workers > 1 => ranges[w][2] - ranges[w][1] >= 4 * request.warmup
    <3>1. w - 1 \in 0 .. (n_workers - 1) /\ (w - 1) + 1 = w /\ (w # 1 => w - 1 \in 1 .. Len(ranges))
      BY <2>1, <2>2, SMT
    <3>2. ranges[w] = <<starts[w - 1], starts[w]>> /\ (w # 1 => ranges[w - 1] = <<starts[(w - 1) - 1], starts[w - 1]>>)
      BY <2>2, <3>1
    <3>3. starts[w - 1] < starts[w] /\ (n_workers > 1 => starts[w] - starts[w - 1] >= 4 * request.warmup)
      BY <2>1, <3>1
    <3>4. w = 1 => w - 1 = 0
      BY SMT
    <3>5. PICK a \in Nat, b \in Nat : a = starts[w - 1] /\ b = starts[w]
      BY <2>1, <2>2, <3>1, SMT
    <3>6. ranges[w][1] = a /\ ranges[w][2] = b
      BY <3>2, <3>5
    <3>7. w # 1 => ranges[w - 1][2] = a
      BY <3>2, <3>5
    <3>8. w = 1 => a = 0
      BY <2>1, <3>4, <3>5
    <3> QED
      BY <3>3, <3>5, <3>6, <3>7, <3>8
  <2>4. Len(ranges) = n_workers => ranges[n_workers][2] = request.total
    BY <2>1, <2>2, SMT
  <2> QED
    BY <2>3, <2>4 DEF RangesPartition
<1> QED
  BY <1>1, <1>2, SMT

THEOREM RangesCoverFrames == ChunksSpec => []RangesPartition
<1>1. ChunksInv => RangesPartition
  BY Partitioned
<1> QED
  BY <1>1, InitHolds, ChunksStep, PTL DEF ChunksSpec

(* The call returns a packet for every frame, in order, each from an       *)
(* encoder that has heard the warm-up (parallel.rs:120-165). *)
THEOREM OnePacketPerFrame == ChunksSpec => []OutputComplete
<1>1. ChunksInv => OutputComplete
  <2> SUFFICES ASSUME ChunksInv PROVE OutputComplete
    OBVIOUS
  <2>1. RangesPartition
    BY Partitioned
  <2>2. ASSUME stage = "returned", request.total > 0 PROVE Len(joined_out) = request.total
    BY <2>2, StartsFacts DEF ChunksInv, ChunksTypeOK, CallerHolds
  <2>3. CASE request.total > 0
    BY <2>1, <2>2, <2>3 DEF OutputComplete, ChunksInv, CallerHolds
  <2>4. CASE request.total = 0
    BY <2>1, <2>4, SMT DEF OutputComplete, ChunksInv, CallerHolds
  <2> QED
    BY <2>3, <2>4, SMT DEF ChunksInv, ChunksTypeOK
<1> QED
  BY <1>1, InitHolds, ChunksStep, PTL DEF ChunksSpec

-----------------------------------------------------------------------------
(***************************************************************************)
(* The ring of analyses. For every set of frame lengths, every sequence of *)
(* sounds and any length of input: writer and reader stay in step with the *)
(* audio, and the verdict of every frame is of that frame's windows. The   *)
(* invariant says where writer and reader are in terms of the audio        *)
(* analysed; that they never lap each other follows from the length of the *)
(* longest frame, six windows in a ring of a hundred.                      *)
(***************************************************************************)
Sound  == [0 .. 6 -> {"sound", "silent", "nan"}]
Result == [valid : BOOLEAN, window : Int]

(* Types.                                                                  *)
RingTypeOK ==
  /\ sounds \in Sound
  /\ initialized \in BOOLEAN
  /\ mem_fill \in Int
  /\ write_pos \in Slots /\ read_pos \in Slots /\ read_subframe \in 0 .. Hop - 1
  /\ info \in [Slots -> Result]
  /\ in_hand \in 0 .. 48 /\ pcm_len \in 0 .. in_hand
  /\ sub_frames \in Nat
  /\ elapsed \in Nat /\ in_hand - pcm_len <= elapsed

(* Nothing is heard but by an analysis that has begun; while a frame is    *)
(* analysed there is no reading and no sub-frame.                          *)
Begun ==
  /\ initialized <=> elapsed > 0
  /\ in_hand > 0 => reading = NoReading /\ sub_frames = 0

RingIInv == RingTypeOK /\ Begun /\ WriterInStep /\ ReaderInStep /\ VerdictOfFrame /\ ResultsPlaced

LEMMA RingConstants ==
  /\ ANALYSIS_BUF_SIZE = 12 /\ Overlap_len = 4 /\ Hop = 8 /\ DETECT_SIZE = 100
  /\ Slots = 0 .. 99
  BY DEF ANALYSIS_BUF_SIZE, Overlap_len, Hop, DETECT_SIZE, Slots

(* Slots less than a turn of the ring apart are different.                 *)
LEMMA Apart ==
  ASSUME NEW a \in Int, NEW b \in Int, 0 < a - b, a - b < 100
  PROVE  a % 100 # b % 100
  OBVIOUS

LEMMA SlotArithmetic ==
  ASSUME NEW a \in Int
  PROVE  /\ a % 100 \in 0 .. 99
         /\ ((a % 100) + 1) % 100 = (a + 1) % 100
         /\ ((a % 100) + 99) % 100 = (a - 1) % 100
  OBVIOUS

(* The distance from slot to slot is that of the windows in them.          *)
LEMMA Distance ==
  ASSUME NEW a \in Int, NEW b \in Int, 0 <= a - b, a - b < 100
  PROVE  ((a % 100) - (b % 100)) % 100 = a - b
  OBVIOUS

LEMMA RingInitIInv == RingInit => RingIInv
<1> SUFFICES ASSUME RingInit PROVE RingIInv
    OBVIOUS
<1>1. RingTypeOK
  <2>1. sounds \in Sound
    BY SoundsAssumption DEF RingInit, Sound
  <2>2. info \in [Slots -> Result]
    <3>1. Unheard \in Result
      BY DEF Unheard, Result
    <3> QED BY <3>1 DEF RingInit
  <2>3. initialized \in BOOLEAN
    BY DEF RingInit
  <2>4. /\ mem_fill = 0 /\ write_pos = 0 /\ read_pos = 0 /\ read_subframe = 0
        /\ in_hand = 0 /\ pcm_len = 0 /\ sub_frames = 0 /\ elapsed = 0
    BY DEF RingInit
  <2> QED BY <2>1, <2>2, <2>3, <2>4, RingConstants DEF RingTypeOK
<1>2. Begun /\ WriterInStep /\ ReaderInStep
  BY RingConstants DEF RingInit, Begun, WriterInStep, ReaderInStep, Windows, Consumed
<1>3. VerdictOfFrame /\ ResultsPlaced
  <2>1. Windows = 0
    BY RingConstants DEF RingInit, Windows
  <2> QED BY <2>1, RingConstants DEF RingInit, VerdictOfFrame, ResultsPlaced
<1> QED BY <1>1, <1>2, <1>3 DEF RingIInv

(***************************************************************************)
(* One call of tonality_analysis.                                          *)
(***************************************************************************)
LEMMA AnalysisKeepsStep ==
  ASSUME RingIInv, TonalityAnalysis
  PROVE  /\ RingTypeOK' /\ Begun' /\ WriterInStep' /\ ReaderInStep'
         /\ Windows' \in {Windows, Windows + 1}
         /\ Windows' = Windows => info' = info
         /\ Windows' = Windows + 1 =>
              info' = [info EXCEPT ![Windows % 100] = Judged(Windows, Windows % 100)]
<1> USE RingConstants
<1> DEFINE len  == LesserLen(Hop, pcm_len)
           fill == IF initialized THEN mem_fill ELSE Overlap_len
<1>1. /\ len \in 1 .. 8 /\ len <= pcm_len
      /\ fill = 4 + (elapsed % 8)
      /\ elapsed \in Nat /\ pcm_len \in Nat /\ in_hand \in 0 .. 48
  <2>1. elapsed \in Nat /\ pcm_len \in 0 .. in_hand /\ in_hand \in 0 .. 48 /\ pcm_len > 0
    BY DEF RingIInv, RingTypeOK, TonalityAnalysis
  <2>2. len \in 1 .. 8 /\ len <= pcm_len
    BY <2>1 DEF LesserLen
  <2>3. fill = 4 + (elapsed % 8)
    <3>1. CASE initialized
      BY <3>1 DEF RingIInv, WriterInStep
    <3>2. CASE ~ initialized
      <4>1. elapsed = 0
        BY <2>1, <3>2 DEF RingIInv, Begun
      <4> QED BY <3>2, <4>1
    <3> QED BY <3>1, <3>2
  <2> QED BY <2>1, <2>2, <2>3
<1>2. /\ pcm_len' = pcm_len - len /\ elapsed' = elapsed + len /\ initialized' = TRUE
      /\ UNCHANGED <<sounds, read_pos, read_subframe, in_hand, sub_frames, reading>>
  BY DEF TonalityAnalysis
<1>3. in_hand' - pcm_len' <= elapsed' /\ Consumed' = Consumed
  BY <1>1, <1>2 DEF RingIInv, RingTypeOK, Consumed
<1>4. CASE Full(fill, len)
  <2>1. /\ mem_fill' = 4 + (len - (12 - fill))
        /\ write_pos' = NextSlot(write_pos)
        /\ info' = [info EXCEPT ![write_pos] = Judged(elapsed \div 8, write_pos)]
    BY <1>4 DEF TonalityAnalysis, Refill
  <2>2. (elapsed % 8) + len >= 8
    BY <1>1, <1>4 DEF Full
  <2>3. /\ (elapsed + len) \div 8 = (elapsed \div 8) + 1
        /\ (elapsed + len) % 8 = (elapsed % 8) + len - 8
    BY <1>1, <2>2
  <2>4. write_pos = (elapsed \div 8) % 100 /\ elapsed \div 8 \in Nat
    BY <1>1 DEF RingIInv, WriterInStep, Windows
  <2>5. Windows' = Windows + 1
    BY <1>2, <2>3 DEF Windows
  <2>6. WriterInStep'
    <3>1. write_pos' = ((elapsed \div 8) + 1) % 100
      BY <2>1, <2>4, SlotArithmetic DEF NextSlot
    <3> QED BY <1>1, <1>2, <2>1, <2>3, <3>1 DEF WriterInStep, Windows
  <2>7. info' \in [Slots -> Result]
    <3>1. write_pos \in Slots /\ PrevSlot(write_pos) \in Slots
      BY DEF RingIInv, RingTypeOK, PrevSlot
    <3>2. Judged(elapsed \div 8, write_pos) \in Result
      <4>1. info \in [Slots -> Result] /\ info[write_pos] \in Result /\ info[PrevSlot(write_pos)] \in Result
        BY <3>1 DEF RingIInv, RingTypeOK
      <4>2. [info[write_pos] EXCEPT !.valid = FALSE] \in Result
        BY <4>1 DEF Result
      <4>3. [valid |-> TRUE, window |-> elapsed \div 8] \in Result
        BY <2>4 DEF Result
      <4> QED BY <4>1, <4>2, <4>3 DEF Judged
    <3> QED BY <2>1, <3>1, <3>2 DEF RingIInv, RingTypeOK
  <2>8. RingTypeOK'
    <3>1. write_pos' \in Slots
      BY <2>1, <2>4, SlotArithmetic DEF NextSlot
    <3>2. mem_fill' \in Int
      BY <1>1, <2>1
    <3> QED BY <1>1, <1>2, <1>3, <2>7, <3>1, <3>2 DEF RingIInv, RingTypeOK
  <2>9. info' = [info EXCEPT ![Windows % 100] = Judged(Windows, Windows % 100)]
    BY <2>1, <2>4 DEF Windows
  <2>10. Begun' /\ ReaderInStep'
    BY <1>1, <1>2, <1>3 DEF Begun, ReaderInStep, RingIInv
  <2>11. Windows' # Windows
    BY <1>1, <2>5 DEF Windows
  <2> QED BY <2>5, <2>6, <2>8, <2>9, <2>10, <2>11
<1>5. CASE ~ Full(fill, len)
  <2>1. mem_fill' = fill + len /\ write_pos' = write_pos /\ info' = info
    BY <1>5 DEF TonalityAnalysis
  <2>2. (elapsed % 8) + len < 8
    BY <1>1, <1>5 DEF Full
  <2>3. /\ (elapsed + len) \div 8 = elapsed \div 8
        /\ (elapsed + len) % 8 = (elapsed % 8) + len
    BY <1>1, <2>2
  <2>4. Windows' = Windows
    BY <1>2, <2>3 DEF Windows
  <2>5. WriterInStep'
    BY <1>1, <1>2, <2>1, <2>3 DEF WriterInStep, Windows, RingIInv
  <2>6. RingTypeOK'
    BY <1>1, <1>2, <1>3, <2>1 DEF RingIInv, RingTypeOK
  <2>7. Begun' /\ ReaderInStep'
    BY <1>1, <1>2, <1>3 DEF Begun, ReaderInStep, RingIInv
  <2>8. Windows' # Windows + 1
    BY <1>1, <2>4 DEF Windows
  <2> QED BY <2>1, <2>4, <2>5, <2>6, <2>7, <2>8
<1> QED BY <1>4, <1>5

(* The results stay where they are until the ring comes round.             *)
LEMMA ResultsStay ==
  ASSUME RingIInv, TonalityAnalysis
  PROVE  ResultsPlaced'
<1> USE RingConstants
<1>1. /\ Windows' \in {Windows, Windows + 1} /\ Windows \in Nat
      /\ Windows' = Windows => info' = info
      /\ Windows' = Windows + 1 =>
           info' = [info EXCEPT ![Windows % 100] = Judged(Windows, Windows % 100)]
      /\ sounds' = sounds
  BY AnalysisKeepsStep DEF Windows, RingIInv, RingTypeOK, TonalityAnalysis
<1>0. PICK new \in Nat : Windows' = new /\ (new = Windows \/ new = Windows + 1)
  BY <1>1
<1> SUFFICES ASSUME NEW w \in Int, 0 <= w, w <= new - 1, w > new - 100
             PROVE  ResultOf(w)'
  BY <1>0 DEF ResultsPlaced
<1>2. CASE new = Windows
  <2>1. ResultOf(w)
    BY <1>0, <1>1, <1>2 DEF RingIInv, ResultsPlaced
  <2> QED BY <1>0, <1>1, <1>2, <2>1 DEF ResultOf, SoundIn
<1>3. CASE new = Windows + 1 /\ w < Windows
  <2>1. ResultOf(w)
    BY <1>0, <1>1, <1>3 DEF RingIInv, ResultsPlaced
  <2>2. w % 100 # Windows % 100 /\ (w - 1) % 100 # Windows % 100
    BY <1>0, <1>1, <1>3, Apart
  <2>3. w % 100 \in Slots /\ (w - 1) % 100 \in Slots
    BY SlotArithmetic
  <2>4. info'[w % 100] = info[w % 100] /\ info'[(w - 1) % 100] = info[(w - 1) % 100]
    BY <1>0, <1>1, <1>3, <2>2, <2>3 DEF RingIInv, RingTypeOK
  <2> QED BY <1>1, <2>1, <2>4 DEF ResultOf, SoundIn
<1>4. CASE new = Windows + 1 /\ w = Windows
  <2>1. w % 100 \in Slots /\ (w - 1) % 100 \in Slots /\ (w - 1) % 100 # w % 100
    BY <1>0, <1>1, <1>4, SlotArithmetic, Apart
  <2>2. info'[w % 100] = Judged(w, w % 100) /\ info'[(w - 1) % 100] = info[(w - 1) % 100]
    BY <1>0, <1>1, <1>4, <2>1 DEF RingIInv, RingTypeOK
  <2>3. PrevSlot(w % 100) = (w - 1) % 100
    BY <1>1, SlotArithmetic DEF PrevSlot
  <2>4. SoundIn(w)' = SoundIn(w)
    BY <1>1 DEF SoundIn
  <2>5. CASE SoundIn(w) = "silent"
    BY <2>2, <2>3, <2>4, <2>5 DEF Judged, ResultOf
  <2>6. CASE SoundIn(w) = "nan"
    <3>1. info[w % 100] \in Result
      BY <2>1 DEF RingIInv, RingTypeOK
    <3>2. info'[w % 100] = [info[w % 100] EXCEPT !.valid = FALSE]
      BY <2>2, <2>6 DEF Judged
    <3>3. info'[w % 100].valid = FALSE
      BY <3>1, <3>2 DEF Result
    <3>4. SoundIn(w)' # "silent" /\ SoundIn(w)' = "nan"
      BY <2>4, <2>6
    <3>5. ~ info'[w % 100].valid
      BY <3>3
    <3> QED BY <3>4, <3>5 DEF ResultOf
  <2>7. CASE SoundIn(w) # "silent" /\ SoundIn(w) # "nan"
    BY <2>2, <2>4, <2>7 DEF Judged, ResultOf
  <2> QED BY <2>5, <2>6, <2>7
<1>5. new = Windows \/ (new = Windows + 1 /\ (w < Windows \/ w = Windows))
  BY <1>0, <1>1
<1> QED BY <1>2, <1>3, <1>4, <1>5

(***************************************************************************)
(* One call of tonality_get_info: the window it judges by.                 *)
(***************************************************************************)
Judging == IF in_hand > 8 /\ FirstAfter(elapsed - in_hand) + 1 < Windows
           THEN FirstAfter(elapsed - in_hand) + 1
           ELSE IF FirstAfter(elapsed - in_hand) < Windows THEN FirstAfter(elapsed - in_hand) ELSE Windows - 1

LEMMA JudgedByOwn ==
  ASSUME RingIInv, GetInfo
  PROVE  /\ Judging \in -1 .. Windows - 1
         /\ Windows - Judging <= 7
         /\ FirstAfter(elapsed - in_hand) < Windows => Judging >= FirstAfter(elapsed - in_hand)
         /\ FirstAfter(elapsed - in_hand) >= Windows => Judging = Windows - 1
         /\ Judge(in_hand) = Judging % 100
<1> USE RingConstants
<1> DEFINE c == (elapsed - in_hand) \div 8
           W == elapsed \div 8
<1>1. /\ elapsed \in Nat /\ in_hand \in 1 .. 48 /\ in_hand <= elapsed /\ pcm_len = 0
      /\ read_pos = c % 100 /\ write_pos = W % 100
  BY DEF RingIInv, RingTypeOK, GetInfo, WriterInStep, ReaderInStep, Windows, Consumed
<1>2. /\ c \in Nat /\ W \in Nat /\ c <= W /\ W - c <= 6
      /\ in_hand > 8 => c < W
  BY <1>1
<1>3. Windows = W /\ FirstAfter(elapsed - in_hand) = c
  BY DEF Windows, FirstAfter
<1> HIDE DEF c, W
<1>4. \A a, b \in Int : 0 <= a - b /\ a - b < 100 => ((a % 100) = (b % 100) <=> a = b)
  BY Apart
<1>5. \A a \in Int : NextSlot(a % 100) = (a + 1) % 100 /\ PrevSlot(a % 100) = (a - 1) % 100
  BY SlotArithmetic DEF NextSlot, PrevSlot
<1>6. /\ read_pos # write_pos <=> c < W
      /\ NextSlot(read_pos) = (c + 1) % 100
      /\ (c + 1) % 100 = write_pos <=> c + 1 = W \/ c + 1 = W + 100
      /\ PrevSlot(write_pos) = (W - 1) % 100
  <2>1. read_pos # write_pos <=> c < W
    BY <1>1, <1>2, <1>4
  <2>2. c < W => ((c + 1) % 100 = write_pos <=> c + 1 = W)
    BY <1>1, <1>2, <1>4
  <2>3. c = W => (c + 1) % 100 # write_pos
    BY <1>1, <1>2, <1>4
  <2> QED BY <1>1, <1>2, <1>5, <2>1, <2>2, <2>3
<1>7. CASE in_hand > 8
  BY <1>1, <1>2, <1>3, <1>6, <1>7 DEF Judge, Judging
<1>8. CASE ~ in_hand > 8
  BY <1>1, <1>2, <1>3, <1>6, <1>8 DEF Judge, Judging
<1> QED BY <1>7, <1>8

LEMMA GetInfoStep == ASSUME RingIInv, GetInfo PROVE RingIInv'
<1> USE RingConstants
<1> DEFINE W == elapsed \div 8
           c == (elapsed - in_hand) \div 8
           J == Judging
<1>1. /\ elapsed \in Nat /\ in_hand \in 1 .. 48 /\ in_hand <= elapsed /\ pcm_len = 0
      /\ read_pos = c % 100 /\ write_pos = W % 100 /\ read_subframe = (elapsed - in_hand) % 8
      /\ Windows = W /\ sub_frames = 0
  BY DEF RingIInv, RingTypeOK, GetInfo, WriterInStep, ReaderInStep, Windows, Consumed, Begun
<1>2. /\ in_hand' = 0 /\ sub_frames' \in Splits(in_hand)
      /\ reading' = Read(Judge(in_hand), elapsed - in_hand) /\ Advance(in_hand)
      /\ UNCHANGED <<sounds, initialized, mem_fill, write_pos, info, pcm_len, elapsed>>
  BY DEF GetInfo
<1>3. sub_frames' \in Nat
  BY <1>1, <1>2 DEF Splits
<1>4. ReaderInStep' /\ read_pos' \in Slots /\ read_subframe' \in 0 .. Hop - 1
  <2>1. ((elapsed - in_hand) % 8) + in_hand = elapsed - 8 * c
    BY <1>1
  <2>2. read_subframe' = (elapsed - 8 * c) % 8 /\ read_pos' = ((c % 100) + ((elapsed - 8 * c) \div 8)) % 100
    BY <1>1, <1>2, <2>1 DEF Advance
  <2>3. c \in Nat
    BY <1>1
  <2> HIDE DEF c
  <2>4. (elapsed - 8 * c) % 8 = elapsed % 8 /\ (elapsed - 8 * c) \div 8 = W - c
    BY <1>1, <2>3
  <2>5. ((c % 100) + (W - c)) % 100 = W % 100
    BY <1>1, <2>3
  <2>6. Consumed' = elapsed /\ elapsed' = elapsed
    BY <1>1, <1>2 DEF Consumed
  <2> QED BY <1>1, <2>2, <2>4, <2>5, <2>6 DEF ReaderInStep
<1>5. /\ J \in -1 .. W - 1 /\ W - J <= 7
      /\ FirstAfter(elapsed - in_hand) < W => J >= FirstAfter(elapsed - in_hand)
      /\ FirstAfter(elapsed - in_hand) >= W => J = W - 1
      /\ Judge(in_hand) = J % 100
  BY <1>1, JudgedByOwn
<1> HIDE DEF J, W
<1>6. Newer(J % 100) = W - 1 - J
  <2>1. NextSlot(J % 100) = (J + 1) % 100
    BY <1>5, SlotArithmetic DEF NextSlot
  <2>2. W \in Nat
    BY <1>1 DEF W
  <2> QED BY <1>1, <1>5, <2>1, <2>2, Distance DEF Newer
<1>7. /\ reading'.pos = J % 100 /\ reading'.begin = elapsed - in_hand
      /\ reading'.valid => J + reading'.music = W - 1
      /\ reading'.ahead <= reading'.music /\ reading'.ahead + reading'.behind <= 6
  <2>1. W \in Nat /\ Newer(J % 100) \in 0 .. 6
    BY <1>1, <1>5, <1>6 DEF W
  <2>2. CASE info[J % 100].valid
    BY <1>2, <1>5, <1>6, <2>1, <2>2 DEF Read, LesserLen
  <2>3. CASE ~ info[J % 100].valid
    BY <1>2, <1>5, <1>6, <2>1, <2>3 DEF Read, LesserLen
  <2> QED BY <2>2, <2>3
<1>8. VerdictOfFrame'
  <2>1. Windows' = W
    BY <1>1, <1>2 DEF Windows
  <2> QED BY <1>5, <1>7, <2>1 DEF VerdictOfFrame, FirstAfter
<1>9. RingTypeOK' /\ Begun' /\ WriterInStep'
  BY <1>1, <1>2, <1>3, <1>4 DEF RingIInv, RingTypeOK, Begun, WriterInStep, Windows
<1>10. ResultsPlaced'
  BY <1>2 DEF RingIInv, ResultsPlaced, Windows, ResultOf, SoundIn
<1> QED BY <1>4, <1>8, <1>9, <1>10 DEF RingIInv

(***************************************************************************)
(* A reset starts over, in whatever state.                                 *)
(***************************************************************************)
LEMMA ResetStep ==
  ASSUME RingIInv, ResetIfInitialized, in_hand = 0, UNCHANGED <<sounds, in_hand, pcm_len>>, sub_frames' \in Nat
  PROVE  RingIInv'
<1> USE RingConstants
<1>1. CASE initialized
  <2>1. Reset
    BY <1>1 DEF ResetIfInitialized
  <2>2. Windows' = 0 /\ Consumed' = 0
    <3>1. elapsed' = 0 /\ in_hand' = 0 /\ pcm_len' = 0
      BY <2>1 DEF Reset, RingIInv, RingTypeOK
    <3> QED BY <3>1 DEF Windows, Consumed
  <2>3. info' \in [Slots -> Result]
    <3>1. Unheard \in Result
      BY DEF Unheard, Result
    <3> QED BY <2>1, <3>1 DEF Reset
  <2>4. RingTypeOK'
    <3>1. sounds' \in Sound /\ pcm_len' = 0 /\ in_hand' = 0
      BY DEF RingIInv, RingTypeOK
    <3>2. initialized' \in BOOLEAN
      BY <2>1 DEF Reset
    <3>3. mem_fill' = 0 /\ write_pos' = 0 /\ read_pos' = 0 /\ read_subframe' = 0 /\ elapsed' = 0
      BY <2>1 DEF Reset
    <3> QED BY <2>3, <3>1, <3>2, <3>3 DEF RingTypeOK
  <2>5. WriterInStep' /\ ReaderInStep' /\ Begun'
    BY <2>1, <2>2 DEF Reset, WriterInStep, ReaderInStep, Begun
  <2>6. VerdictOfFrame' /\ ResultsPlaced'
    BY <2>1, <2>2 DEF Reset, VerdictOfFrame, ResultsPlaced
  <2> QED BY <2>4, <2>5, <2>6 DEF RingIInv
<1>2. CASE ~ initialized
  <2>1. UNCHANGED <<initialized, mem_fill, write_pos, read_pos, read_subframe, info, elapsed, reading>>
    BY <1>2 DEF ResetIfInitialized
  <2> QED
    BY <2>1 DEF RingIInv, RingTypeOK, Begun, WriterInStep, ReaderInStep, VerdictOfFrame, ResultsPlaced,
                Windows, Consumed, ResultOf, SoundIn
<1> QED BY <1>1, <1>2

LEMMA RingNextIInv == RingIInv /\ [RingNext]_ring_vars => RingIInv'
<1> SUFFICES ASSUME RingIInv, [RingNext]_ring_vars PROVE RingIInv'
    OBVIOUS
<1> USE RingConstants
<1>1. CASE TonalityAnalysis
  <2>1. reading' = NoReading
    BY <1>1 DEF TonalityAnalysis, RingIInv, RingTypeOK, Begun
  <2>2. VerdictOfFrame'
    BY <2>1 DEF VerdictOfFrame
  <2> QED BY <1>1, <2>2, AnalysisKeepsStep, ResultsStay DEF RingIInv
<1>2. CASE GetInfo
  BY <1>2, GetInfoStep
<1>3. CASE EncodeAnalysed
  <2>1. PICK len \in Durations : in_hand' = len /\ pcm_len' = len
    BY <1>3 DEF EncodeAnalysed
  <2>2. len \in 1 .. 48
    BY DurationsAssumption DEF Legal
  <2>3. /\ in_hand = 0 /\ sub_frames = 0 /\ reading' = NoReading
        /\ UNCHANGED <<sounds, initialized, mem_fill, write_pos, read_pos, read_subframe, info,
                       sub_frames, elapsed>>
    BY <1>3 DEF EncodeAnalysed, Between
  <2>4. Consumed' = elapsed /\ Consumed = elapsed
    BY <2>1, <2>2, <2>3 DEF Consumed, RingIInv, RingTypeOK
  <2>5. RingTypeOK' /\ Begun'
    BY <2>1, <2>2, <2>3 DEF RingIInv, RingTypeOK, Begun
  <2>6. WriterInStep' /\ ReaderInStep' /\ VerdictOfFrame' /\ ResultsPlaced'
    BY <2>3, <2>4 DEF RingIInv, WriterInStep, ReaderInStep, VerdictOfFrame, ResultsPlaced, Windows, ResultOf, SoundIn
  <2> QED BY <2>5, <2>6 DEF RingIInv
<1>4. CASE EncodePlain
  BY <1>4, ResetStep DEF EncodePlain, Between, RingIInv, RingTypeOK
<1>5. CASE EncodeSubFrame
  <2>1. in_hand = 0 /\ sub_frames' \in Nat
    BY <1>5 DEF EncodeSubFrame, RingIInv, RingTypeOK, Begun
  <2> QED BY <1>5, <2>1, ResetStep DEF EncodeSubFrame
<1>6. CASE UNCHANGED ring_vars
  BY <1>6 DEF ring_vars, RingIInv, RingTypeOK, Begun, WriterInStep, ReaderInStep, VerdictOfFrame,
              ResultsPlaced, Windows, Consumed, ResultOf, SoundIn
<1> QED BY <1>1, <1>2, <1>3, <1>4, <1>5, <1>6 DEF RingNext

(* Writer and reader of the analysis ring are where the audio puts them,   *)
(* after any mix of frame lengths and resets (analysis.rs:393-407,588-631).*)
THEOREM RingFollowsAudio == RingSpec => [](WriterInStep /\ ReaderInStep)
<1>1. RingSpec => []RingIInv
  BY RingInitIInv, RingNextIInv, PTL DEF RingSpec
<1>2. RingIInv => WriterInStep /\ ReaderInStep
  BY DEF RingIInv
<1> QED BY <1>1, <1>2, PTL

(* Every frame is judged by the analysis of its own sound, and what is     *)
(* read with it was analysed (tonality_get_info, analysis.rs:392-533).     *)
THEOREM VerdictInStep == RingSpec => []AnalysisInStep
<1>1. RingSpec => []RingIInv
  BY RingInitIInv, RingNextIInv, PTL DEF RingSpec
<1>2. RingIInv => AnalysisInStep
  BY DEF RingIInv, AnalysisInStep
<1> QED BY <1>1, <1>2, PTL

-----------------------------------------------------------------------------
(***************************************************************************)
(* The encoder's control. What the thresholds and the signal decide is     *)
(* never looked at: each property follows from the configurations a        *)
(* decision may have (Decision), from the frames coded under it (Run) and  *)
(* from two histories that the count of inactive time bounds (Histories).  *)
(***************************************************************************)
(***************************************************************************)
(* Frame sizes, configurations and what they say.                          *)
(***************************************************************************)
(* The durations of a request, in half milliseconds, and the               *)
(* configurations a TOC can name.                                          *)
HalvesOf == {5, 10, 20, 40, 80, 120, 160, 200, 240}
LegalConfig(mode, bw, half) ==
  \/ mode = "silk" /\ bw \in {NB, MB, WB} /\ half \in {20, 40, 80, 120}
  \/ mode = "hybrid" /\ bw \in {SWB, FB} /\ half \in {20, 40}
  \/ mode = "celt" /\ bw \in {NB, MB, WB, SWB, FB} /\ half \in {5, 10, 20, 40}

(* The number of doublings of a frame rate, for every duration of a frame. *)
LEMMA PeriodIs ==
  /\ Period(Rate(5)) = 0 /\ Period(Rate(10)) = 1 /\ Period(Rate(20)) = 2
  /\ Period(Rate(40)) = 3 /\ Period(Rate(80)) = 4 /\ Period(Rate(120)) = 5
<1>1. /\ Rate(5) = 400 /\ Rate(10) = 200 /\ Rate(20) = 100
      /\ Rate(40) = 50 /\ Rate(80) = 25 /\ Rate(120) = 16
  BY DEF Rate
<1>2. ASSUME NEW rate \in Nat, NEW q \in 0 .. 5,
             rate * Doubled[q + 1] >= 400, q > 0 => rate * Doubled[q] < 400
      PROVE  Period(rate) = q
  <2> DEFINE P(p) == rate * Doubled[p + 1] >= 400 /\ (p > 0 => rate * Doubled[p] < 400)
  <2>1. P(q)
    BY <1>2
  <2>2. ASSUME NEW p \in 0 .. 6, P(p)
        PROVE  p = q
    BY <1>2, <2>2 DEF Doubled
  <2> HIDE DEF P
  <2>3. Period(rate) = CHOOSE p \in 0 .. 6 : P(p)
    BY DEF Period, P
  <2> QED
    BY <2>1, <2>2, <2>3
<1> QED
  BY <1>1, <1>2 DEF Doubled

(* What gen_toc writes the decoder reads back: mode, duration and          *)
(* bandwidth, CELT's narrowest being narrowband.                           *)
LEMMA TocReadsBack ==
  ASSUME NEW mode, NEW bw, NEW half, LegalConfig(mode, bw, half)
  PROVE  LET toc == GenToc(mode, Rate(half), bw) IN
         /\ ModeFromToc(toc) = mode
         /\ HalfFromToc(toc) = half
         /\ BandwidthFromToc(toc) = IF mode = "celt" THEN Most(bw, MB) ELSE bw
<1> DEFINE toc == GenToc(mode, Rate(half), bw)
<1>1. CASE mode = "silk" /\ bw \in {NB, MB, WB} /\ half \in {20, 40, 80, 120}
  <2>1. \/ half = 20 /\ Period(Rate(half)) = 2
        \/ half = 40 /\ Period(Rate(half)) = 3
        \/ half = 80 /\ Period(Rate(half)) = 4
        \/ half = 120 /\ Period(Rate(half)) = 5
    BY <1>1, PeriodIs
  <2>2. bw \in {1, 2, 3}
    BY <1>1 DEF NB, MB, WB
  <2>3. toc = (bw - 1) * 4 + (Period(Rate(half)) - 2)
    BY <1>1, <2>1, <2>2 DEF GenToc, NB
  <2>4. toc = (bw - 1) * 4 + (IF half = 20 THEN 0 ELSE IF half = 40 THEN 1 ELSE IF half = 80 THEN 2 ELSE 3)
    BY <2>1, <2>2, <2>3
  <2> HIDE DEF toc
  <2>5. ModeFromToc(toc) = "silk"
    BY <2>1, <2>2, <2>4 DEF ModeFromToc
  <2>6. HalfFromToc(toc) = half
    BY <2>1, <2>2, <2>4, <2>5 DEF HalfFromToc
  <2>7. BandwidthFromToc(toc) = bw
    BY <2>1, <2>2, <2>4, <2>5 DEF BandwidthFromToc, NB
  <2> QED
    BY <1>1, <2>5, <2>6, <2>7 DEF toc
<1>2. CASE mode = "hybrid" /\ bw \in {SWB, FB} /\ half \in {20, 40}
  <2>1. Rate(half) = IF half = 20 THEN 100 ELSE 50
    BY <1>2 DEF Rate
  <2>2. toc = (IF bw = SWB THEN 12 ELSE 14) + (IF half = 20 THEN 0 ELSE 1)
    BY <1>2, <2>1 DEF GenToc
  <2> HIDE DEF toc
  <2>3. ModeFromToc(toc) = "hybrid"
    BY <1>2, <2>2 DEF ModeFromToc
  <2>4. HalfFromToc(toc) = half
    BY <1>2, <2>2, <2>3 DEF HalfFromToc
  <2>5. BandwidthFromToc(toc) = bw
    BY <1>2, <2>2, <2>3 DEF BandwidthFromToc, SWB, FB
  <2> QED
    BY <1>2, <2>3, <2>4, <2>5 DEF toc
<1>3. CASE mode = "celt" /\ bw \in {NB, MB, WB, SWB, FB} /\ half \in {5, 10, 20, 40}
  <2>1. \/ half = 5 /\ Period(Rate(half)) = 0
        \/ half = 10 /\ Period(Rate(half)) = 1
        \/ half = 20 /\ Period(Rate(half)) = 2
        \/ half = 40 /\ Period(Rate(half)) = 3
    BY <1>3, PeriodIs
  <2> DEFINE b == IF bw = 1 THEN 0 ELSE bw - 2
             h == IF half = 5 THEN 0 ELSE IF half = 10 THEN 1 ELSE IF half = 20 THEN 2 ELSE 3
  <2>2. bw \in 1 .. 5 /\ Most(bw - MB, 0) = b /\ Most(bw, MB) = b + 2
    BY <1>3 DEF NB, MB, WB, SWB, FB, Most
  <2>3. toc = 16 + ((b * 4 + h) % 16)
    BY <1>3, <2>1, <2>2 DEF GenToc
  <2>4. b \in 0 .. 3 /\ h \in 0 .. 3
    BY <2>1, <2>2
  <2>5. toc = 16 + b * 4 + h
    BY <2>3, <2>4
  <2>6. half = <<5, 10, 20, 40>>[h + 1]
    BY <2>1
  <2> HIDE DEF toc, b, h
  <2>7. ModeFromToc(toc) = "celt"
    BY <2>4, <2>5 DEF ModeFromToc
  <2>8. (toc % 4) = h /\ MB + (toc - 16) \div 4 = b + 2
    BY <2>4, <2>5 DEF MB
  <2>9. HalfFromToc(toc) = half /\ BandwidthFromToc(toc) = b + 2
    BY <2>6, <2>7, <2>8 DEF HalfFromToc, BandwidthFromToc
  <2> QED
    BY <1>3, <2>2, <2>7, <2>9 DEF toc
<1> QED
  BY <1>1, <1>2, <1>3 DEF LegalConfig

(***************************************************************************)
(* A decision.                                                             *)
(***************************************************************************)
(* What the assumptions say of a stream and of its settings; the widest    *)
(* bandwidth they allow.                                                   *)
StreamOK(st) == st.channels \in {1, 2} /\ st.fs \in {8000, 12000, 16000, 24000, 48000}
SetOK(s) ==
  s.bitrate \in Int /\ s.maxBw \in 1 .. 5 /\ s.forceBw \in 0 .. 5 /\ s.dtx \in BOOLEAN
Limit(s) == IF s.forceBw # 0 THEN s.forceBw ELSE s.maxBw
Widest(st, s) == Least(NyquistCap(st.fs), Limit(s))
Capped(st, s, bw) ==
  \/ bw <= IF Widest(st, s) = MB THEN WB ELSE Widest(st, s)
  \/ st.channels = 2 /\ s.bitrate > 28000 /\ bw = FB

(* The encoder's decision state.                                           *)
EncFields == {"prev", "auto", "first", "voice", "frames", "idle"}
EncOK(e) == e = [x \in EncFields |-> e[x]] /\ e.idle \in 0 .. Refresh

(* A frame changes the mode and the idle count of the encoder, not its shape. *)
Moves(e, z, q, j) == z = [e EXCEPT !.prev = q, !.idle = j]
LEMMA EncodersKept ==
  ASSUME NEW e, EncOK(e), NEW z, NEW q, NEW j \in 0 .. Refresh, Moves(e, z, q, j)
  PROVE  EncOK(z) /\ z.idle = j
<1>1. e = [y \in EncFields |-> e[y]] /\ z = [e EXCEPT !.prev = q, !.idle = j]
  BY DEF EncOK, Moves
<1>2. z = [y \in EncFields |-> z[y]] /\ z.idle = j
  BY <1>1 DEF EncFields
<1> QED
  BY <1>2 DEF EncOK

(* Every cap is a bandwidth.                                               *)
LEMMA WidestIs ==
  ASSUME NEW st, StreamOK(st), NEW s, SetOK(s)
  PROVE  NyquistCap(st.fs) \in 1 .. 5 /\ Limit(s) \in 1 .. 5 /\ Widest(st, s) \in 1 .. 5
  BY DEF NyquistCap, Limit, Widest, Least, StreamOK, SetOK, NB, MB, WB, SWB, FB

(* The least of four bandwidths, and the walk, are bandwidths whatever the *)
(* thresholds say.                                                         *)
LEMMA MinIs ==
  ASSUME NEW a \in Int, NEW b \in Int, NEW c \in Int, NEW d \in Int
  PROVE  /\ Min({a, b, c, d}) \in {a, b, c, d}
         /\ Min({a, b, c, d}) <= a /\ Min({a, b, c, d}) <= b
         /\ Min({a, b, c, d}) <= c /\ Min({a, b, c, d}) <= d
<1> DEFINE S == {a, b, c, d}
<1>1. \E x \in S : \A y \in S : x <= y
  OBVIOUS
<1>2. Min(S) \in S /\ \A y \in S : Min(S) <= y
  <2> HIDE DEF S
  <2> QED
    BY <1>1 DEF Min
<1> QED
  BY <1>2

(* The walk down from fullband ends at a bandwidth.                        *)
LEMMA WalkDownIs ==
  ASSUME NEW e, NEW v, NEW equiv
  PROVE  WalkDown(e, v, equiv) \in 1 .. 5
<1> DEFINE S == {NB} \cup {b \in MB .. FB : Affords(e, v, equiv, b)}
<1>1. S \subseteq 1 .. 5 /\ 1 \in S
  BY DEF NB, MB, FB
<1>2. WalkDown(e, v, equiv) = IF Max(S) = MB THEN WB ELSE Max(S)
  BY DEF WalkDown
<1> HIDE DEF S
<1>3. \E x \in S : \A y \in S : x >= y
  <2>1. CASE 5 \in S
    BY <1>1, <2>1
  <2>2. CASE 5 \notin S /\ 4 \in S
    BY <1>1, <2>2
  <2>3. CASE 5 \notin S /\ 4 \notin S /\ 3 \in S
    BY <1>1, <2>3
  <2>4. CASE 5 \notin S /\ 4 \notin S /\ 3 \notin S
    BY <1>1, <2>4
  <2> QED
    BY <2>1, <2>2, <2>3, <2>4
<1>4. Max(S) \in S
  BY <1>3 DEF Max
<1>5. Max(S) \in 1 .. 5
  BY <1>1, <1>4
<1> QED
  <2>1. CASE Max(S) = MB
    BY <1>2, <2>1 DEF WB
  <2>2. CASE Max(S) # MB
    BY <1>2, <1>5, <2>2
  <2> QED
    BY <2>1, <2>2

(* The bandwidth asked for keeps to the caps, or is wideband where CELT    *)
(* has no mediumband.                                                      *)
LEMMA BandwidthIs ==
  ASSUME NEW st, StreamOK(st), NEW s, SetOK(s), NEW mode, NEW det \in 0 .. 5, NEW equiv, NEW auto \in 1 .. 5
  PROVE  LET bw == Bandwidth(st, s, mode, det, equiv, auto) IN
         bw \in 1 .. 5 /\ bw <= IF Widest(st, s) = MB THEN WB ELSE Widest(st, s)
<1> DEFINE asked == IF s.forceBw # 0 THEN s.forceBw ELSE Least(auto, s.maxBw)
           safe == IF mode # "celt" /\ s.cbr /\ s.bitrate < 15000 THEN WB ELSE FB
           nyquist == NyquistCap(st.fs)
           heard == DetectedCap(st, s, mode, det, equiv)
           m == Min({asked, safe, nyquist, heard})
<1>1. asked \in 1 .. 5 /\ asked <= Limit(s)
  BY DEF Least, Limit, SetOK
<1>2. safe \in {3, 5}
  BY DEF WB, FB
<1>3. nyquist \in 1 .. 5
  BY WidestIs
<1>4. heard \in 1 .. 5
  <2>1. CASE det = 0 \/ s.forceBw # 0 \/ mode = "celt"
    BY <2>1 DEF DetectedCap, FB
  <2>2. CASE ~(det = 0 \/ s.forceBw # 0 \/ mode = "celt")
    <3> DEFINE c == CASE equiv <= 30000 * st.channels -> WB
                      [] equiv > 44000 * st.channels -> FB
                      [] OTHER -> SWB
    <3>1. c \in {3, 4, 5}
      BY DEF WB, SWB, FB
    <3>2. heard = Most(det, c)
      BY <2>2 DEF DetectedCap
    <3> HIDE DEF c, heard
    <3> QED
      BY <3>1, <3>2, <2>2 DEF Most
  <2> QED
    BY <2>1, <2>2
<1>5. Bandwidth(st, s, mode, det, equiv, auto) = IF mode = "celt" /\ m = MB THEN WB ELSE m
  BY DEF Bandwidth
<1> HIDE DEF asked, safe, heard, nyquist
<1>a. asked \in Int /\ safe \in Int /\ nyquist \in Int /\ heard \in Int
  BY <1>1, <1>2, <1>3, <1>4
<1>b. m \in {asked, safe, nyquist, heard} /\ m <= asked /\ m <= nyquist
  BY <1>a, MinIs
<1> HIDE DEF m
<1>6. m \in 1 .. 5 /\ m <= asked /\ m <= nyquist
  BY <1>1, <1>2, <1>3, <1>4, <1>b
<1>7. m <= Widest(st, s)
  BY <1>1, <1>3, <1>6, WidestIs DEF Widest, Least, nyquist
<1> QED
  BY <1>5, <1>6, <1>7, WidestIs DEF MB, WB

(* A decision the coders have a configuration for.                         *)
Decision(st, s, e, half, d) ==
  /\ EncOK(d.enc) /\ d.enc.idle = e.idle
  /\ d.bw \in 1 .. 5 /\ Capped(st, s, d.bw)
  /\ \/ d.mode = "silk" /\ d.bw <= WB /\ half >= 20
     \/ d.mode = "hybrid" /\ d.bw >= SWB /\ half >= 20
     \/ d.mode = "celt"

(* Hybrid and fullband CELT are taken where SILK cannot signal the         *)
(* bandwidth: nothing else exceeds the caps.                               *)
LEMMA ReconcileIs ==
  ASSUME NEW st, StreamOK(st), NEW s, SetOK(s), NEW mode \in {"silk", "celt"}, NEW bw \in 1 .. 5,
         bw <= IF Widest(st, s) = MB THEN WB ELSE Widest(st, s)
  PROVE  LET d == Reconcile(st, s, mode, bw) IN
         /\ d.bw \in 1 .. 5 /\ Capped(st, s, d.bw)
         /\ \/ d.mode = "silk" /\ mode = "silk" /\ d.bw <= WB
            \/ d.mode = "hybrid" /\ mode = "silk" /\ d.bw >= SWB
            \/ d.mode = "celt"
<1>1. CASE mode = "silk" /\ bw >= SWB /\ st.channels = 2 /\ s.bitrate > 28000
  BY <1>1 DEF Reconcile, Capped, WB, SWB, FB, StreamOK, SetOK
<1>2. CASE mode = "silk" /\ bw >= SWB /\ (st.channels = 1 \/ s.bitrate <= 28000)
  BY <1>2 DEF Reconcile, Capped, WB, SWB, FB, StreamOK, SetOK
<1>3. CASE ~(mode = "silk" /\ bw >= SWB)
  BY <1>3 DEF Reconcile, Capped, WB, SWB, FB, StreamOK, SetOK
<1> QED
  BY <1>1, <1>2, <1>3 DEF StreamOK, SetOK

(* A frame shorter than 10 ms is never SILK's.                             *)
LEMMA SelectIs ==
  ASSUME NEW st, StreamOK(st), NEW s, SetOK(s), NEW e, EncOK(e), NEW det \in 0 .. 5,
         NEW half \in HalvesOf, NEW v, NEW equiv
  PROVE  LET d == Select(st, s, e, det, Rate(half), v, equiv) IN
         /\ Decision(st, s, e, half, d)
<1> DEFINE mode == SelectMode(st, e.prev, v, equiv, Rate(half))
           auto == WalkDown(e, v, equiv)
           bw == Bandwidth(st, s, mode, det, equiv, auto)
           pick == Reconcile(st, s, mode, bw)
           a == [e EXCEPT !.auto = auto, !.first = FALSE]
           d == Select(st, s, e, det, Rate(half), v, equiv)
<1>1. half < 20 => Rate(half) > 100
  BY DEF Rate, HalvesOf
<1>2. mode \in {"silk", "celt"} /\ (half < 20 => mode = "celt")
  BY <1>1 DEF SelectMode
<1>3. d = [enc |-> a, mode |-> pick.mode, bw |-> pick.bw]
  BY DEF Select, Walked
<1> HIDE DEF mode
<1>4. auto \in 1 .. 5
  BY WalkDownIs
<1> HIDE DEF auto
<1>5. bw \in 1 .. 5 /\ bw <= IF Widest(st, s) = MB THEN WB ELSE Widest(st, s)
  BY <1>4, BandwidthIs
<1> HIDE DEF bw
<1>6. /\ pick.bw \in 1 .. 5 /\ Capped(st, s, pick.bw)
      /\ \/ pick.mode = "silk" /\ mode = "silk" /\ pick.bw <= WB
         \/ pick.mode = "hybrid" /\ mode = "silk" /\ pick.bw >= SWB
         \/ pick.mode = "celt"
  BY <1>2, <1>5, ReconcileIs
<1>7. EncOK(a) /\ a.idle = e.idle
  BY DEF EncOK, EncFields
<1> HIDE DEF pick, a, d
<1>8. half >= 20 \/ half < 20
  BY DEF HalvesOf
<1>9. d.enc = a /\ d.mode = pick.mode /\ d.bw = pick.bw
  BY <1>3
<1> QED
  BY <1>2, <1>6, <1>7, <1>8, <1>9 DEF Decision, d

(* A packet's decision is legal, the hand-over that puts CELT off by a     *)
(* packet included; a frame of a packet of several is decided as its       *)
(* packet was.                                                             *)
LEMMA DecideIs ==
  ASSUME NEW st, StreamOK(st), NEW s, SetOK(s), NEW e, EncOK(e), NEW x, x.half \in HalvesOf,
         x.sound.bw \in 0 .. 5
  PROVE  LET d == Decide(st, s, e, x) IN
         /\ x.lock = None => Decision(st, s, e, x.half, d)
         /\ x.lock # None => EncOK(d.enc) /\ d.enc.idle = e.idle
                             /\ d.mode = x.lock.mode /\ d.bw = x.lock.bw
<1> DEFINE h == Hear(e, x, Analysed(st, s, x))
           v == VoiceEst(st, s, h.enc.voice)
           equiv == EquivRate(s, st.channels, Rate(x.half))
           g == Select(st, s, h.enc, h.det, Rate(x.half), v, equiv)
           d == Decide(st, s, e, x)
<1>1. d = HandOver(g, x)
  BY DEF Decide, Heard
<1>2. EncOK(h.enc) /\ h.enc.idle = e.idle /\ h.det \in 0 .. 5
  <2>1. \E a, b : h.enc = [e EXCEPT !.frames = a, !.voice = b]
    BY DEF Hear
  <2>2. h.det \in {0, x.sound.bw}
    BY DEF Hear
  <2> HIDE DEF h
  <2>3. PICK a, b : h.enc = [e EXCEPT !.frames = a, !.voice = b]
    BY <2>1
  <2>4. h.det \in 0 .. 5
    BY <2>2
  <2> QED
    BY <2>3, <2>4 DEF EncOK, EncFields
<1> HIDE DEF h, v, equiv
<1>3. Decision(st, s, h.enc, x.half, g)
  BY <1>2, SelectIs
<1>4. Decision(st, s, e, x.half, g)
  BY <1>2, <1>3 DEF Decision
<1> HIDE DEF g, d
<1>5. CASE x.lock # None
  <2>1. d = [enc |-> g.enc, mode |-> x.lock.mode, bw |-> x.lock.bw, toCelt |-> x.handOver]
    BY <1>1, <1>5 DEF HandOver
  <2> QED
    BY <1>4, <1>5, <2>1 DEF Decision, d
<1>6. CASE x.lock = None /\ g.mode = "celt" /\ g.enc.prev \in {"silk", "hybrid"} /\ x.half >= 20
  <2>1. d = [enc |-> g.enc, mode |-> IF g.bw >= SWB THEN "hybrid" ELSE "silk",
             bw |-> g.bw, toCelt |-> TRUE]
    BY <1>1, <1>6 DEF HandOver
  <2>2. g.bw >= SWB \/ g.bw <= WB
    BY <1>4 DEF Decision, SWB, WB
  <2>3. Decision(st, s, e, x.half, d)
    BY <1>4, <1>6, <2>1, <2>2 DEF Decision
  <2> QED
    BY <1>6, <2>3 DEF d
<1>7. CASE x.lock = None /\ ~(g.mode = "celt" /\ g.enc.prev \in {"silk", "hybrid"} /\ x.half >= 20)
  <2>1. d = [enc |-> g.enc, mode |-> g.mode, bw |-> g.bw, toCelt |-> FALSE]
    BY <1>1, <1>7 DEF HandOver
  <2>2. Decision(st, s, e, x.half, d)
    BY <1>4, <2>1 DEF Decision
  <2> QED
    BY <1>7, <2>2 DEF d
<1> QED
  BY <1>5, <1>6, <1>7

(***************************************************************************)
(* A frame.                                                                *)
(***************************************************************************)
(* The frames of one configuration.                                        *)
Frame(mode, bw, half) ==
  [mode : {mode}, bw : {bw}, half : {half}, kind : {"coded", "tiny", "dtx"},
   toc : {GenToc(mode, Rate(half), bw)}]

(* The pause so far is what the inactive time past the hangover allows.    *)
Histories(idle, pause, inactive) ==
  /\ pause \in Nat /\ (pause = 0 \/ pause < idle - 280)
  /\ inactive \in 0 .. QuietCap /\ (idle <= inactive \/ inactive = QuietCap)

(* r after one more frame, active or not.                                  *)
FrameEffect(r, o, f, active) ==
  /\ EncOK(o.enc) /\ Histories(o.enc.idle, o.gap, o.quiet)
  /\ o.frames = Append(r.frames, f)
  /\ f.kind = "dtx" => ~active /\ o.quiet = QuietCap
  /\ ~active /\ r.quiet = QuietCap => o.quiet = QuietCap

(* Time without activity: the pause grows only past the hangover and ends  *)
(* with the refresh.                                                       *)
LEMMA PauseGrows ==
  ASSUME NEW i, i \in 0 .. 1200, NEW half, half \in 5 .. 120, NEW g, NEW q, Histories(i, g, q)
  PROVE  /\ i + half > 400 => /\ Histories(i + half, g + half, Least(q + half, QuietCap))
                               /\ Least(q + half, QuietCap) = QuietCap
         /\ Histories(i + half, 0, Least(q + half, QuietCap))
         /\ i + half > 1200 => Histories(400, 0, Least(q + half, QuietCap))
         /\ Histories(0, 0, Least(q + half, QuietCap))
         /\ q = QuietCap => Least(q + half, QuietCap) = QuietCap
  BY DEF Histories, Least, QuietCap

(* One frame adds one entry to the packet and keeps the histories in step  *)
(* with the count of inactive time, whether it is coded, left out or finds *)
(* no room.                                                                *)
LEMMA CodeFrameIs ==
  ASSUME NEW st, NEW s, SetOK(s), NEW r, NEW d, NEW x, EncOK(d.enc),
         Histories(d.enc.idle, r.gap, r.quiet), LegalConfig(d.mode, d.bw, x.half)
  PROVE  \E f \in Frame(d.mode, d.bw, x.half) :
           FrameEffect(r, CodeFrame(st, s, r, d, x), f, Active(x, Analysed(st, s, x)))
<1> DEFINE an == Analysed(st, s, x)
           kind == Kind(s, d, x, an)
           active == Active(x, an)
           i == d.enc.idle
           j == Idle(s, d.enc, x, an)
           long == i + x.half > 1200
           left == LeftOut(s, d.enc, x, an)
           more == Least(r.quiet + x.half, QuietCap)
           f == [mode |-> d.mode, bw |-> d.bw, half |-> x.half, kind |-> kind,
                 toc |-> GenToc(d.mode, Rate(x.half), d.bw)]
           o == CodeFrame(st, s, r, d, x)
<1>1. x.half \in 5 .. 120
  BY DEF LegalConfig
<1>a. x.half \in Sizes[d.mode]
  BY DEF LegalConfig, Sizes
<1>2. i \in 0 .. 1200
  BY DEF EncOK, Refresh
<1>b. Histories(i, r.gap, r.quiet)
  OBVIOUS
<1>3. /\ active \in BOOLEAN /\ left \in BOOLEAN /\ long \in BOOLEAN /\ s.dtx \in BOOLEAN
      /\ left => ~active /\ s.dtx /\ i + x.half > 400 /\ ~long
  <2>1. left => s.dtx /\ ~active /\ i + x.half \in 401 .. 1200
    BY DEF LeftOut, Hangover, Refresh
  <2>2. i + x.half \in 401 .. 1200 => i + x.half > 400 /\ ~(i + x.half > 1200)
    <3> HIDE DEF i
    <3> QED
      BY <1>1, <1>2
  <2>3. active \in BOOLEAN
    BY DEF Active
  <2>4. left \in BOOLEAN
    BY DEF LeftOut
  <2>5. s.dtx \in BOOLEAN
    BY DEF SetOK
  <2>6. long \in BOOLEAN
    OBVIOUS
  <2> HIDE DEF active, left
  <2> QED
    BY <2>1, <2>2, <2>3, <2>4, <2>5, <2>6
<1>4. j = IF active \/ ~s.dtx THEN 0 ELSE IF long THEN 400 ELSE i + x.half
  BY DEF Idle, Hangover, Refresh
<1>5. /\ o.enc = NextEnc(s, d, x, an, kind)
      /\ o.frames = Append(r.frames, f)
      /\ o.gap = CASE kind = "coded" -> 0 [] kind = "dtx" -> r.gap + x.half [] OTHER -> r.gap
      /\ o.quiet = CASE kind \in {"refused", "tiny"} -> r.quiet
                     [] kind \in {"coded", "dtx"} /\ active -> 0
                     [] OTHER -> more
  BY DEF CodeFrame, Coded
<1>6. kind = IF ~x.room THEN "tiny" ELSE IF left THEN "dtx" ELSE "coded"
  <2> HIDE DEF left
  <2>1. kind = CASE x.half \notin Sizes[d.mode] -> "refused"
                 [] x.half \in Sizes[d.mode] /\ ~x.room -> "tiny"
                 [] x.half \in Sizes[d.mode] /\ x.room /\ left -> "dtx"
                 [] OTHER -> "coded"
    BY DEF Kind, left
  <2> HIDE DEF kind
  <2> QED
    BY <1>a, <1>3, <2>1
<1>7. kind \in {"coded", "tiny", "dtx"} /\ (kind = "dtx" => left)
  BY <1>6
<1>8. f \in Frame(d.mode, d.bw, x.half) /\ f.kind = kind
  BY <1>7 DEF Frame
<1>9. /\ i + x.half > 400 => Histories(i + x.half, r.gap + x.half, more) /\ more = QuietCap
      /\ Histories(i + x.half, 0, more)
      /\ long => Histories(400, 0, more)
      /\ Histories(0, 0, more)
      /\ r.quiet = QuietCap => more = QuietCap
  <2> DEFINE half == x.half
             g == r.gap
             q == r.quiet
  <2>1. half \in 5 .. 120 /\ i \in 0 .. 1200 /\ Histories(i, g, q)
    BY <1>1, <1>2, <1>b
  <2> HIDE DEF i, half, g, q
  <2>2. /\ i + half > 400 => /\ Histories(i + half, g + half, Least(q + half, QuietCap))
                             /\ Least(q + half, QuietCap) = QuietCap
        /\ Histories(i + half, 0, Least(q + half, QuietCap))
        /\ i + half > 1200 => Histories(400, 0, Least(q + half, QuietCap))
        /\ Histories(0, 0, Least(q + half, QuietCap))
        /\ q = QuietCap => Least(q + half, QuietCap) = QuietCap
    BY <2>1, PauseGrows
  <2> QED
    BY <2>2 DEF half, g, q
<1>10. Histories(0, 0, 0)
  BY DEF Histories, QuietCap
<1>11. j \in 0 .. 1200
  <2>1. i + x.half \in Nat /\ (~long => i + x.half <= 1200)
    <3> HIDE DEF i
    <3> QED
      BY <1>1, <1>2
  <2> DEFINE u == i + x.half
  <2>2. j = IF active \/ ~s.dtx THEN 0 ELSE IF long THEN 400 ELSE u
    BY <1>4
  <2>3. u \in Nat /\ (~long => u <= 1200)
    BY <2>1
  <2> HIDE DEF j, i, active, long, u
  <2> QED
    BY <2>2, <2>3, SMTT(30)
<1> HIDE DEF f, o, kind, active, an, i, j, left, long, more
<1>12. ASSUME kind = "tiny"
       PROVE  FrameEffect(r, o, f, active)
  <2>1. o.enc = [d.enc EXCEPT !.prev = d.mode]
    BY <1>5, <1>12 DEF NextEnc
  <2>2. EncOK(o.enc) /\ o.enc.idle = i
    BY <2>1 DEF EncOK, EncFields, i
  <2>3. o.gap = r.gap /\ o.quiet = r.quiet
    BY <1>5, <1>12
  <2> QED
    BY <1>b, <1>5, <1>8, <1>12, <2>2, <2>3 DEF FrameEffect
<1>13. ASSUME kind \in {"coded", "dtx"}
       PROVE  FrameEffect(r, o, f, active)
  <2>1. \E q : o.enc = [d.enc EXCEPT !.prev = q, !.idle = j]
    BY <1>5, <1>13 DEF NextEnc, j
  <2>2. EncOK(o.enc) /\ o.enc.idle = j
    <3>1. PICK q : o.enc = [d.enc EXCEPT !.prev = q, !.idle = j]
      BY <2>1
    <3> QED
      <4>1. j \in 0 .. Refresh
        BY <1>11 DEF Refresh
      <4>2. Moves(d.enc, o.enc, q, j)
        BY <3>1 DEF Moves
      <4> HIDE DEF j, o
      <4> QED
        BY <4>1, <4>2, EncodersKept
  <2>3. CASE kind = "dtx"
    <3>1. left /\ ~active /\ j = i + x.half /\ i + x.half > 400
      BY <1>3, <1>4, <1>7, <2>3
    <3>2. o.gap = r.gap + x.half /\ o.quiet = more
      BY <1>5, <2>3, <3>1
    <3> QED
      BY <1>5, <1>8, <1>9, <2>2, <2>3, <3>1, <3>2 DEF FrameEffect
  <2>4. CASE kind = "coded" /\ active
    <3>1. o.gap = 0 /\ o.quiet = 0 /\ j = 0
      BY <1>3, <1>4, <1>5, <2>4
    <3> QED
      BY <1>5, <1>8, <1>10, <2>2, <2>4, <3>1 DEF FrameEffect
  <2>5. CASE kind = "coded" /\ ~active
    <3>1. o.gap = 0 /\ o.quiet = more
      BY <1>5, <2>5
    <3>2. Histories(j, 0, more)
      BY <1>3, <1>4, <1>9
    <3> QED
      BY <1>5, <1>8, <1>9, <2>2, <2>5, <3>1, <3>2 DEF FrameEffect
  <2> QED
    BY <1>3, <1>13, <2>3, <2>4, <2>5
<1>14. \E g \in Frame(d.mode, d.bw, x.half) : FrameEffect(r, o, g, active)
  BY <1>7, <1>8, <1>12, <1>13
<1> QED
  BY <1>14 DEF o, active, an

(***************************************************************************)
(* A packet.                                                               *)
(***************************************************************************)
(* A packet in which a frame was left out.                                 *)
LeavesOut(frames) == \E k \in DOMAIN frames : frames[k].kind = "dtx"

(* r is the encoder after n frames of one configuration.                   *)
Run(r, mode, bw, half, n) ==
  /\ EncOK(r.enc) /\ Histories(r.enc.idle, r.gap, r.quiet)
  /\ r.frames \in Seq(Frame(mode, bw, half)) /\ Len(r.frames) = n
  /\ LeavesOut(r.frames) => r.quiet = QuietCap

(* One more frame of the packet's configuration.                           *)
LEMMA FrameRuns ==
  ASSUME NEW st, NEW s, SetOK(s), NEW r, NEW d, NEW x, NEW n \in Nat,
         Run(r, d.mode, d.bw, x.half, n), LegalConfig(d.mode, d.bw, x.half),
         EncOK(d.enc), d.enc.idle = r.enc.idle,
         LeavesOut(r.frames) => ~Active(x, Analysed(st, s, x))
  PROVE  LET o == CodeFrame(st, s, r, d, x) IN
         /\ Run(o, d.mode, d.bw, x.half, n + 1)
         /\ LeavesOut(o.frames) => ~Active(x, Analysed(st, s, x))
<1> DEFINE o == CodeFrame(st, s, r, d, x)
           active == Active(x, Analysed(st, s, x))
           F == Frame(d.mode, d.bw, x.half)
<1>1. Histories(d.enc.idle, r.gap, r.quiet)
  BY DEF Run
<1>2. PICK f \in F : FrameEffect(r, o, f, active)
  BY <1>1, CodeFrameIs
<1> HIDE DEF o, active, F
<1>3. r.frames \in Seq(F) /\ Len(r.frames) = n
  BY DEF Run, F
<1>4. o.frames = Append(r.frames, f)
  BY <1>2 DEF FrameEffect
<1>5. /\ o.frames \in Seq(F) /\ Len(o.frames) = n + 1
      /\ DOMAIN r.frames = 1 .. n /\ DOMAIN o.frames = 1 .. n + 1
      /\ \A k \in 1 .. n : o.frames[k] = r.frames[k]
      /\ o.frames[n + 1] = f
  BY <1>3, <1>4
<1>6. LeavesOut(o.frames) => LeavesOut(r.frames) \/ f.kind = "dtx"
  BY <1>5 DEF LeavesOut
<1>7. LeavesOut(r.frames) => r.quiet = QuietCap /\ ~active
  BY DEF Run, active
<1>8. LeavesOut(o.frames) => ~active /\ o.quiet = QuietCap
  BY <1>2, <1>6, <1>7 DEF FrameEffect
<1> QED
  BY <1>2, <1>5, <1>8 DEF FrameEffect, Run, o, active, F

(* What the assumptions say of a call.                                     *)
CallOK(c) ==
  /\ c.half \in HalvesOf /\ c.quietFrom \in Nat \ {0} /\ c.sound.bw \in 0 .. 5 /\ SetOK(c.set)

(* The sub-frames of a packet of several: silence, once begun, lasts.      *)
SubRun(c, r, d, half, i) ==
  Run(r, d.mode, d.bw, half, i) /\ (LeavesOut(r.frames) => i >= c.quietFrom)

(* A sub-frame takes the packet's configuration, and once one was left out *)
(* no later one is heard: silence lasts to the end of the packet.          *)
LEMMA SubFrameRuns ==
  ASSUME NEW st, StreamOK(st), NEW c, CallOK(c), NEW r, NEW d, NEW n, NEW i \in Nat,
         LegalConfig(d.mode, d.bw, SubHalf(d.mode, c.half)),
         SubRun(c, r, d, SubHalf(d.mode, c.half), i)
  PROVE  SubRun(c, SubFrame(st, c, r, d, i + 1, n), d, SubHalf(d.mode, c.half), i + 1)
<1> DEFINE half == SubHalf(d.mode, c.half)
           x == [half |-> half, silent |-> i + 1 >= c.quietFrom, sound |-> c.sound,
                 room |-> c.room, lock |-> [mode |-> d.mode, bw |-> d.bw],
                 handOver |-> d.toCelt /\ i + 1 = n]
           g == Decide(st, c.set, r.enc, x)
           o == CodeFrame(st, c.set, r, g, x)
           active == Active(x, Analysed(st, c.set, x))
<1>1. ~\E k \in DOMAIN r.frames : r.frames[k].kind = "refused"
  <2> DEFINE F == Frame(d.mode, d.bw, half)
  <2>1. r.frames \in Seq(F)
    BY DEF SubRun, Run
  <2>2. \A f \in F : f.kind # "refused"
    BY DEF Frame
  <2> HIDE DEF F
  <2> QED
    BY <2>1, <2>2
<1>2. SubFrame(st, c, r, d, i + 1, n) = o
  BY <1>1 DEF SubFrame
<1>3. x.half = half /\ x.sound.bw \in 0 .. 5 /\ x.lock = [mode |-> d.mode, bw |-> d.bw]
  BY DEF CallOK
<1>4. x.lock # None /\ x.lock.mode = d.mode /\ x.lock.bw = d.bw
  BY <1>3 DEF None, LegalConfig
<1>5. active <=> ~(i + 1 >= c.quietFrom)
  <2>1. ~Analysed(st, c.set, x)
    BY <1>4 DEF Analysed
  <2>2. x.silent <=> i + 1 >= c.quietFrom
    OBVIOUS
  <2> HIDE DEF x
  <2> QED
    BY <2>1, <2>2 DEF Active
<1>6. half \in HalvesOf
  BY DEF SubHalf, HalvesOf
<1> HIDE DEF x
<1>7. EncOK(r.enc) /\ SetOK(c.set)
  BY DEF SubRun, Run, CallOK
<1>8. EncOK(g.enc) /\ g.enc.idle = r.enc.idle /\ g.mode = d.mode /\ g.bw = d.bw
  BY <1>3, <1>4, <1>6, <1>7, DecideIs
<1> HIDE DEF g, half
<1>9. LeavesOut(r.frames) => i + 1 >= c.quietFrom
  BY DEF SubRun, half, CallOK
<1>10. LeavesOut(r.frames) => ~active
  BY <1>5, <1>9
<1>11. Run(r, g.mode, g.bw, x.half, i) /\ LegalConfig(g.mode, g.bw, x.half)
  BY <1>3, <1>8 DEF SubRun, half
<1>12. Run(o, g.mode, g.bw, x.half, i + 1) /\ (LeavesOut(o.frames) => ~active)
  BY <1>7, <1>8, <1>10, <1>11, FrameRuns
<1> HIDE DEF o, active
<1> QED
  BY <1>2, <1>3, <1>5, <1>8, <1>12 DEF SubRun, half, o

(* EncodeMultiframe's step to sub-frame i of m, and the function of them.  *)
NextSub(st, c, p, d, i, m) == CHOOSE q \in {SubFrame(st, c, u, d, i, m) : u \in {p}} : TRUE
Unfolds(f, st, c, r, d, m, n) ==
  f = [i \in 0 .. n |-> IF i = 0 THEN r ELSE NextSub(st, c, f[i - 1], d, i, m)]

(* The choice from a singleton is its member.                              *)
LEMMA NextSubIs ==
  ASSUME NEW st, NEW c, NEW p, NEW d, NEW i, NEW m
  PROVE  NextSub(st, c, p, d, i, m) = SubFrame(st, c, p, d, i, m)
<1> DEFINE v == SubFrame(st, c, p, d, i, m)
<1>1. {SubFrame(st, c, u, d, i, m) : u \in {p}} = {v}
  OBVIOUS
<1> HIDE DEF v
<1>2. (CHOOSE q \in {v} : TRUE) = v
  OBVIOUS
<1>3. NextSub(st, c, p, d, i, m) = CHOOSE q \in {v} : TRUE
  BY <1>1 DEF NextSub
<1> QED
  BY <1>2, <1>3 DEF v

(* The recursive function of EncodeMultiframe exists for every number of   *)
(* sub-frames.                                                             *)
LEMMA SubFramesUnfold ==
  ASSUME NEW st, NEW c, NEW r, NEW d, NEW m
  PROVE  \A n \in Nat : \E f : Unfolds(f, st, c, r, d, m, n)
<1> DEFINE T == {n \in Nat : \E f : Unfolds(f, st, c, r, d, m, n)}
<1>1. 0 \in T
  <2> DEFINE g == [i \in 0 .. 0 |-> r]
  <2>1. Unfolds(g, st, c, r, d, m, 0)
    BY DEF Unfolds
  <2> QED
    BY <2>1
<1>2. ASSUME NEW n \in Nat, n \in T
      PROVE  n + 1 \in T
  <2>1. PICK f : Unfolds(f, st, c, r, d, m, n)
    BY <1>2
  <2> DEFINE g == [i \in 0 .. n + 1 |-> IF i = n + 1 THEN NextSub(st, c, f[n], d, i, m) ELSE f[i]]
  <2>2. ASSUME NEW i \in 0 .. n + 1
        PROVE  g[i] = IF i = 0 THEN r ELSE NextSub(st, c, g[i - 1], d, i, m)
    <3>1. CASE i = n + 1
      BY <3>1
    <3>2. CASE i = 0
      BY <3>2, <2>1 DEF Unfolds
    <3>3. CASE i \in 1 .. n
      <4>1. i - 1 \in 0 .. n + 1 /\ g[i - 1] = f[i - 1] /\ g[i] = f[i]
        BY <3>3
      <4> QED
        BY <4>1, <3>3, <2>1 DEF Unfolds
    <3> QED
      BY <3>1, <3>2, <3>3
  <2>3. Unfolds(g, st, c, r, d, m, n + 1)
    BY <2>2 DEF Unfolds
  <2> HIDE DEF g
  <2> QED
    BY <2>3
<1> HIDE DEF T
<1>3. T = Nat
  <2>1. T \in SUBSET Nat
    BY DEF T
  <2> QED
    BY <1>1, <1>2, <2>1, NatSetInduction
<1> QED
  BY <1>3 DEF T

(* encode_multiframe codes all its sub-frames: none is refused.            *)
LEMMA MultiframeRuns ==
  ASSUME NEW st, StreamOK(st), NEW c, CallOK(c), NEW r, NEW d,
         LegalConfig(d.mode, d.bw, SubHalf(d.mode, c.half)),
         EncOK(r.enc), Histories(r.enc.idle, r.gap, r.quiet), r.frames = <<>>,
         c.half \div SubHalf(d.mode, c.half) \in Nat
  PROVE  Run(EncodeMultiframe(st, c, r, d), d.mode, d.bw, SubHalf(d.mode, c.half),
             c.half \div SubHalf(d.mode, c.half))
<1> DEFINE half == SubHalf(d.mode, c.half)
           n == c.half \div half
           upTo[i \in 0 .. n] == IF i = 0 THEN r
                                 ELSE CHOOSE q \in {SubFrame(st, c, p, d, i, n) : p \in {upTo[i - 1]}} : TRUE
<1>1. Unfolds(upTo, st, c, r, d, n, n)
  <2>1. \E f : Unfolds(f, st, c, r, d, n, n)
    BY SubFramesUnfold
  <2> QED
    BY <2>1 DEF Unfolds, NextSub
<1>2. EncodeMultiframe(st, c, r, d) = upTo[n]
  BY DEF EncodeMultiframe
<1> HIDE DEF upTo
<1> DEFINE T == {i \in Nat : i <= n => SubRun(c, upTo[i], d, half, i)}
<1>3. 0 \in T
  <2>1. upTo[0] = r
    BY <1>1 DEF Unfolds
  <2>2. SubRun(c, r, d, half, 0)
    <3> HIDE DEF half
    <3> QED
      BY DEF SubRun, Run, LeavesOut
  <2> QED
    BY <2>1, <2>2
<1>4. ASSUME NEW i \in Nat, i \in T
      PROVE  i + 1 \in T
  <2>1. SUFFICES ASSUME i + 1 <= n PROVE SubRun(c, upTo[i + 1], d, half, i + 1)
    OBVIOUS
  <2>2. SubRun(c, upTo[i], d, half, i)
    BY <1>4, <2>1
  <2>3. upTo[i + 1] = NextSub(st, c, upTo[i], d, i + 1, n)
    <3> HIDE DEF n
    <3> QED
      BY <1>1, <2>1 DEF Unfolds, n
  <2>4. upTo[i + 1] = SubFrame(st, c, upTo[i], d, i + 1, n)
    BY <2>3, NextSubIs
  <2> QED
    BY <2>2, <2>4, SubFrameRuns
<1> HIDE DEF T
<1>5. T = Nat
  <2>1. T \in SUBSET Nat
    BY DEF T
  <2> QED
    BY <1>3, <1>4, <2>1, NatSetInduction
<1>6. SubRun(c, upTo[n], d, half, n)
  <2> HIDE DEF n, half
  <2>1. n \in Nat
    BY DEF n, half
  <2> QED
    BY <1>5, <2>1 DEF T
<1> QED
  BY <1>2, <1>6 DEF SubRun

(* What a call makes of the encoder.                                       *)
Served(st, c, o) ==
  \E mode, bw, half : \E n \in 1 .. 6 :
    /\ LegalConfig(mode, bw, half) /\ Capped(st, c.set, bw)
    /\ c.half = n * half
    /\ Run(o, mode, bw, half, n)

(* A legal request is divided into frames the mode has.                    *)
LEMMA SubHalfIs ==
  ASSUME NEW half \in HalvesOf, NEW mode \in {"silk", "hybrid", "celt"}
  PROVE  /\ (half > 40 /\ mode # "silk") \/ half > 120 =>
              /\ SubHalf(mode, half) \in {40, 80, 120} /\ (mode # "silk" => SubHalf(mode, half) = 40)
              /\ half \div SubHalf(mode, half) \in 1 .. 6
              /\ half = (half \div SubHalf(mode, half)) * SubHalf(mode, half)
         /\ ~((half > 40 /\ mode # "silk") \/ half > 120) =>
              half \in {5, 10, 20, 40} \/ (mode = "silk" /\ half \in {5, 10, 20, 40, 80, 120})
<1>1. /\ mode = "silk" => SubHalf(mode, half) = IF half = 160 THEN 80 ELSE IF half = 240 THEN 120 ELSE 40
      /\ mode # "silk" => SubHalf(mode, half) = 40
  BY DEF SubHalf
<1> QED
  BY <1>1 DEF HalvesOf

(* Every legal call is served whole, in one frame or in several.           *)
LEMMA ServeIs ==
  ASSUME NEW st, StreamOK(st), NEW c, CallOK(c), NEW e, EncOK(e), NEW g, NEW q, Histories(e.idle, g, q)
  PROVE  Served(st, c, Serve(st, c, [enc |-> e, frames |-> <<>>, gap |-> g, quiet |-> q]))
<1> DEFINE r == [enc |-> e, frames |-> <<>>, gap |-> g, quiet |-> q]
           x == [half |-> c.half, silent |-> c.quietFrom = 1, sound |-> c.sound,
                 room |-> c.room, lock |-> None, handOver |-> FALSE]
           d == Decide(st, c.set, e, x)
           a == [r EXCEPT !.enc = d.enc]
           o == Serve(st, c, r)
           several == (c.half > 40 /\ d.mode # "silk") \/ c.half > 120
           sub == SubHalf(d.mode, c.half)
           n == c.half \div sub
<1>1. o = IF several THEN EncodeMultiframe(st, c, a, d) ELSE CodeFrame(st, c.set, r, d, x)
  BY DEF Serve, Called, Decided
<1>2. x.half = c.half /\ x.lock = None /\ x.sound.bw \in 0 .. 5 /\ SetOK(c.set) /\ c.half \in HalvesOf
  BY DEF CallOK
<1> HIDE DEF x
<1>3. Decision(st, c.set, e, c.half, d)
  BY <1>2, DecideIs
<1> HIDE DEF d
<1>4. a.enc = d.enc /\ a.frames = <<>> /\ a.gap = g /\ a.quiet = q
  OBVIOUS
<1>5. r.enc = e /\ r.frames = <<>> /\ r.gap = g /\ r.quiet = q
  OBVIOUS
<1>6. EncOK(d.enc) /\ d.enc.idle = e.idle /\ Capped(st, c.set, d.bw)
  BY <1>3 DEF Decision
<1>7. d.bw \in {NB, MB, WB, SWB, FB}
  BY <1>3 DEF Decision, NB, MB, WB, SWB, FB
<1>8. /\ d.mode = "silk" => d.bw \in {NB, MB, WB} /\ c.half >= 20
      /\ d.mode = "hybrid" => d.bw \in {SWB, FB} /\ c.half >= 20
      /\ d.mode \in {"silk", "hybrid", "celt"}
  BY <1>3 DEF Decision, NB, MB, WB, SWB, FB
<1> HIDE DEF a, r, o
<1>9. CASE several
  <2>1. sub \in {40, 80, 120} /\ (d.mode # "silk" => sub = 40) /\ n \in 1 .. 6 /\ c.half = n * sub
    BY <1>2, <1>8, <1>9, SubHalfIs
  <2>2. LegalConfig(d.mode, d.bw, sub)
    BY <1>7, <1>8, <2>1 DEF LegalConfig
  <2>3. n \in Nat
    BY <2>1
  <2>4. Run(EncodeMultiframe(st, c, a, d), d.mode, d.bw, sub, n)
    BY <1>4, <1>6, <2>2, <2>3, MultiframeRuns
  <2>5. o = EncodeMultiframe(st, c, a, d)
    BY <1>1, <1>9
  <2> HIDE DEF sub, n, several
  <2> QED
    BY <1>6, <2>1, <2>2, <2>4, <2>5 DEF Served, o, r
<1>10. CASE ~several
  <2>1. c.half \in {5, 10, 20, 40} \/ (d.mode = "silk" /\ c.half \in {5, 10, 20, 40, 80, 120})
    BY <1>2, <1>8, <1>10, SubHalfIs
  <2>2. LegalConfig(d.mode, d.bw, c.half)
    BY <1>7, <1>8, <2>1 DEF LegalConfig
  <2>3. Run(r, d.mode, d.bw, c.half, 0)
    BY <1>5 DEF Run, LeavesOut
  <2>4. ~LeavesOut(r.frames)
    BY <1>5 DEF LeavesOut
  <2>5. Run(CodeFrame(st, c.set, r, d, x), d.mode, d.bw, c.half, 1)
    <3> DEFINE z == 0
    <3>1. z \in Nat /\ Run(r, d.mode, d.bw, x.half, z) /\ LegalConfig(d.mode, d.bw, x.half)
      BY <1>2, <2>2, <2>3
    <3> HIDE DEF z
    <3>2. Run(CodeFrame(st, c.set, r, d, x), d.mode, d.bw, x.half, z + 1)
      BY <1>2, <1>5, <1>6, <2>4, <3>1, FrameRuns
    <3>3. z + 1 = 1
      BY DEF z
    <3> QED
      BY <1>2, <3>2, <3>3
  <2>6. o = CodeFrame(st, c.set, r, d, x)
    BY <1>1, <1>10
  <2>7. 1 \in 1 .. 6 /\ c.half = 1 * c.half
    BY <1>2 DEF HalvesOf
  <2> QED
    BY <1>6, <2>2, <2>5, <2>6, <2>7 DEF Served, o, r
<1> QED
  BY <1>9, <1>10

(***************************************************************************)
(* The inductive invariant.                                                *)
(***************************************************************************)
(* The last packet, against the settings it was asked for under.           *)
PacketServed ==
  \E mode \in {"silk", "hybrid", "celt"}, bw \in NB .. FB, half \in HalvesOf, n \in 1 .. 6 :
    /\ LegalConfig(mode, bw, half)
    /\ \/ bw <= IF Least(NyquistCap(stream.fs), packet.limit) = MB THEN WB
                ELSE Least(NyquistCap(stream.fs), packet.limit)
       \/ stream.channels = 2 /\ packet.bitrate > 28000 /\ bw = FB
    /\ packet.half = n * half
    /\ packet.frames \in Seq(Frame(mode, bw, half)) /\ Len(packet.frames) = n
    /\ LeavesOut(packet.frames) => quiet = QuietCap

ControlIInv ==
  /\ stream \in Kinds
  /\ call \in Calls(stream) \cup {NoCall}
  /\ EncOK(enc) /\ Histories(enc.idle, gap, quiet)
  /\ packet.frames = <<>> \/ PacketServed

(* A new encoder satisfies it.                                             *)
LEMMA InitOK == ControlInit => ControlIInv
  BY DEF ControlInit, ControlIInv, EncOK, EncFields, Histories, Refresh, QuietCap

(* Every call of encode keeps it.                                          *)
LEMMA StepOK == ControlIInv /\ EncodeCall => ControlIInv'
<1> SUFFICES ASSUME ControlIInv, EncodeCall PROVE ControlIInv'
  OBVIOUS
<1> DEFINE r == [enc |-> enc, frames |-> <<>>, gap |-> gap, quiet |-> quiet]
<1>1. PICK c \in (IF call = NoCall THEN Calls(stream) ELSE {call}) :
        LET o == Serve(stream, c, r) IN
        /\ enc' = o.enc
        /\ packet' = [half |-> c.half, bitrate |-> c.set.bitrate, frames |-> o.frames,
                      limit |-> IF c.set.forceBw # 0 THEN c.set.forceBw ELSE c.set.maxBw]
        /\ gap' = o.gap /\ quiet' = o.quiet
        /\ call' = IF c.repeat THEN c ELSE NoCall
        /\ UNCHANGED stream
  BY DEF EncodeCall
<1> DEFINE o == Serve(stream, c, r)
<1>2. c \in Calls(stream) /\ stream \in Kinds
  BY DEF ControlIInv
<1>3. StreamOK(stream) /\ CallOK(c)
  BY <1>2, KindsAssumption, CallsAssumption DEF StreamOK, CallOK, SetOK, HalvesOf
<1>4. EncOK(enc) /\ Histories(enc.idle, gap, quiet)
  BY DEF ControlIInv
<1>5. Served(stream, c, o)
  BY <1>3, <1>4, ServeIs
<1> HIDE DEF o, r
<1>6. PICK mode, bw, half : \E n \in 1 .. 6 :
        /\ LegalConfig(mode, bw, half) /\ Capped(stream, c.set, bw)
        /\ c.half = n * half
        /\ Run(o, mode, bw, half, n)
  BY <1>5 DEF Served
<1>7. PICK n \in 1 .. 6 : LegalConfig(mode, bw, half) /\ Capped(stream, c.set, bw) /\ c.half = n * half
                          /\ Run(o, mode, bw, half, n)
  BY <1>6
<1>8. /\ enc' = o.enc /\ gap' = o.gap /\ quiet' = o.quiet /\ stream' = stream
      /\ packet'.half = c.half /\ packet'.bitrate = c.set.bitrate /\ packet'.frames = o.frames
      /\ packet'.limit = Limit(c.set)
      /\ call' \in Calls(stream) \cup {NoCall}
  BY <1>1, <1>2 DEF o, Limit
<1>9. EncOK(enc') /\ Histories(enc'.idle, gap', quiet')
  BY <1>7, <1>8 DEF Run
<1>10. PacketServed'
  <2>1. /\ packet'.frames \in Seq(Frame(mode, bw, half)) /\ Len(packet'.frames) = n
        /\ LeavesOut(packet'.frames) => quiet' = QuietCap
    BY <1>7, <1>8 DEF Run
  <2>2. \/ bw <= IF Least(NyquistCap(stream'.fs), packet'.limit) = MB THEN WB
                  ELSE Least(NyquistCap(stream'.fs), packet'.limit)
        \/ stream'.channels = 2 /\ packet'.bitrate > 28000 /\ bw = FB
    BY <1>7, <1>8 DEF Capped, Widest
  <2>3. packet'.half = n * half
    BY <1>7, <1>8
  <2>4. mode \in {"silk", "hybrid", "celt"} /\ bw \in NB .. FB /\ half \in HalvesOf
    BY <1>7 DEF LegalConfig, HalvesOf, NB, MB, WB, SWB, FB
  <2> QED
    BY <1>7, <2>1, <2>2, <2>3, <2>4 DEF PacketServed
<1> QED
  BY <1>2, <1>8, <1>9, <1>10 DEF ControlIInv

(* The invariant holds of every history of calls, whatever the signal, the *)
(* settings and the thresholds.                                            *)
THEOREM ControlInvariant == ControlSpec => []ControlIInv
<1>1. ControlIInv /\ UNCHANGED control_vars => ControlIInv'
  BY DEF ControlIInv, PacketServed, control_vars
<1>2. ControlIInv /\ [ControlNext]_control_vars => ControlIInv'
  BY <1>1, StepOK DEF ControlNext
<1> QED
  BY <1>2, InitOK, PTL DEF ControlSpec

(* A packet served is signalled and whole.                                 *)
LEMMA SignalledIs == ControlIInv => Signalled /\ WholeRequest
<1> SUFFICES ASSUME ControlIInv PROVE Signalled /\ WholeRequest
  OBVIOUS
<1>1. CASE packet.frames = <<>>
  BY <1>1 DEF Signalled, WholeRequest
<1>2. CASE PacketServed
  <2>1. PICK mode, bw, half : \E n \in 1 .. 6 :
          /\ LegalConfig(mode, bw, half) /\ packet.half = n * half
          /\ packet.frames \in Seq(Frame(mode, bw, half)) /\ Len(packet.frames) = n
    BY <1>2 DEF PacketServed
  <2>2. PICK n \in 1 .. 6 :
          /\ LegalConfig(mode, bw, half) /\ packet.half = n * half
          /\ packet.frames \in Seq(Frame(mode, bw, half)) /\ Len(packet.frames) = n
    BY <2>1
  <2> DEFINE F == Frame(mode, bw, half)
             toc == GenToc(mode, Rate(half), bw)
  <2>3. \A f \in F : f.mode = mode /\ f.bw = bw /\ f.half = half /\ f.kind # "refused" /\ f.toc = toc
    BY DEF Frame
  <2> HIDE DEF F
  <2>4. DOMAIN packet.frames = 1 .. n /\ \A k \in 1 .. n : packet.frames[k] \in F
    BY <2>2 DEF F
  <2>5. 1 \in 1 .. n /\ n <= 6
    OBVIOUS
  <2>6. /\ ModeFromToc(toc) = mode /\ HalfFromToc(toc) = half
        /\ BandwidthFromToc(toc) = IF mode = "celt" THEN Most(bw, MB) ELSE bw
    BY <2>2, TocReadsBack
  <2> HIDE DEF toc
  <2>7. Signalled
    BY <2>3, <2>4, <2>5, <2>6 DEF Signalled
  <2>8. WholeRequest
    BY <2>2, <2>3, <2>4, <2>5 DEF WholeRequest
  <2> QED
    BY <2>7, <2>8
<1> QED
  BY <1>1, <1>2 DEF ControlIInv

(* For every stream and every sequence of requests: each legal request is  *)
(* coded whole, in at most six frames of one configuration, under a TOC    *)
(* that a decoder reads back (encode, encode_multiframe, gen_toc).         *)
THEOREM RequestsAreCoded == ControlSpec => []RequestCoded
<1>1. ControlIInv => RequestCoded
  BY SignalledIs DEF RequestCoded
<1> QED
  BY <1>1, ControlInvariant, PTL

(* For every stream, signal and settings: no frame is coded wider than the *)
(* Nyquist frequency and the application allow, but for the exceptions the *)
(* code states (the bandwidth caps of encode).                             *)
THEOREM CapsAreKept == ControlSpec => []CapsKept
<1>1. ControlIInv => CapsKept
  <2> SUFFICES ASSUME ControlIInv PROVE CapsKept
    OBVIOUS
  <2>1. CASE packet.frames = <<>>
    BY <2>1 DEF CapsKept
  <2>2. CASE PacketServed
    <3> DEFINE cap == Least(NyquistCap(stream.fs), packet.limit)
    <3>1. PICK mode, bw, half : 
            /\ \/ bw <= IF cap = MB THEN WB ELSE cap
               \/ stream.channels = 2 /\ packet.bitrate > 28000 /\ bw = FB
            /\ packet.frames \in Seq(Frame(mode, bw, half))
      BY <2>2 DEF PacketServed
    <3>2. \A k \in DOMAIN packet.frames : packet.frames[k] \in Frame(mode, bw, half)
      <4> DEFINE F == Frame(mode, bw, half)
      <4> HIDE DEF F
      <4> QED
        BY <3>1 DEF F
    <3>3. \A f \in Frame(mode, bw, half) : f.bw = bw
      BY DEF Frame
    <3>4. \A k \in DOMAIN packet.frames : packet.frames[k].bw = bw
      BY <3>2, <3>3
    <3> QED
      BY <3>1, <3>4 DEF CapsKept
  <2> QED
    BY <2>1, <2>2 DEF ControlIInv
<1> QED
  BY <1>1, ControlInvariant, PTL

(* For every sequence of durations, also mixed, and packets that do not    *)
(* fit: discontinuous transmission starts only after 200 ms without        *)
(* activity and refreshes within 400 ms (nb_no_activity_ms_q1).            *)
THEOREM PausesAreBounded == ControlSpec => []PausesBounded
<1>1. ControlIInv => HangoverKept
  BY DEF ControlIInv, HangoverKept, PacketServed, LeavesOut
<1>2. ControlIInv => RefreshInTime
  <2> SUFFICES ASSUME ControlIInv PROVE RefreshInTime
    OBVIOUS
  <2> DEFINE S == {120} \cup {packet.frames[k].half : k \in DOMAIN packet.frames}
  <2>1. gap \in Nat /\ gap < 920
    <3>1. enc.idle \in 0 .. 1200
      BY DEF ControlIInv, EncOK, Refresh
    <3>2. gap \in Nat /\ (gap = 0 \/ gap < enc.idle - 280)
      BY DEF ControlIInv, Histories
    <3> QED
      BY <3>1, <3>2
  <2>2. \A h \in S : h \in 0 .. 120
    <3>1. CASE packet.frames = <<>>
      BY <3>1
    <3>2. CASE PacketServed
      <4>1. PICK mode, bw, half : /\ LegalConfig(mode, bw, half)
                                  /\ packet.frames \in Seq(Frame(mode, bw, half))
        BY <3>2 DEF PacketServed
      <4>2. \A k \in DOMAIN packet.frames : packet.frames[k] \in Frame(mode, bw, half)
        <5> DEFINE F == Frame(mode, bw, half)
        <5> HIDE DEF F
        <5> QED
          BY <4>1 DEF F
      <4>3. \A f \in Frame(mode, bw, half) : f.half = half
        BY DEF Frame
      <4>4. half \in 0 .. 120
        BY <4>1 DEF LegalConfig
      <4> QED
        BY <4>2, <4>3, <4>4
    <3> QED
      BY <3>1, <3>2 DEF ControlIInv
  <2>3. 120 \in S
    OBVIOUS
  <2> HIDE DEF S
  <2>4. Max(S) = 120
    BY <2>2, <2>3 DEF Max
  <2> QED
    BY <2>1, <2>4 DEF RefreshInTime, S
<1>3. ControlIInv => PausesBounded
  BY <1>1, <1>2 DEF PausesBounded
<1> QED
  BY <1>3, ControlInvariant, PTL
================================================================================

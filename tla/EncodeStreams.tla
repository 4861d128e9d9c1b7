----------------------------- MODULE EncodeStreams -----------------------------
(***************************************************************************)
(* parallel::encode_streams (src/src/parallel.rs): a bounded pool of       *)
(* scoped threads takes stream indices from one atomic counter, encodes    *)
(* each with an encoder of its own and stores the packets in that stream's *)
(* mutex-protected slot.  The scope joins every thread, then the caller    *)
(* unwraps the slots.  With one worker the caller encodes them itself.     *)
(***************************************************************************)
EXTENDS Integers, FiniteSets

CONSTANTS
  N,          \* number of streams
  Requested,  \* the `threads` argument; 0 asks for one per core
  Cores,      \* available_parallelism
  Nothing,    \* an empty slot
  NoStream    \* no index taken

ASSUME PoolAssumption ==
  /\ N \in Nat /\ Requested \in Nat /\ Cores \in Nat \ {0}
  /\ Nothing \notin Nat /\ NoStream \notin Nat

VARIABLES
  bad,        \* streams with an invalid configuration: encode_serial panics
  phase,      \* the caller: "spawned", "serial", "returned" or "panicked"
  next,       \* the AtomicUsize
  pc, idx,    \* of each worker; idx is its loop-local index
  slots,      \* out_slots
  out         \* what the caller returns

vars == <<bad, phase, next, pc, idx, slots, out>>

Streams == 0 .. (N - 1)
Smaller(a, b) == IF a <= b THEN a ELSE b
Larger(a, b) == IF a >= b THEN a ELSE b

worker_count == IF Requested = 0 THEN Cores ELSE Requested
WorkerTotal == Smaller(Larger(worker_count, 1), N)
Workers == 1 .. WorkerTotal

(* encode_serial of a stream depends on nothing but the stream. *)
Serial(i) == i

Empty == [i \in Streams |-> Nothing]

(* A wasm build without atomics has one worker whatever is requested. *)
Init ==
  /\ bad \in SUBSET Streams
  /\ phase \in IF WorkerTotal <= 1 THEN {"serial"} ELSE {"spawned", "serial"}
  /\ next = 0
  /\ pc = [w \in Workers |-> "claim"]
  /\ idx = [w \in Workers |-> NoStream]
  /\ slots = Empty /\ out = Empty

(* Slip: the counter is read but not advanced. *)
ClaimLostIncrement(w) ==
  /\ phase = "spawned" /\ pc[w] = "claim"
  /\ IF next < N
     THEN idx' = [idx EXCEPT ![w] = next] /\ pc' = [pc EXCEPT ![w] = "encode"]
     ELSE idx' = idx /\ pc' = [pc EXCEPT ![w] = "exited"]
  /\ UNCHANGED <<bad, next, phase, slots, out>>

(* fetch_add, and leaving the loop when the streams have run out. *)
Claim(w) ==
  /\ phase = "spawned" /\ pc[w] = "claim"
  /\ next' = next + 1
  /\ IF next < N
     THEN idx' = [idx EXCEPT ![w] = next] /\ pc' = [pc EXCEPT ![w] = "encode"]
     ELSE idx' = idx /\ pc' = [pc EXCEPT ![w] = "exited"]
  /\ UNCHANGED <<bad, phase, slots, out>>

(* encode_serial on the worker's own encoder: nothing shared is touched. *)
Encode(w) ==
  /\ pc[w] = "encode"
  /\ pc' = [pc EXCEPT ![w] = IF idx[w] \in bad THEN "died" ELSE "store"]
  /\ UNCHANGED <<bad, phase, next, idx, slots, out>>

(* *out_slots[idx].lock().unwrap() = Some(pkts) *)
Store(w) ==
  /\ pc[w] = "store"
  /\ slots' = [slots EXCEPT ![idx[w]] = Serial(idx[w])]
  /\ pc' = [pc EXCEPT ![w] = "claim"]
  /\ idx' = [idx EXCEPT ![w] = NoStream]
  /\ UNCHANGED <<bad, phase, next, out>>

(* Slip: the caller goes on when the first worker has ended. *)
JoinedAny == \E w \in Workers : pc[w] \in {"exited", "died"}

Joined == \A w \in Workers : pc[w] \in {"exited", "died"}

(* The scope ends when every thread has; one that panicked makes it panic. *)
Join ==
  /\ phase = "spawned" /\ Joined
  /\ IF \E w \in Workers : pc[w] = "died"
     THEN phase' = "panicked" /\ out' = out
     ELSE phase' = "returned" /\ out' = slots
  /\ UNCHANGED <<bad, next, pc, idx, slots>>

(* No pool: the caller encodes stream after stream into `out`. *)
SerialStep ==
  /\ phase = "serial" /\ next < N
  /\ IF next \in bad
     THEN phase' = "panicked" /\ UNCHANGED <<next, out>>
     ELSE /\ out' = [out EXCEPT ![next] = Serial(next)]
          /\ next' = next + 1
          /\ phase' = phase
  /\ UNCHANGED <<bad, pc, idx, slots>>

SerialReturn ==
  /\ phase = "serial" /\ next = N
  /\ phase' = "returned"
  /\ UNCHANGED <<bad, next, pc, idx, slots, out>>

Worker(w) == Claim(w) \/ Encode(w) \/ Store(w)
Caller == Join \/ SerialStep \/ SerialReturn

Next == Caller \/ \E w \in Workers : Worker(w)

(* The operating system schedules every runnable thread. *)
Fairness == WF_vars(Caller) /\ \A w \in Workers : WF_vars(Worker(w))

Spec == Init /\ [][Next]_vars /\ Fairness
-------------------------------------------------------------------------------
(* Every variable has its type; a worker past its claim holds a stream. *)
TypeOK ==
  /\ bad \subseteq Streams
  /\ phase \in {"spawned", "serial", "returned", "panicked"}
  /\ next \in Nat
  /\ pc \in [Workers -> {"claim", "encode", "store", "exited", "died"}]
  /\ idx \in [Workers -> Streams \cup {NoStream}]
  /\ \A w \in Workers : pc[w] \in {"encode", "store", "died"} => idx[w] \in Streams
  /\ slots \in [Streams -> Streams \cup {Nothing}]
  /\ out \in [Streams -> Streams \cup {Nothing}]

Holds(w, i) == idx[w] = i /\ pc[w] \in {"encode", "store", "died"}

(* No stream is encoded by two workers, and none that is being encoded has a
   result already: the atomic counter alone keeps the workers apart. *)
NoDoubleWork ==
  /\ \A v, w \in Workers : \A i \in Streams : Holds(v, i) /\ Holds(w, i) => v = w
  /\ \A w \in Workers : \A i \in Streams : Holds(w, i) => slots[i] = Nothing /\ i < next

(* Every index the counter handed out is in some worker's hands or stored. *)
NoneLost ==
  \A i \in Streams : i < next =>
    slots[i] = Serial(i) \/ out[i] = Serial(i) \/ \E w \in Workers : Holds(w, i)

(* When encode_streams returns, every slot holds that stream's own packets:
   the unwrap_or_default of an empty slot never produces a result. *)
ReturnsAll == phase = "returned" => \A i \in Streams : out[i] = Serial(i)

(* The call comes back, with the packets or with the panic of a worker. *)
Terminates == <>(phase \in {"returned", "panicked"})

(* A panic is the caller's doing, and never goes unnoticed. *)
PanicIffBad == (phase = "returned" => bad = {}) /\ (phase = "panicked" => bad # {})

-------------------------------------------------------------------------------
Batch == INSTANCE BatchEncode WITH
           NoResult <- Nothing,
           done <- {i \in Streams : slots[i] # Nothing \/ out[i] # Nothing},
           result <- IF phase = "returned" THEN out ELSE Empty,
           outcome <- IF phase \in {"returned", "panicked"} THEN phase ELSE "running"

(* The pool implements the batch it stands for. *)
ImplementsBatch == Batch!Spec
=============================================================================

---------------------------- MODULE BeaverCache ----------------------------
(***************************************************************************)
(* SMPCClient::get_beavers_triplets (include/smpc/smpc_client.hpp:61-114): *)
(* the compute node's server threads draw Beaver triplets from one cache,  *)
(* a vector and a read index behind one mutex.  A call the cache can serve *)
(* takes the next entries and advances the index.  Any other call asks the *)
(* trusted (setup) node, mutex held, for what it misses plus a full cache, *)
(* hands out the old remainder and the front of the reply, and makes the   *)
(* rest of the reply the new cache.                                        *)
(*                                                                         *)
(* A triplet is a natural number: the setup node numbers what it generates *)
(* 1, 2, 3...  (BeaversTripletGenerator::generate draws every triplet      *)
(* afresh, so two batches never share one).                                *)
(*                                                                         *)
(* The reply may fail to come (`run` returns and leaves the response       *)
(* pointer as it was, which is uninitialised) or fail to parse.  The first *)
(* ends in a crash of the process or in an exception; the second in an     *)
(* exception, which the lock guard survives and the request handler turns  *)
(* into an ERROR response.                                                 *)
(***************************************************************************)
EXTENDS Naturals, Sequences

CONSTANTS
  Threads,     \* server threads of the compute node
  Sizes,       \* numbers of triplets a multiplication may need
  CacheSize,   \* CACHE_SIZE
  Nobody,      \* the mutex is free
  MaxEvents    \* bound: calls, failures and fetches of other clients

ASSUME CacheAssumption ==
  /\ Sizes \subseteq Nat \ {0}
  /\ CacheSize \in Nat
  /\ MaxEvents \in Nat
  /\ Nobody \notin Threads

VARIABLES
  up,      \* the compute node's process runs
  pc,      \* pc[t]: where thread t is in get_beavers_triplets
  want,    \* want[t]: the argument `size` of t's call, 0 outside a call
  got,     \* got[t]: the tensor t's last successful call returned
  mutex,   \* beavers_triplets_mutex_m: the thread that holds it
  cache,   \* beavers_triplets_m
  index,   \* beavers_triplets_index_m
  asked,   \* the size of the request under way to the trusted node
  reply,   \* the batch the trusted node sent back, <<>> before it does
  dealt,   \* how many triplets the trusted node has generated so far
  mine,    \* history: the triplets generated for this compute node
  spent,   \* history: the triplets handed to callers
  wasted,  \* history: the triplets dropped by a failed reply or a crash
  events   \* the events so far, against MaxEvents

store == <<cache, index>>            \* what the mutex protects
exchange == <<asked, reply>>         \* the request to the trusted node
generated == <<dealt, mine>>
vars == <<up, pc, want, got, mutex, store, exchange, generated,
          spent, wasted, events>>

-----------------------------------------------------------------------------
(* What the calls compute.                                                 *)

\* The triplets the index has not passed yet.
Remaining == Len(cache) - index
Stock == {cache[i] : i \in (index + 1)..Len(cache)}
InFlight == {reply[i] : i \in 1..Len(reply)}

\* The next n triplets the trusted node generates.
FreshBatch(n) == [i \in 1..n |-> dealt + i]

\* Mutant: the generator starts over with every request.
GeneratesSame(n) ==
  /\ dealt' = n
  /\ mine' = mine \cup 1..n

\* The trusted node has generated n triplets for this client.
Generates(n) ==
  /\ dealt' = dealt + n
  /\ mine' = mine \cup (dealt + 1)..(dealt + n)

\* Mutant: the request does not count what is still cached.
AskForAll(n) == n + CacheSize

\* The size of the request when a call for n misses: what it lacks, and a
\* full cache.
RequestSize(n) == n + CacheSize - Remaining

\* A hit returns the entries after the index.
FromCache(n) == [i \in 1..n |-> cache[index + i]]

\* Mutant: the entries still cached are forgotten.
FromReplyOnly(n) == [i \in 1..n |-> reply[i]]

\* A miss returns the remainder of the cache, then the front of the reply.
FromBoth(n) == [i \in 1..n |-> IF i <= Remaining THEN cache[index + i]
                                               ELSE reply[i - Remaining]]

\* Mutant: the new cache is the whole reply.
WholeReply(n) == reply

\* The entries of the reply the call did not take, the new cache.
RestOfReply(n) ==
  LET taken == n - Remaining
  IN  [i \in 1..(Len(reply) - taken) |-> reply[taken + i]]

Critical == {"locked", "rpc", "reply"}

Counts == events < MaxEvents /\ events' = events + 1

-----------------------------------------------------------------------------
(* The constructor, and the calls.                                         *)

\* SMPCClient::init fills the cache before the server accepts anything.
Init ==
  /\ up = TRUE
  /\ pc = [t \in Threads |-> "idle"]
  /\ want = [t \in Threads |-> 0]
  /\ got = [t \in Threads |-> <<>>]
  /\ mutex = Nobody
  /\ cache = [i \in 1..CacheSize |-> i]
  /\ index = 0
  /\ asked = 0
  /\ reply = <<>>
  /\ dealt = CacheSize
  /\ mine = 1..CacheSize
  /\ spent = {}
  /\ wasted = {}
  /\ events = 0

\* A multiplication request on thread t needs n triplets.
Call(t, n) ==
  /\ up
  /\ pc[t] = "idle"
  /\ Counts
  /\ pc' = [pc EXCEPT ![t] = "waiting"]
  /\ want' = [want EXCEPT ![t] = n]
  /\ UNCHANGED <<up, got, mutex, store, exchange, generated, spent, wasted>>

\* std::lock_guard
Lock(t) ==
  /\ pc[t] = "waiting"
  /\ mutex = Nobody
  /\ mutex' = t
  /\ pc' = [pc EXCEPT ![t] = "locked"]
  /\ UNCHANGED <<up, want, got, store, exchange, generated, spent, wasted,
                 events>>

\* The call returns batch b and the lock guard goes out of scope.
Return(t, b) ==
  /\ got' = [got EXCEPT ![t] = b]
  /\ spent' = spent \cup {b[i] : i \in DOMAIN b}
  /\ want' = [want EXCEPT ![t] = 0]
  /\ pc' = [pc EXCEPT ![t] = "idle"]
  /\ mutex' = Nobody

\* Enough is cached: take the next entries, advance the index.
Hit(t) ==
  /\ pc[t] = "locked"
  /\ Remaining >= want[t]
  /\ Return(t, FromCache(want[t]))
  /\ index' = index + want[t]
  /\ UNCHANGED <<up, cache, exchange, generated, wasted, events>>

\* Not enough is cached: send the request, mutex held.
Miss(t) ==
  /\ pc[t] = "locked"
  /\ Remaining < want[t]
  /\ asked' = RequestSize(want[t])
  /\ pc' = [pc EXCEPT ![t] = "rpc"]
  /\ UNCHANGED <<up, want, got, mutex, store, reply, generated, spent, wasted,
                 events>>

\* The trusted node serves the request.
Serve(t) ==
  /\ pc[t] = "rpc"
  /\ reply' = FreshBatch(asked)
  /\ Generates(asked)
  /\ pc' = [pc EXCEPT ![t] = "reply"]
  /\ UNCHANGED <<up, want, got, mutex, store, asked, spent, wasted, events>>

\* The reply is there: hand out the old remainder and the front of the reply,
\* then reset the index, clear the vector and push the rest of the reply.
Refill(t) ==
  /\ pc[t] = "reply"
  /\ Return(t, FromBoth(want[t]))
  /\ cache' = RestOfReply(want[t])
  /\ index' = 0
  /\ asked' = 0
  /\ reply' = <<>>
  /\ UNCHANGED <<up, generated, wasted, events>>

-----------------------------------------------------------------------------
(* Failures.                                                               *)

\* Mutant: the exception leaves the mutex locked.
UnwindLocked(t) ==
  /\ pc' = [pc EXCEPT ![t] = "idle"]
  /\ want' = [want EXCEPT ![t] = 0]
  /\ UNCHANGED <<mutex, store>>

\* An exception on thread t releases the lock guard and leaves the cache and
\* the index as they were: both are written only after the reply was parsed.
Unwind(t) ==
  /\ pc' = [pc EXCEPT ![t] = "idle"]
  /\ want' = [want EXCEPT ![t] = 0]
  /\ mutex' = Nobody
  /\ UNCHANGED store

\* The connection breaks before or after the trusted node has served the
\* request, or what arrives does not parse, and an exception ends the call.
CallFails(t) ==
  /\ pc[t] \in {"rpc", "reply"}
  /\ Counts
  /\ Unwind(t)
  /\ wasted' = wasted \cup InFlight
  /\ asked' = 0
  /\ reply' = <<>>
  /\ UNCHANGED <<up, got, generated, spent>>

\* The connection breaks and the response pointer `res`, never assigned, is
\* dereferenced: the process is gone, with its threads and its cache.
Crash(t) ==
  /\ pc[t] \in {"rpc", "reply"}
  /\ Counts
  /\ up' = FALSE
  /\ pc' = [u \in Threads |-> "idle"]
  /\ want' = [u \in Threads |-> 0]
  /\ mutex' = Nobody
  /\ wasted' = wasted \cup Stock \cup InFlight
  /\ cache' = <<>>
  /\ index' = 0
  /\ asked' = 0
  /\ reply' = <<>>
  /\ UNCHANGED <<got, generated, spent>>

\* The compute node is started again: init() fetches a full cache.
Restart ==
  /\ ~up
  /\ up' = TRUE
  /\ cache' = FreshBatch(CacheSize)
  /\ Generates(CacheSize)
  /\ UNCHANGED <<pc, want, got, mutex, index, exchange, spent, wasted, events>>

\* Another compute node has n triplets generated for itself.
OtherClientFetches(n) ==
  /\ Counts
  /\ dealt' = dealt + n
  /\ UNCHANGED <<up, pc, want, got, mutex, store, exchange, mine, spent, wasted>>

\* The bound on events is reached and nothing is under way.
Quiesced ==
  /\ events = MaxEvents
  /\ up
  /\ \A t \in Threads : pc[t] = "idle"
  /\ UNCHANGED vars

-----------------------------------------------------------------------------
Next ==
  \/ \E t \in Threads, n \in Sizes : Call(t, n)
  \/ \E t \in Threads : \/ Lock(t) \/ Hit(t) \/ Miss(t) \/ Serve(t)
                        \/ Refill(t) \/ CallFails(t) \/ Crash(t)
  \/ Restart
  \/ \E n \in Sizes : OtherClientFetches(n)
  \/ Quiesced

\* A thread that can run runs, and the trusted node answers.
Fairness ==
  \A t \in Threads : /\ WF_vars(Hit(t) \/ Miss(t) \/ Refill(t))
                     /\ WF_vars(Serve(t))

Spec == Init /\ [][Next]_vars

FairSpec == Spec /\ Fairness

-----------------------------------------------------------------------------
(* Properties.                                                             *)

\* The shape of the state; who holds the mutex is where the code says.
TypeOK ==
  /\ up \in BOOLEAN
  /\ pc \in [Threads -> {"idle", "waiting"} \cup Critical]
  /\ want \in [Threads -> Nat]
  /\ got \in [Threads -> Seq(Nat)]
  /\ mutex \in Threads \cup {Nobody}
  /\ cache \in Seq(Nat)
  /\ index \in Nat
  /\ asked \in Nat
  /\ reply \in Seq(Nat)
  /\ dealt \in Nat
  /\ mine \subseteq 1..dealt
  /\ spent \subseteq 1..dealt
  /\ wasted \subseteq 1..dealt
  /\ events \in Nat

\* Every triplet the trusted node ever generated for this compute node is in
\* exactly one place: handed to a caller, still in the cache ahead of the
\* index, in a reply under way, or dropped by a failure.  In particular the
\* remainder of a cache that was too small is handed out, not cleared.
Conservation ==
  /\ mine = spent \cup Stock \cup InFlight \cup wasted
  /\ spent \cap Stock = {}
  /\ spent \cap InFlight = {}
  /\ spent \cap wasted = {}
  /\ Stock \cap InFlight = {}
  /\ Stock \cap wasted = {}
  /\ InFlight \cap wasted = {}

\* What was computed from the cache before the request to the trusted node is
\* still true of the cache when the reply is used: the reply completes the
\* call and fills the cache to CACHE_SIZE, no triplet over or short.
ReplyFitsCache ==
  /\ \A t \in Threads :
       pc[t] = "reply" =>
         /\ Len(reply) + Remaining = want[t] + CacheSize
         /\ Remaining < want[t]
  /\ up => Len(cache) = CacheSize /\ index <= CacheSize

\* get_beavers_triplets implements the dispenser: every successful call gets
\* as many triplets as it asked for, all different, never handed out before.
Dispenser == INSTANCE TripletDispenser
DispensesFresh == Dispenser!Spec

\* A thread that has the mutex gives it back: by answering, by unwinding, or
\* because the process dies.  (It keeps it across the call to the trusted
\* node, which has no timeout: this needs that node to answer.)
HolderLetsGo == \A t \in Threads : (mutex = t) ~> (mutex # t)

=============================================================================

# CoFHE in TLA+

CoFHE is a C++20 library for computing on encrypted numbers in a *threshold
distributed setup*: a setup node makes a key and deals its shares to CoFHE
nodes, a compute node works on ciphertexts and has them decrypted by `T` of the
`N` CoFHE nodes, and client nodes send it requests. This directory holds TLA+
models of the system, TLC configurations that check them on small instances,
and theorems about them that the TLA+ proof system checks for every instance.
Paths are relative to the repository root; line numbers are in `PROJECT.json`
(`map`), definition by definition.

## 1. The system

| Component | State it keeps | Operations | Talks to | What makes it correct |
|---|---|---|---|---|
| **Setup node** `include/node/join_as_node.hpp`, `setup_node_request_handler.hpp`, `network_details*.hpp`, `beavers_triplet_request_handler.hpp` | the roster `network_details_m`, the `N` lists of shares, `current_node_m`, a mutex; a random generator for triplets | join as CoFHE node, join as compute node, get the details, generate triplets | everyone, over the transport | a list of shares is given once; the roster tells who has which list; triplets are fresh |
| **CoFHE node** `include/node/nodes.hpp` (`make_cofhe_node`), `partial_decryption_request_handler.hpp` | its list of shares | join, get details, listen; partial decryption with the share at an index | setup node, compute node | answers only with the share asked for |
| **Compute node** `make_compute_node`, `include/smpc/smpc_client.hpp`, `include/smpc/ciphertext_multiplications.hpp`, `include/node/compute_request_handler.hpp` | a copy of the roster, clients to `T` CoFHE nodes, the share index, a cache of triplets with a mutex | init, decrypt, reinit of the clients, get triplets, multiply, dispatch of arithmetic requests | setup node, CoFHE nodes, client nodes; eight server threads share all of it | decryptions give the plaintext or fail; a triplet is used once |
| **Client node** `include/node/client_node.hpp`, `root_request_handler.hpp` | the details, one client | compute | setup node, compute node | the answer is the request's |
| **Transport** `include/node/client.hpp`, `server.hpp`, `request_response.hpp` | read and write buffer at both ends, an io_context per client, a pool of threads per server | run a call; read, handle, write | boost::asio over TLS | framing; answers belong to requests; calls return |
| **Threshold key** `include/x86_64/cpu_cryptosystem_distributed.inl`, `include/common/algorithms.hpp` | the shares | enumerate combinations, build the matrix, deal, partial decryption, combination | setup, CoFHE and compute node | shares of one combination give the plaintext |
| **CPU cryptosystem** `include/x86_64/cpu_cryptosystem*.{hpp,inl}`, `qfi.inl` | none (a random generator) | encrypt, add, scale, tensors of ciphertexts, encodings | BICYCL | encodings are inverses; element-wise operations agree |
| **Common** `include/common/pointers.hpp`, `tensor.hpp`, ... | reference counts; shape, strides and storage | copy, move, reset, lock; view, reshape, broadcast, index | everything | freed once; an index stays in its storage |

Where it gets hard:

- *Concurrency.* A server has eight threads. On the compute node they share one
  `SMPCClient`: the triplet cache (under a mutex that is held across a call to
  the setup node), the clients and the share index (under none). On the setup
  node they share the roster (under a mutex; `network_details()` returns a
  reference that outlives the lock).
- *Failure.* A broken connection leaves `Client::run`'s result pointer unset;
  some callers dereference it uninitialised or null. A closed `Client` is never
  replaced. The setup node is never told of a node that died, and nothing is
  persisted.
- *Ordering.* A CoFHE node is in the roster before it listens; a compute node
  works with the copy of the roster it got when it started; which clients it
  has decides which share index is right.
- *Numbers.* Combinations are enumerated in place, ranked from 1 and used as
  indexes from 0; the length of a list of shares is computed in two places.
- *Framing.* Bytes arrive in pieces of any size, a header is found by its
  newline, and the data contains newlines too.

`PROJECT.json` lists each hazard at its line with the properties that watch it,
or why none does.

## 2. The modules

| Module | Models | Checked by | Proved in |
|---|---|---|---|
| `TripletDispenser` | abstract: what `get_beavers_triplets` promises | as a property of `BeaverCache` | `BeaverCacheProofs` |
| `BeaverCache` | `SMPCClient::get_beavers_triplets` on several threads, the setup node's generator, failures, restart | `BeaverCache.cfg` | `BeaverCacheProofs` |
| `ThresholdScheme` | pure operators: combinations, ranks, matrix, share lists, reconstruction | through the next two | `KeyDealingProofs` |
| `KeyDealing` | `keygen(sk, threshold, num_parties)` as a loop, then combining any shares | `KeyDealing.cfg` | `KeyDealingProofs` |
| `ThresholdNetwork` | setup node, CoFHE nodes, compute node, decryption | `Network.cfg`, `NetworkSkip.cfg`, `NetworkReinit.cfg` | `ThresholdNetworkProofs` |
| `RemoteCall` | abstract: what a call over the transport promises | as a property of `Connection` | `ConnectionProofs` |
| `Connection` | one `Client` and one `Session`: buffers, header and data, cuts | `Connection.cfg` | `ConnectionProofs` |
| `SharedClient` | `Client::run` called from several threads on one `Client` | `SharedClient.cfg` | `ConcurrentRequestsProofs` |
| `ConcurrentRequests` (instantiated by `MCConcurrentRequests`) | decryptions, renewals of the clients and refills of the cache at the same time on one `SMPCClient` | `ConcurrentRequests.cfg` | `ConcurrentRequestsProofs` |
| `ArithmeticService` | abstract: what a compute node promises a client | as a property of `ComputeRequests` | `ComputeRequestsProofs` |
| `TensorArithmetic` | pure operators: the tensor operations of the cryptosystem, what decoders do to shapes | through the next | |
| `SharedPointers` | `SharedPtr`, `WeakPtr` and their control blocks on several threads | through `SharedTensors` | `SharedTensorsProofs` |
| `TensorViews` | pure operators: how an `Accessor` finds its elements | through the next | |
| `SharedTensors` (instantiated by `MCSharedTensors`) | tensors that share storages: every operation on views and pointers | `SharedTensors.cfg` | `SharedTensorsProofs` |
| `MessageFormats`, `NumberFormats` | pure operators: `to_string` and `from_string` of every layer; the encodings of values and tensors | through the next | with the next |
| `NodeServices` (instantiated by `MCNodeServices`) | the way of a request through the layers of the three nodes to the innermost handlers, and of its response back | `NodeServices.cfg` | `NodeServicesProofs` |
| `ComputeRequests` (instantiated by `MCComputeRequests`) | `ComputeRequestHandler` and `SMPCCipherTextMultiplier` on several threads | `ComputeRequests.cfg`, `ComputePlaintextMatrix.cfg` | `ComputeRequestsProofs` |

### BeaverCache

State: `cache` and `index` are `beavers_triplets_m` and
`beavers_triplets_index_m`; `mutex` their mutex; `pc`, `want`, `got` the calls
on the server's threads; `asked`, `reply` the request to the setup node;
`dealt`, `mine`, `spent`, `wasted` say what became of every triplet, which are
numbered as they are generated. A call is `Call`, `Lock`, then `Hit` or
`Miss`, `Serve`, `Refill`. `CallFails` is an exception (the lock guard unwinds,
and the code has written nothing before the reply was parsed); `Crash` is the
uninitialised `res` dereferenced after a broken connection; `Restart` is the
process started again. `OtherClientFetches` is another compute node's call.

### ThresholdScheme and KeyDealing

A share is `[comb, pos]`: the combination it was made for and the place of its
party in it. `NextCombination` is the in-place successor, `DistributionMatrix`
is built from `MOr` and `MAnd` as the code builds it, `RowOf` is the row of a
share, `Lambda` the coefficients, and `IsSecret` says whether the linear
combination of rows the code computes is the row of the secret. The group
(BICYCL's class group) is left out: partial decryptions and their combination
are linear in the shares, so rows are enough. `KeyDealing` runs the dealing
loop and then combines every choice of `T` shares in every order. That a list
has `nCr(N - 1, T - 1)` shares (`ListsSorted`) is not what the constructor of
`NetworkDetails` requires of a CoFHE node's (`nCr(N, T)`,
`network_details.hpp:121`); `make_cofhe_node` fills the fields through
references and never meets the check.

### ThresholdNetwork

`roster`, `current` are the setup node's; `proc`, `slot` say for each address
whether a CoFHE node runs there and which list it was given; `view`, `walk`,
`conns`, `share`, `replies`, `result` are the compute node's: its copy of the
roster, the loop that connects, the clients, `part_decryption_index_m`, the
partial decryptions so far, how it ended. `Join`, `JoinRefused`, `Listen` are
`make_cofhe_node`; `ComputeJoins`, `GetDetails`, `Walk`, `Started` are
`make_compute_node` and `SMPCClient::init`; `Decrypt`, `Reinit`, `Walk`,
`Reinited`, `NotEnough`, `Ask`, `Combine`, `RefusalThrows`, `ComputeDies` are a
decryption. `CrashNode` and `ComputeKilled` come from outside. A node may be
started again at its old address, where it joins as a new one. `calm` remembers
whether the order of `scripts/start_network.sh` was kept: every time the compute
node was started every CoFHE node listened, and none of them died before it was
up.

### Connection

`phase[e]` is the callback that is due at end `e`, `out` and `buf` are
`write_buffer` and `read_buffer`, `need` what `transfer_exactly` still waits
for, `inbox` what is on its way. A byte is a record of its message's number,
its place and the size of the data; a header has two bytes, the second of them
the newline, and the first byte of the data counts as a newline too, because
the data of every request and answer begins with a header line of its own. The
network delivers pieces of any size and may be cut at any time, losing what was
under way from any point on. The handler may answer, throw after or before its
work, or find the request to be for another service (`Refuse`).
`set_session_alive` and `close` are called between two calls.

### SharedClient

`at[k]` says where call `k` of `run()` is, statement by statement: `Begin` reads
`stopped()`, `Restart` and `ClearBuffer` are what follows if it was, `Fill` assigns
`write_buffer`, `StartWrite` is `do_write`, `EnterRun` and `LeaveRun` are
`io_context_m.run()`. `op[k]` is the asynchronous operation of the call, whose
callbacks (`Written`, `Deliver`, `Mixed`, `Fails`) any thread in `run()` may
execute, one at a time; `stopped` is the context's own flag. Messages are whole here
(`Connection` has the bytes), and what overlapping calls do to each other's
bytes is a choice: a buffer assigned by two at once, or while it is written, may
be `Torn`; two reads of one buffer may lose an answer or end the session.
`apart` remembers the calls that were not overlapped and began when nothing was
left of earlier ones (`Quiet`), `hurried` those for which `run()` returned at
once though their operation was pending, `late` those answered after they had
returned, through a pointer to a variable that is gone.

### ConcurrentRequests

`pc[t]` is where the request of thread `t` is; `conns` and `index` are
`clients_partial_decryption_m` and `part_decryption_index_m`, `under[t]` the
clients it has calls under way on. `Decrypt` is the check of the number of
clients, `Build`, `Ask`, `Answered`, `Combine` the decryption; `Clear`,
`AskDetails`, `TakeDetails`, `Walk`, `Connect`, `Rank`, `NotEnough`,
`DetailsFail` are `reinit_partial_decryption_clients`, in the order of its
statements; `FetchTriplets`, `Lock`, `TakeTriplets` are `get_beavers_triplets`,
which calls the same client of the setup node under a mutex. A client on which
calls overlapped is `spoilt`, which is what `SharedClient` is about. Once two
requests are in a reinit at once (`clash`), two threads write one vector without
a lock and anything may happen; the properties say what holds until then, and
that all of it does.

### ArithmeticService, TensorArithmetic and ComputeRequests

A tensor is its shape and its elements in row-major order; a ciphertext stands
for the number it encrypts modulo `Modulus` (the code's `2^k`). `pc[t]` says
where thread `t` is: `Receive`, then `Reject` (no branch of the handler is meant
for the request), `ComputeLocally` (sums, and products with a plaintext), or
`Decode` and the calls to other nodes. A product of ciphertexts is `Draw`
(triplets for all `n*m*p` products of elements, and the masking),
`RevealFirst`, `RevealSecond` (the second decryption, the recombination, the
sums of a matrix); a decryption request is `Decrypt`. `ProductThrows` is what
the code does not implement, and a second size read where there is none.
`RemoteFails` is a call that throws, after the CoFHE nodes decrypted or without;
`Crash` the null response dereferenced.

`uses[i]` counts how often each half of triplet `i` masked a value that was
revealed. That triplets are fresh is what `TripletDispenser` promises, so
`Draw` takes them numbered on; the numbers in them come from `MaskRows`. `live`
are the objects a request has on the heap, named by their tensor and place; each
branch says what it allocates and what its loops delete, and `reply` keeps what
was left and what was deleted in vain. `call` and `answer` of
`ArithmeticService` are `request` and the values of the replies; the service
defines products by rows and columns, apart from the code's flattened indexes.

### SharedPointers, TensorViews and SharedTensors

`block[p]` is the control block of pointer `p`, `count` and `weak` are
`count_m` and `weak_count_m`. A control block has a mutex, but a release is two
critical sections, the decrement and `call_deleter`, with a gap between them:
`StartRelease` is the first and `CallDeleter` the second, and `pc[t]` says that
thread `t` is in between, in a destructor (`Drop`) or in an assignment, which
then goes on with `Take`. `Make`, `Copy`, `Move`, `Watch` are the constructors;
a thread may make a pointer for a thread it starts, and else uses its own only.
`Replace` is `*this = copy()`, where the new object is made in a temporary.
`overlapped` remembers the blocks whose last `SharedPtr` was released while
another release was in the gap or a `WeakPtr` was left. What `call_deleter`
does to a freed block is undefined; both outcomes are allowed.

A view is its shape, its broadcast degrees and the part of the storage it may
use. `StepRow` and `JumpRow` are where an iterator is after `++` or `+=`, `Row`
is what it is dereferenced to, `At1`, `At2`, `AtIndex` the three ways to read,
`SetFlat` and `SetIndex` to write, `WalkOrder` what copies and walks visit.
`SharedTensors` extends both: every operation on tensors is one on their
pointers (`TensorsUsePointers` proves it) and does something to the view, and
`meant[h][i]` remembers which position of the storage element `i` of tensor `h`
ought to be: a copy means what its original means, and a broadcast repeats it.

### MessageFormats, NumberFormats and NodeServices

A text is a sequence of characters, each a byte of a binary number, a word, or
a line of numbers that the code reads with `getline`. Every layer is a line
that ends with the size of what follows (`Framed`, `Read`); the two layers that
cut behind `find` without checking have `ReadLoosely`, requests to join and
their answers their own formats, and the operands of a request to compute are
read by `ReadOperands`, which skips white space as `std::ws` does. In
`NumberFormats` a value is a shape and its numbers; `TensorText` writes the
table of offsets with the sign in its top bit and the bytes of each number, and
`ReadTensor` computes the lengths from the offsets.

`NodeServices` sends `Calls` through these layers: `Call` wraps a request,
`RefuseService`, `DecodingThrows` and one action per innermost handler are what
the node does with it, `Respond` wraps the response as each layer does (three
of the response classes forget their status), and `Receive` unwraps it.
`BeginDetails` and `EndDetails` are the two sides of the unlock in
`network_details()`: in between, the vector of nodes may be appended to, and
what is then read is the old roster, the new one, or the death of the node.
`handled`, `decoded`, `answer` and `got` record what the innermost handler was
given, what it made of it, what it answered, and what the caller got.

## 3. What the runs show

| Run | Bounds | Shows |
|---|---|---|
| `beaver_cache` | 2 threads, calls for 1, 2 or 4 triplets, cache of 3, 5 events (calls, failures, crashes, other clients' calls) | `Conservation`: every triplet is in one place; `ReplyFitsCache`: what was read of the cache before the remote call still holds after it; `DispensesFresh`: it implements `TripletDispenser`; `HolderLetsGo`: the mutex comes back |
| `key_dealing` | all `1 <= t <= n <= 6`; for `n <= 4` all choices of `t` shares in all orders | `EnumeratesAll`, `ListsSorted`, `RankIsPlace`; `CombinesExactly`: the secret comes out *iff* the shares are those of one combination with its first party's in front |
| `network` | `N = 3`, `T = 3`, 3 addresses, any order, 2 crashes, 2 restarts | `RosterNamesLists`, `ViewIsPrefix`; `FirstClientsDecrypt`: clients of the first lists with index 0 decrypt; `DecryptSound`: while the start-up script's order was kept (`calm`), a decryption that ends gives the plaintext |
| `network_skip` | `N = 3`, `T = 2`, no crash | a violation, finding 1 |
| `network_reinit` | `N = 3`, `T = 2`, no crash | a violation, finding 2 |
| `compute_requests` | 2 threads, 2 requests out of 42: every operation, pair of encryptions and kind of operand, sizes that fit and that do not, up to three dimensions; `Modulus = 8`, masks of 0 to 9 | `MasksOnce`; `DeletesWhatIsThere`: the deletion loops fit, and a success leaks only the two sums of a product of tensors; `ServesWhatIsMeant`: an error to a request that means something has another node as its cause; `ImplementsService` |
| `compute_plaintext_matrix` | 1 thread, 1 request: a 1x2 matrix of ciphertexts times a 2x1 matrix of plaintexts; one request, so that TLC has one trace to print | a violation, finding 3 |
| `shared_tensors` | 2 threads with 3 tensors and a `WeakPtr`, 2 blocks, vectors of 2 and tensors of 2x2x2, broadcasts to up to 8 elements and 3 dimensions, 2 derived views | `Counted`, `HeldAlive`, `NoLeak`; `DestroyedOnce`: a second destruction takes an overlap of releases; `WalksMeant`, `ReadsMeant`, `RowsMeant`, `SetsMeant`: for each way to reach an element, exactly when it is the element that is meant |
| `message_layers` | 2 callers, 2 calls out of 34: all request types, services and handlers, operands that begin with white space, empty tensors, signs and zeros; one list of shares; `IntMax = 68` | `HandledAsSent`: the innermost handler gets what was sent *iff* no operand begins with white space or ends the text empty, and the size fits; `RefusalsTold`; `AnswersArrive`: keys, shares, triplets and details arrive whole, the details torn only by a join at the same time; `TensorsSurvive` |
| `shared_client` | 3 calls, each on a thread of its own; fairness | `ApartIsRight`: a call that nothing overlaps on a client with nothing left over gets its own answer and leaves nothing; `UnansweredHurried`: no answer on an open connection, or one too late, only after a race on `stopped()`; `HangsOnlyByLoss`: a call in `run()` leaves it unless a message was torn, mixed or lost |
| `concurrent_requests` | 2 threads, 3 requests, `N = 3`, `T = 2`, nodes that begin to listen at any time | until two renewals meet: `AsksWholeSet`: no destroyed client is called, and `T` different nodes are asked; `IndexOfClients`: with their index, unless the request looked during a renewal; and `SetupCallsOrdered`: calls to the setup node overlap only when a renewal, which does not lock, meets a refill or another renewal; two refills never do |
| `connection` | 3 calls, data of 1 or 3 bytes, one cut | `Aligned`: nothing is left over between calls; `ImplementsCalls`: it implements `RemoteCall`, where a handler runs at most once for a call, an answer is its own request's, and none comes once a call has failed; `RunReturns` |

Why the bounds are enough. *BeaverCache*: sizes 1, 2, 4 against a cache of 3
give a hit that leaves some, one that empties the cache, a miss with and
without a remainder, and one larger than the cache; five events let two threads
overlap through a failure, a crash and a restart. The proofs remove the
bounds. *KeyDealing*: with six parties every way the successor can carry
occurs; `n <= 4` is where every choice of shares can be enumerated. The proofs
remove both bounds.
*ThresholdNetwork*: with `N = T` a list has one share, so that the index after a
reinit is refused; a restarted node takes a list that another then lacks, and
that join is refused; two crashes let a node die that replaced one, or the
compute node be killed after it lost a client. With `N > T` there is a node to
pass over, in the two runs that expect a violation; the proofs of the five
properties are for all `N` and `T`. *Connection*: one and three bytes of data put the piece read by
`async_read_until` before, in and at the end of the data; the third call is the
first one after a call that found a buffer used by another. *ComputeRequests*:
matrices of 1x2, 2x1 and 2x2 tell rows from columns and the inner size from the
outer ones; masks beyond the modulus occur because the generator draws from 0
to 9 whatever `k` is; two requests overlap on two threads at every point where
one of them waits. `Garbage` are the sizes that reading past a shape may give;
a larger one is the exception, `Throws`.

*SharedTensors*: two pointers of one thread and one of another are enough for
the two halves of two releases to interleave, an assignment in a release, and a
`WeakPtr` that outlives the object; two derived views are a broadcast of a
broadcast, a row of a broadcast, a row of a row that begins behind the start of
its storage, a reshape that copies. With dimensions of 2 and
broadcasts to 4, repetitions differ from rows in every position. The proofs,
about pointers and about views, remove the bounds. *NodeServices*: a
number of the width of a byte, one more, one less, zero and negative ones end
every case of the offsets; a tensor of rank 10 begins with a newline's byte;
`IntMax = 68` lets the longer requests overflow the size and the others not
(the proofs are for every `IntMax`);
two callers are a join during the reading of the details, a second join that
finds no list, and a call to a node the other call killed.

*SharedClient*: two calls can overlap at every pair of statements; the third
finds what they left, or overlaps with one after the other was done.
*ConcurrentRequests*: with `T = 2` there is a vector that has one client and not
the other; `N = 3` gives a renewal a node to pass over; a third request is what
finds the clients of a renewal that met a check, or renews them again.

Deadlock is checked in every run but `shared_tensors`, where every pointer may
have ended with nothing left to allocate; where a bound stops the model a named action
(`Quiesced`, `Stopped`, `OnlyDealt`, `Finished`, `Stops`) says so.

**Fairness.** `BeaverCache`'s `Fairness`: a thread past the lock goes on, and
the setup node serves a request sent to it. No fairness is put on `Lock` (a
`std::mutex` promises none) nor on failures. The call to the setup node has no
timeout, so `HolderLetsGo` needs `WF(Serve)`; that is the code's assumption,
and a hazard. `Connection`'s `FairSpec`: both ends run the callbacks that are
due (`io_context::run` does), and a handler ends. No fairness on `Run` or
`Cut`. `SharedClient`'s `FairSpec`: as long as a call that began, a
callback that is due or the session can take a step, one of them does
(`Progress`); no call is obliged to begin. The other modules state safety only.

### Findings

1. `SMPCClient::init` passes over a node that does not listen and keeps share
   index 0, which is wrong for the nodes it then has: the decryption ends
   without an error, and not with the plaintext. A node is in the roster before
   it listens, so this takes no failure, only a compute node that is started
   early. (`network_skip`)
2. `reinit_partial_decryption_clients` uses the rank, from 1, of a combination
   of connection counters as the index, from 0, into lists that are numbered per
   party. (`network_reinit`)
3. `deserialize_plaintext_tensor` returns its tensor flat (the decoder of
   ciphertexts reshapes), so a matrix of ciphertexts times a matrix of
   plaintexts, which the benchmark `scalar_ciphertext_matmul` requests, reads
   `shape()[1]` of a one-dimensional tensor. In the run, `<<3, 4>>` (1x2) times
   `<<5, 2>>` (2x1) is answered with `<<3, 6>>` (1x2) where `<<7>>` (1x1) is
   meant, modulo 8, the read past the end giving 2. For the same reason a plaintext
   matrix is never added to a ciphertext matrix but answered with an error.
   (`compute_plaintext_matrix`; `compute_requests` leaves plaintext matrices
   out.)

## 4. What is proved

`BeaverCacheProofs`, for any sets of threads and sizes, any cache size and any
number of events. The assumption is `CacheAssumption` (sizes are positive,
`CacheSize` and `MaxEvents` natural numbers, `Nobody` is no thread).

- `TypeCorrect`, `TripletsConserved`, `RefillExact`: the inductive invariant
  adds to `TypeOK` and `Conservation` that exactly the thread the mutex names is
  past the lock (`Protocol`), that the request and the reply have the size that
  was computed from the cache as it still is (`Exact`), and that no triplet
  stands twice in the cache or the reply, nor is one still to be generated
  (`Distinct`). Without `Protocol` the refill could not be related to the cache
  it was computed from.
- `DispensesFreshTriplets`: `Spec => Dispenser!Spec`. Hits and refills map to
  `Dispense`, a crash or failed call to `Abandon`, the rest to stutters.

`ThresholdNetworkProofs`, for any `N`, `T`, addresses and numbers of crashes.
The assumption is `NetworkAssumption`.

- `TypeCorrect`, `ListsAreGivenOnce`, `RosterTellsLists`, `ViewStaysPrefix`: the
  inductive invariant adds `HoldersKnown` (the counter counts the grants, a
  running node has the last one made to its address), and that a request goes to
  at least `T` clients. The list at a place is the place, so no two grants share
  one.
- `FirstClientsDecryptAlways`: adds that an open client's node still listens
  and has the list it had when it was connected (`ConnsLive`).
- `CalmDecryptionSound`: `Spec => []DecryptSound`. Adds, for as long as `calm` holds,
  that before the compute node is up no address has two lists (`CalmGrants`), that the
  clients are then those of the lists `0 .. T-1` in order (`CalmClients`), and
  that the answers were made with their first shares (`CalmReplies`). After a
  crash a dead client stays dead and its answer is `Nothing`: the decryption
  does not end, or ends the process, but never with another value.

What these proofs need of the key, that the first shares of the first `T`
parties combine to the secret, is `FirstSharesCombine` of `KeyDealingProofs`,
cited through an instance of it (`Dealer`).

`KeyDealingProofs`, for any number of parties and any threshold, from
`DealingAssumption`. The inductive invariant, `DealtSoFar`, says that after
`i - 1` turns the loop has dealt the first `i - 1` combinations, and that each list
is what those give; the theorems are then about `ThresholdScheme`.

- `EveryCombinationOnce`, `RanksAgree`: `nCr` and `Binomial`, which multiply and
  divide in turn, are the numbers of Pascal's triangle (`Ways`), and their divisions
  have no remainder. The rank the code sums up is `Ways` less the combinations
  that come after (`RankIs`); the first combination has rank 1, the last rank
  `Ways`, and the in-place successor raises it by exactly one (`RankOfNext`, the
  one place where carrying matters). As the rank grows with the lexicographic
  order it names a combination, so the list has all of them, once and in order.
- `ListsStaySorted`: a list is the places of the combinations its party is in
  (`ListsAre`).
- `SecretExactly`: the matrix that `MOr` and `MAnd` put together is one
  block per combination, in columns of their own but for the first, which is
  the secret's (`MatrixIs`). A column of the combined row is the sum over the
  shares with the signs of `Lambda`; that all but the first are zero and the first is
  one forces the `t` shares into the rows of one block, each once, the first row in
  front (`SecretIs`).
- `FirstSharesCombine`: every party is dealt a share, and the first shares of the
  first parties are those of the first combination.

The operators recurse over numbers, so they are recursive functions, and the
inductions are over sets of numbers (`SetInduction`, below).

`ComputeRequestsProofs`, for any threads, requests, rows of masks, modulus and
number of calls. The assumptions are those the modules state of their constants:
`RequestAssumption` (operands are tensors with at least one element and as many
as their shape says, as the decoders read them, and single values are those
without a shape), `MaskAssumption`, `ModulusAssumption`, `GarbageAssumption`, and
that `Throws` and `Nothing` are no tensor and no reply.

- `MasksHold`: `Spec => []MasksOnce`. A count of uses says nothing of the future,
  so the inductive invariant `MaskInv` adds what is known of the triplets that
  threads hold: they were numbered and stand once in a multiplication
  (`HeldKnown`), no two threads hold one (`HeldApart`), and the halves that a
  thread has still to mask with are unused (`HeldUnused`). `MarkedA`, `MarkedB`,
  `Drawn` and `Quiet` are the four ways a step can touch it; a call that fails
  after the nodes decrypted is covered by the first two.
- `DeletesHold`: `Spec => []DeletesWhatIsThere`, for all requests. The inductive
  invariant `ThreadInv` says of each thread (`ThreadOK`) which objects it has on
  the heap at each point where it waits for another node, what of its
  multiplication is there (`IsWork`, `HasTriplets`, `FirstRevealed`), and of its
  reply that nothing is deleted in vain or left (`Clean`). That the loops, which
  count by one tensor and delete another, fit is the lemma `LocalCleared` and what
  `StepThreads` says of `RevealSecond`: it rests on the sizes of what the
  operations return.
- `HandlerImplementsService`: `Spec => ImplementsService`, and `ServesHold`:
  `Spec => []ServesWhatIsMeant`. `Receive` maps to `Ask`; a response to `Answer`
  if it has a value and to `Refuse` if it has none; `Crash` to a crash; all else
  to stutters. `ThreadInv` says of a reply that its value is what the request
  means (`Right`). That it is, is arithmetic: what the masks are taken off again
  gives the products of elements (`Unmasked`, from lemmas on remainders), the
  element at `(i*m + j)*p + k` of the flattened factors is the product of element
  `(i, j)` and element `(j, k)` (`Places`, by division with remainder), and the sums over
  `j` are those of row by column (`MatrixSums`). Both theorems suppose
  `PlaintextsAreVectors`: no operand is a matrix of plaintexts. Without it they are false;
  `compute_plaintext_matrix` is the counterexample, finding 3.

Finite sums (`SumFunction` of the community modules) are defined by recursion on
sets. What the proofs need of them, that an element can be taken out and that
equal summands give equal sums, follows from induction, which
`SetInduction` states for a set of natural numbers and proves from the
well-foundedness of `<`: it has no operator as a parameter.

`ConnectionProofs`, for any number of calls, any sizes of data and any pieces in
which bytes arrive, from `ConnectionAssumption` (sizes are positive, finitely
bounded).

- `Typed`, `NothingLeftOver`: `Spec => []TypeOK`, `Spec => []Aligned`. `Aligned`
  speaks of the moment between two calls; the inductive invariant `IInv` says what
  is true in between. What an end has read and what is on its way to it are one
  message's bytes without a gap, and the end counts them right (`Stream`); and
  the two ends are in one of the stages of a call (`Protocol`): between calls, about to
  write, the session reading or handling the call (`Serves`) or about to answer it
  (`AnswerDue`), the answer under way (`Answered`), or the client has closed its socket
  and the session finishes alone (`Gone`). `Requested`, `Results` and `Past` relate
  this to the buffers, the results and the handlers that ran.
- `CallsStart`, `CallsRefined`, `ConnectionImplementsCalls`: `Spec =>
  ImplementsCalls`. `Run` maps to `Begin`, the handler (with or without an
  exception after its work) to `Execute`, the last byte of an answer to `Return`, an
  end of the client's session to `Fail`; reading, writing and cuts are stutters. `Fresh` is
  what makes `Execute` possible: the session's call is later than all it executed.

`SharedTensorsProofs`, for any threads, pointers, owners and blocks, from
`PointersAssumption` (finitely many pointers, each of one thread).

- `CountsExact`, `HeldStaysAlive`, `NothingLeaks`, `DestroyedOnlyOnce`: the
  inductive invariant `PInv` adds that a thread is in one release at a time, of
  a pointer of its own (`Protocol`), that a positive count means a block that is
  live and an object that is whole (`Alive`), that no pointer is to memory that
  was never allocated (`Allocated`), and that a block whose releases did not
  overlap has one release to come and its object whole, or none (`Orderly`). A
  pointer in the gap between its two halves counts for nothing (`Held`): the
  lemmas about `Counting` say how a step that changes one pointer changes the
  cardinalities, and everything else follows from them.
- `TensorsUsePointers`: `Spec => PSpec`, whatever the shapes and bounds, and with
  it the four properties of the pointers for the storages of tensors.
- `WalksFollowMeaning`, `ReadsFollowMeaning`, `RowsFollowMeaning`,
  `SetsFollowMeaning`: the properties of the views, for tensors of every rank and
  every shape, however long the chain of copies, rows, broadcasts and reshapes
  they come from. They need `TensorsAssumption` (shapes are not empty and
  their dimensions at least 1; a zero-degree tensor is stored as a vector of one
  element) and `NowhereAssumption` (`Nowhere` is not a position). The inductive
  invariant, `VInv`, has two parts. A pointer that needs a view has one:
  `Needs` says which do, since a release empties its pointer, and an assignment
  gives its pointer a view before it gives it the storage. And every view is well
  made (`ViewOK`: degrees divide the shape, and the view ends, inside its storage,
  as many elements behind its start as it really has) and `meant` is `PlacesOf`
  it, a closed form: element `i` is where the index of `i`, modulo the real
  dimensions, leads. `ContiguousOK`, `BroadcastOK`, `RowOK` and `ReshapeOK` are
  the steps; that a broadcast of a broadcast repeats what the first one repeated
  is the heart of `BroadcastOK`. What the four properties say then follows view by
  view (`WalksFollow`, `ReadsFollow`, `RowsFollow`, `SetFlatFollows`,
  `SetIndexFollows`), and in both directions: the reads, walks and writes the
  properties except do go wrong. `Spans`, `NumberOf` and the iterators are
  recursive functions; induction on their domains is by `SetInduction`, which is
  about a set of numbers and not about an operator.

`NodeServicesProofs`, for any callers, any number of calls, any `Calls` out of
`Requests`, any keys, shares and triplets, and any `IntMax`. `Requests` is what
the clients of the program can ask for: operands of every type and of numbers of
every size and sign, tensors of every shape whose numbers are as many as the
shape says. The assumptions are `FormatsAssumption` (`IntMax` is at least 1),
`ServicesAssumption` (`Calls` are such requests, shares and triplets are lists of
numbers, a triplet has 18) and, stated in each theorem, `Apart`: the five outcomes
that are no value (`Throws`, `Misread`, `Dies`, `Nothing`, `Lost`) differ, and none
has a field of a record or the first place of a sequence. TLC's model values are apart but have no domain
it could compare, so `Apart` is not a constant's assumption; five functions, each
on one number above 100, satisfy it.

- The formats first. `FramedIsRead`: a layer that compares the size with the rest
  reads back the fields and the data of what was framed, for all of them; what
  the data holds, newlines and whole framed messages included, does not matter,
  since only the first line is read for the size. `ValueRoundTrip`: a value is
  decoded to what was encoded. Under it, `mpz_export` gives a number
  `bits / 8 + 1` bytes, one more than it needs when the bits fill them, and
  `mpz_import` of them all is the number; the offsets are the sums of the sizes,
  so the differences are the sizes, but for the last, which is what is left of
  the text. `OperandsAreRead`: the operands of a request to compute, cut off
  anywhere, are read as they were written *iff* none begins with white space, the
  last is not empty, and at most the last newline is missing. The hard half is
  that reading goes wrong in every other case: the first operand that is not
  whole throws or gets other data (`OtherOperand`), and what is read after it is
  only appended and cannot mend it (`StaysSpoiled`).
- `ServicesInvariant`: the inductive invariant. The four properties are written
  for one call (`Good`: what it asks, what was handled, decoded, answered and
  told, the roster its handler reads, and the nodes that are down). A call
  under way has its own request on the wire and nothing handled yet (`Sent`); one
  that reads the roster without the lock has begun with a roster that is still the
  same or knows that it changed (`Reads`); and of a call that is answered, `Good`
  holds for *every* outcome of the response on the wire (`Answered`), so that the
  caller may read it at any later time. Each handler is shown to leave such a
  response; joins and deaths of other callers' calls only make more outcomes
  right (`Leaves`, `OthersStay`).
- `RequestsAreHandledAsSent`, `RefusalsAreTold`, `EveryAnswerArrives` and
  `EveryTensorSurvives`: the four properties, from it.

The operators of the formats are recursive functions and folds; the induction on
their domains is by a least counterexample (`WFMin`), about a set of numbers and
not about an operator.

`ConcurrentRequestsProofs` has two parts. About `SharedClient`, for any number
of calls, from `CallsAssumption`:

- `UnansweredWereHurried`: a call that is done and was not hurried left when the
  context had stopped, which it does with its last operation; so an operation
  that is pending after its call returned is a hurried one's.
- `ApartCallsAreRight`: the inductive invariant says
  that at most one call of `apart` is under way, that no other is active and no
  other operation pending meanwhile, and that what is written, on its way and
  answered is its own, at each of its steps.

About `ConcurrentRequests`, for any threads, number of requests, `N` and `T`,
from `RequestsAssumption`:

- `WholeSetsAreAsked`, `IndexIsOfClients`: the inductive
  invariant, `Renewal`, holds until two renewals meet: a renewal begins with
  fewer than `T` clients, so nobody asks; it keeps them fewer until its last
  client; the nodes it has are below the one its loop is at, so they differ; and
  when nobody renews, `T` clients have the index that is set, and those asked
  are not destroyed.
- `SetupCallsAreOrdered`: while nobody renewed, calls to the setup node are made
  by the holder of the mutex. After that a call of a renewal, which does not
  take it, may overlap with a refill, on the one connection; two refills never
  overlap, since each holds the mutex (`SetupOrder`), nor two renewals before
  they have met (`Renewal`).

**Only model-checked**: liveness (`HolderLetsGo`, `RunReturns`,
`HangsOnlyByLoss`), which needs `ENABLED` and fairness and is out of these
provers' reach. Every invariant and every action property of a passing run is the
statement of a theorem.

## 5. What is not modelled

- The group, randomness and secrecy: BICYCL's and out of reach of these tools.
- TLS, the acceptor and name resolution: boost::asio's.
- What two renewals at once make of the vector they share (undefined in the
  code): `ConcurrentRequests` goes on with one outcome of many and claims nothing of it.
  Nor does it say what a spoilt client answers.
- `ThresholdNetwork` serves one request at a time, with shares and values;
  `ConcurrentRequests` has the requests at the same time, without them. The
  setup node's handlers are atomic in `ThresholdNetwork`; the reference that
  escapes the lock in `network_details()` is modelled in `NodeServices`.
- Moving a join handler or an `SMPCClient`: both are moved while a node is
  made, before it serves.
- A request of kind `TENSOR` whose tensor has no dimension; the fixed-point
  numbers (`make_plaintext` of a float).
- What a node makes of data that was not what was sent: `NodeServices` lets it
  answer anything or die.
- Tensors of an empty shape or with a dimension of 0, which the constructors take
  and which hold no element.
- `UniquePtr` (one owner, no count), `SharedPtr::reset` on its own and
  `WeakPtr::lock`, which nothing in the program instantiates; iterators that go
  backwards, `set` of a run of values, and views of several sections, of which
  no constructor call in the program makes one.
- `common/optional.hpp`, `expected.hpp`, `iterators.hpp`, `error.hpp`,
  `pimpl_impl.hpp`: vocabulary types. `cuda/`: an empty file. Examples and
  benchmarks use the library; the models take the deployment from
  `examples/node.cpp` and `scripts/start_network.sh`.

## 6. Plan

1. *Done.* `BeaverCache` against `TripletDispenser`, with proofs.
2. *Done.* `ThresholdScheme`, `KeyDealing`, with proofs.
3. *Done.* `ThresholdNetwork` on top of `ThresholdScheme`, with proofs.
4. *Done.* `Connection` against `RemoteCall`.
5. *Done.* `ComputeRequests` on `TensorArithmetic` against `ArithmeticService`,
   with the proof of `MasksOnce`.
6. *Done.* `SharedPointers` with proofs, `TensorViews`, and `SharedTensors` on
   top of both.
7. *Done.* `MessageFormats`, `NumberFormats` and `NodeServices`, with the
   details that are read after the unlock.
8. *Done.* `SharedClient` and `ConcurrentRequests`, with proofs.
9. *Done.* Proofs: `Connection`'s invariant and its refinement of `RemoteCall`;
   `ComputeRequests`' deletions and its refinement of `ArithmeticService`;
   `KeyDealing`'s enumeration; the views of `SharedTensors`; the formats and
   `NodeServices`.
10. The acceptor with its threads, and a closed `Client` in
    `ConcurrentRequests`, whose calls fail at once from then on.

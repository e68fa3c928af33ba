------------------------- MODULE ConcurrentRequests -------------------------
(***************************************************************************)
(* Requests served at the same time by the threads of a compute node, on   *)
(* its one SMPCClient (include/smpc/smpc_client.hpp): decrypt and          *)
(* decrypt_tensor, which are alike here, reinit_partial_decryption_clients *)
(* and the fetching of triplets.  Only get_beavers_triplets locks.         *)
(*                                                                         *)
(* SharedClient says what becomes of calls that overlap on one Client;     *)
(* here a client they overlapped on is spoilt, and its answers are any or  *)
(* none.  A process that dies of one, or of a null response, goes no       *)
(* further.  The properties are about what holds before two requests renew *)
(* the clients at once (clash): what two threads then do to one vector is  *)
(* undefined, and one outcome of it, that its operations take place one by *)
(* one, is modelled.                                                       *)
(***************************************************************************)
EXTENDS Naturals, Sequences, FiniteSets

CONSTANTS
  Threads,     \* the server's threads
  N,           \* total_nodes, the CoFHE nodes in the roster
  T,           \* threshold
  MaxRequests  \* bound: the requests begun

ASSUME RequestsAssumption ==
  N \in Nat /\ T \in 1..N /\ MaxRequests \in Nat

VARIABLES
  pc,        \* pc[t]: where the request of thread t is
  conns,     \* clients_partial_decryption_m: each client's name, the node it is
             \* connected to, and who made it, init or a reinit (its rank)
  made,      \* the number of Clients made, which names them
  index,     \* part_decryption_index_m: 0 of "init" or the "rank" of a reinit
  loop,      \* loop[t]: the node reinit's loop is at, and how many clients it pushed
  sent,      \* sent[t]: the index in the request
  under,     \* under[t]: the clients it has calls under way on
  asked,     \* asked[t]: the clients, by place, it has begun to ask
  mutex,     \* who holds beavers_triplets_mutex_m, or nobody: {}
  listening, \* the nodes that can be connected to
  requests,  \* the number of requests begun
  spoilt,    \* history: clients on which calls overlapped
  met,       \* history: met[t]: another request was in reinit at its check
  clash,     \* history: two requests were in reinit at once
  renewed,   \* history: there was a reinit
  dead       \* history: a client was called after it was destroyed

shared == <<conns, made, index, mutex, listening>>
local == <<pc, loop, sent, under, asked>>
history == <<spoilt, met, clash, renewed, dead>>
vars == <<shared, local, requests, history>>

Setup == 0
Nodes == 1..N
Goes(t, p) == pc' = [pc EXCEPT ![t] = p]
InReinit(t) == pc[t] \in {"clear", "details", "waiting", "walk", "connect"}

\* init connects to the first T CoFHE nodes of the roster that listen, as many as
\* there are.
FirstListening(s) ==
  /\ \A j, k \in DOMAIN s : j < k => s[j] < s[k]
  /\ \A n \in listening :
       \/ \E k \in DOMAIN s : s[k] = n
       \/ Len(s) = T /\ \A k \in DOMAIN s : s[k] < n

Init ==
  /\ listening \in SUBSET Nodes
  /\ \E s \in UNION {[1..m -> listening] : m \in 0..T} :
       /\ FirstListening(s)
       /\ conns = [k \in DOMAIN s |-> [id |-> k, by |-> "init", node |-> s[k]]]
  /\ made = Len(conns)
  /\ index = "init"
  /\ pc = [t \in Threads |-> "idle"]
  /\ loop = [t \in Threads |-> [at |-> 1, pushed |-> 0]]
  /\ sent = [t \in Threads |-> "init"]
  /\ under = [t \in Threads |-> {}]
  /\ asked = [t \in Threads |-> {}]
  /\ mutex = {}
  /\ requests = 0
  /\ spoilt = {}
  /\ met = [t \in Threads |-> FALSE]
  /\ clash = FALSE /\ renewed = FALSE /\ dead = FALSE

\* A CoFHE node that had not opened its server when init ran does.
Listen(n) ==
  /\ n \notin listening
  /\ listening' = listening \cup {n}
  /\ UNCHANGED <<conns, made, index, mutex, local, requests, history>>

-----------------------------------------------------------------------------
(* Calls of Client::run.                                                   *)

Begins(t, c) ==
  /\ under' = [under EXCEPT ![t] = @ \cup {c}]
  /\ spoilt' = IF \E u \in Threads \ {t} : c \in under[u] THEN spoilt \cup {c} ELSE spoilt

Returns(t, c) == under' = [under EXCEPT ![t] = @ \ {c}]

-----------------------------------------------------------------------------
(* decrypt, decrypt_tensor.                                                *)

\* Mutant: the clients are renewed before every request.
AlwaysFew == TRUE

\* if (clients_partial_decryption_m.size() < threshold)
TooFew == Len(conns) < T

Decrypt(t) ==
  /\ pc[t] = "idle" /\ requests < MaxRequests
  /\ requests' = requests + 1
  /\ Goes(t, IF TooFew THEN "clear" ELSE "build")
  /\ met' = [met EXCEPT ![t] = \E u \in Threads \ {t} : InReinit(u)]
  /\ clash' = (clash \/ (TooFew /\ met'[t]))
  /\ renewed' = (renewed \/ TooFew)
  /\ asked' = [asked EXCEPT ![t] = {}]
  /\ UNCHANGED <<shared, loop, sent, under, spoilt, dead>>

\* The request is built, with the index as it is now.
Build(t) ==
  /\ pc[t] = "build"
  /\ sent' = [sent EXCEPT ![t] = index]
  /\ Goes(t, "ask")
  /\ UNCHANGED <<shared, loop, under, asked, requests, history>>

\* clients_partial_decryption_m[i]->run(...), for each i by a thread of its own.
Ask(t, i) ==
  /\ pc[t] = "ask" /\ i \notin asked[t]
  /\ asked' = [asked EXCEPT ![t] = @ \cup {i}]
  /\ IF i <= Len(conns) THEN Begins(t, conns[i].id) /\ UNCHANGED dead
     ELSE dead' = TRUE /\ UNCHANGED <<under, spoilt>>
  /\ UNCHANGED <<shared, pc, loop, sent, requests, met, clash, renewed>>

Answered(t, c) ==
  /\ pc[t] = "ask" /\ c \in under[t]
  /\ Returns(t, c)
  /\ UNCHANGED <<shared, pc, loop, sent, asked, requests, history>>

\* All have answered and the answers are combined.
Combine(t) ==
  /\ pc[t] = "ask" /\ asked[t] = 1..T /\ under[t] = {}
  /\ Goes(t, "idle")
  /\ UNCHANGED <<shared, loop, sent, under, asked, requests, history>>

-----------------------------------------------------------------------------
(* reinit_partial_decryption_clients.                                      *)

\* clients_partial_decryption_m.clear() destroys the clients, those with calls
\* under way, too.
Clears ==
  /\ conns' = <<>>
  /\ dead' = (dead \/ \E t \in Threads, k \in DOMAIN conns : conns[k].id \in under[t])

Clear(t) ==
  /\ pc[t] = "clear"
  /\ Clears
  /\ Goes(t, "details")
  /\ UNCHANGED <<made, index, mutex, listening, loop, sent, under, asked, requests,
                 spoilt, met, clash, renewed>>

\* client_trusted_node_m->run(...), without the mutex.
AskDetails(t) ==
  /\ pc[t] = "details"
  /\ Begins(t, Setup)
  /\ Goes(t, "waiting")
  /\ UNCHANGED <<shared, loop, sent, asked, requests, met, clash, renewed, dead>>

\* The details have come; the clients are cleared again.
TakeDetails(t) ==
  /\ pc[t] = "waiting"
  /\ Returns(t, Setup)
  /\ Clears
  /\ loop' = [loop EXCEPT ![t] = [at |-> 1, pushed |-> 0]]
  /\ Goes(t, "walk")
  /\ UNCHANGED <<made, index, mutex, listening, sent, asked, requests,
                 spoilt, met, clash, renewed>>

\* Its answer does not parse: an exception.
DetailsFail(t) ==
  /\ pc[t] = "waiting"
  /\ Returns(t, Setup)
  /\ Goes(t, "idle")
  /\ UNCHANGED <<shared, loop, sent, asked, requests, history>>

\* A turn of the loop: the next node is passed over when there are clients enough.
Walk(t) ==
  /\ pc[t] = "walk" /\ loop[t].at <= N
  /\ IF Len(conns) < T THEN Goes(t, "connect") /\ UNCHANGED loop
     ELSE loop' = [loop EXCEPT ![t].at = @ + 1] /\ UNCHANGED pc
  /\ UNCHANGED <<shared, sent, under, asked, requests, history>>

\* make_unique<Client> connects, or throws and the node is passed over;
\* push_back.
Connect(t) ==
  /\ pc[t] = "connect"
  /\ LET n == loop[t].at IN
     IF n \in listening
     THEN /\ conns' = Append(conns, [id |-> made + 1, by |-> "rank", node |-> n])
          /\ made' = made + 1
          /\ loop' = [loop EXCEPT ![t] = [at |-> n + 1, pushed |-> @.pushed + 1]]
     ELSE loop' = [loop EXCEPT ![t].at = @ + 1] /\ UNCHANGED <<conns, made>>
  /\ Goes(t, "walk")
  /\ UNCHANGED <<index, mutex, listening, sent, under, asked, requests, history>>

\* "Not enough partial decryption clients"
NotEnough(t) ==
  /\ pc[t] = "walk" /\ loop[t].at > N
  /\ Len(conns) < T
  /\ Goes(t, "idle")
  /\ UNCHANGED <<shared, loop, sent, under, asked, requests, history>>

\* Mutant: the rank is computed and dropped.
DropsRank == UNCHANGED index

TakesRank == index' = "rank"

\* combinationSequenceNumber of the clients this loop pushed: past the end of its
\* vector when it pushed fewer than T.
Rank(t) ==
  /\ pc[t] = "walk" /\ loop[t].at > N
  /\ Len(conns) >= T
  /\ TakesRank
  /\ Goes(t, "build")
  /\ UNCHANGED <<conns, made, mutex, listening, loop, sent, under, asked, requests,
                 spoilt, met, clash, renewed, dead>>

-----------------------------------------------------------------------------
(* get_beavers_triplets, when the cache is short of triplets.              *)

FetchTriplets(t) ==
  /\ pc[t] = "idle" /\ requests < MaxRequests
  /\ requests' = requests + 1
  /\ Goes(t, "lock")
  /\ UNCHANGED <<shared, loop, sent, under, asked, history>>

\* Mutant: no lock.
NoLock == TRUE

Unlocked == mutex = {}

Lock(t) ==
  /\ pc[t] = "lock" /\ Unlocked
  /\ mutex' = {t}
  /\ Begins(t, Setup)
  /\ Goes(t, "fetch")
  /\ UNCHANGED <<conns, made, index, listening, loop, sent, asked, requests,
                 met, clash, renewed, dead>>

TakeTriplets(t) ==
  /\ pc[t] = "fetch"
  /\ mutex' = {}
  /\ Returns(t, Setup)
  /\ Goes(t, "idle")
  /\ UNCHANGED <<conns, made, index, listening, loop, sent, asked, requests, history>>

-----------------------------------------------------------------------------
Finished ==
  /\ requests = MaxRequests /\ \A t \in Threads : pc[t] = "idle"
  /\ listening = Nodes
  /\ UNCHANGED vars

Next ==
  \/ \E n \in Nodes : Listen(n)
  \/ \E t \in Threads :
       \/ Decrypt(t) \/ Build(t) \/ Combine(t)
       \/ \E i \in 1..T : Ask(t, i)
       \/ \E c \in under[t] : Answered(t, c)
       \/ Clear(t) \/ AskDetails(t) \/ TakeDetails(t) \/ DetailsFail(t)
       \/ Walk(t) \/ Connect(t) \/ NotEnough(t) \/ Rank(t)
       \/ FetchTriplets(t) \/ Lock(t) \/ TakeTriplets(t)
  \/ Finished

Spec == Init /\ [][Next]_vars

-----------------------------------------------------------------------------
(* Properties.                                                             *)

\* Until two reinits meet, no request calls a client that was destroyed or that is
\* not there (only a reinit destroys clients, and while there are T of them none
\* begins), a request asks T different nodes, and a reinit ranks as many clients
\* as combinationSequenceNumber reads.
AsksWholeSet ==
  ~clash =>
    /\ ~dead
    /\ \A t \in Threads :
         /\ pc[t] \in {"build", "ask"} =>
              /\ Len(conns) = T
              /\ \A j, k \in 1..T : conns[j].node = conns[k].node => j = k
         /\ pc[t] = "walk" /\ loop[t].at > N => loop[t].pushed = Len(conns)

\* Until then, the index a request sends is the one of the clients it asks, unless
\* its check found clients enough while another's reinit had not ended: the
\* clients are in the vector before the index is set.
IndexOfClients ==
  ~clash => \A t \in Threads :
    pc[t] = "ask" /\ ~met[t] => \A k \in 1..T : conns[k].by = sent[t]

\* Calls to the setup node, which get_beavers_triplets orders by its mutex and a
\* reinit does not, overlap only once a reinit was needed; and then one that is
\* under way with another is the refill of the mutex' holder with a reinit's, or
\* those of two reinits that have met.  Two refills never overlap.
SetupCallsOrdered ==
  /\ Setup \in spoilt => renewed
  /\ \A t, u \in Threads :
       t # u /\ Setup \in under[t] \cap under[u] =>
         \/ {pc[t], pc[u]} = {"fetch", "waiting"}
         \/ clash /\ pc[t] = "waiting" /\ pc[u] = "waiting"
=============================================================================

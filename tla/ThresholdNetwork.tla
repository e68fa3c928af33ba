-------------------------- MODULE ThresholdNetwork --------------------------
(***************************************************************************)
(* The setup node, the CoFHE nodes and a compute node, and what becomes of *)
(* the key's shares between them.                                          *)
(*                                                                         *)
(*   - The setup node (include/node/join_as_node.hpp) keeps the roster of  *)
(*     the network, under a mutex, and gives the N lists of shares away,   *)
(*     one to each CoFHE node that joins.                                  *)
(*   - A CoFHE node (include/node/nodes.hpp, make_cofhe_node) joins, then  *)
(*     opens its server; it answers a partial decryption with the share at *)
(*     the index the request names                                         *)
(*     (include/node/partial_decryption_request_handler.hpp).              *)
(*   - The compute node (make_compute_node and SMPCClient's init, decrypt  *)
(*     and reinit_partial_decryption_clients) joins, gets the roster,      *)
(*     connects to T CoFHE nodes, and decrypts by combining what they      *)
(*     answer.                                                             *)
(*                                                                         *)
(* A ciphertext is left out: a partial decryption is the place of the      *)
(* share it was made with, and IsSecret says whether combining gives the   *)
(* plaintext.  The setup node does not fail (nothing it keeps survives     *)
(* it).  One request to decrypt is served at a time.                       *)
(***************************************************************************)
EXTENDS ThresholdScheme

CONSTANTS
  N,           \* total_nodes
  T,           \* threshold
  Addrs,       \* the addresses CoFHE nodes are started at
  Nothing,     \* not a share: no answer came
  Refusal,     \* not a share: an ERROR answer came
  MaxCrashes,  \* bound: CoFHE nodes that die, compute nodes that are killed
  MaxRestarts  \* bound: times the compute node is started again

ASSUME NetworkAssumption ==
  /\ N \in Nat /\ T \in 1..N
  /\ MaxCrashes \in Nat
  /\ MaxRestarts \in Nat
  /\ Nothing # Refusal
  /\ {Nothing, Refusal} \cap [list : Nat, at : Nat] = {}

VARIABLES
  roster,    \* setup: network_details_m.nodes()
  current,   \* setup: current_node_m, the next list to give away
  granted,   \* history: the grants so far, each an address, the list of
             \* shares it was given and its place in the roster
  proc,      \* proc[a]: the CoFHE node at address a
  slot,      \* slot[a]: which list of shares that node was given
  compute,   \* where the compute node is
  view,      \* compute: network_details_m.nodes(), a copy of the roster
  walk,      \* compute: the loop over view
  conns,     \* compute: clients_partial_decryption_m
  share,     \* compute: part_decryption_index_m
  replies,   \* compute: the answers to the request under way
  result,    \* compute: how the last decryption ended
  crashes,   \* crashes from outside so far, against MaxCrashes
  calm       \* history: the start-up order of scripts/start_network.sh was kept:
             \* the compute node was started when every CoFHE node listened, and
             \* none of them died before it was up

setup == <<roster, current, granted>>
cofhe == <<proc, slot>>
client == <<view, walk, conns, share, replies, result>>
vars == <<setup, cofhe, compute, client, crashes, calm>>

Parties == 0..(N - 1)
Entry(a, type) == [addr |-> a, type |-> type]
SetupEntry == Entry("setup", "SETUP_NODE")
ComputeEntry == Entry("compute", "COMPUTE_NODE")
IsCofhe(e) == e.type = "CoFHE_NODE"

\* The lists of shares the setup node made, and the matrix behind them.
Shares == [p \in Parties |-> SharesOf(p, N, T)]
Matrix == DistributionMatrix(N, T)

Listening(a) == a \in Addrs /\ proc[a] = "listening"

\* Every list has been given, to a node that listens.
AllListen == Len(granted) = N /\ \A k \in 1..N : Listening(granted[k].addr)

Init ==
  /\ roster = <<SetupEntry>>
  /\ current = 0
  /\ granted = <<>>
  /\ proc = [a \in Addrs |-> "down"]
  /\ slot = [a \in Addrs |-> 0]
  /\ compute = "down"
  /\ view = <<>>
  /\ walk = 1
  /\ conns = <<>>
  /\ share = 0
  /\ replies = <<>>
  /\ result = "none"
  /\ crashes = 0
  /\ calm = TRUE

-----------------------------------------------------------------------------
(* The CoFHE nodes and the setup node.                                     *)

\* The grant that is due to address a.
Grant(a) == [addr |-> a, list |-> current, at |-> Len(roster) + 1]

\* Mutant: the cap lets one node too many in, with the last list.
AdmitsOneMore(a) ==
  /\ current <= N
  /\ roster' = Append(roster, Entry(a, "CoFHE_NODE"))
  /\ granted' = Append(granted, Grant(a))
  /\ slot' = [slot EXCEPT ![a] = current]
  /\ current' = current + 1

\* Mutant: the roster is kept newest first.
AdmitsInFront(a) ==
  /\ current < N
  /\ roster' = <<SetupEntry, Entry(a, "CoFHE_NODE")>> \o Tail(roster)
  /\ granted' = Append(granted, Grant(a))
  /\ slot' = [slot EXCEPT ![a] = current]
  /\ current' = current + 1

\* handle_join_as_cofhe_node, under the mutex: the node enters the roster and
\* is given the next list.
Admits(a) ==
  /\ current < N
  /\ roster' = Append(roster, Entry(a, "CoFHE_NODE"))
  /\ granted' = Append(granted, Grant(a))
  /\ slot' = [slot EXCEPT ![a] = current]
  /\ current' = current + 1

\* A node is started at address a and joins; its server does not listen yet.
Join(a) ==
  /\ proc[a] = "down"
  /\ Admits(a)
  /\ proc' = [proc EXCEPT ![a] = "joined"]
  /\ UNCHANGED <<compute, client, crashes, calm>>

\* "No more nodes can join": the node started at a ends with an exception.
JoinRefused(a) ==
  /\ proc[a] = "down"
  /\ current >= N
  /\ proc' = [proc EXCEPT ![a] = "refused"]
  /\ UNCHANGED <<setup, slot, compute, client, crashes, calm>>

\* It gets the network's details (its shares are in its join's answer) and
\* constructs its server.
Listen(a) ==
  /\ proc[a] = "joined"
  /\ proc' = [proc EXCEPT ![a] = "listening"]
  /\ UNCHANGED <<setup, slot, compute, client, crashes, calm>>

\* The node dies, and the connections to it with it.  The setup node is never
\* told: the roster entry and the list stay taken.
CrashNode(a) ==
  /\ crashes < MaxCrashes
  /\ proc[a] \in {"joined", "listening"}
  /\ proc' = [proc EXCEPT ![a] = "down"]
  /\ conns' = [k \in 1..Len(conns) |->
                 [addr |-> conns[k].addr,
                  open |-> conns[k].open /\ conns[k].addr # a]]
  /\ crashes' = crashes + 1
  /\ calm' = (calm /\ compute \in {"up", "reinit", "asking"})
  /\ UNCHANGED <<setup, slot, compute, view, walk, share, replies, result>>

-----------------------------------------------------------------------------
(* The compute node starts.                                                *)

ComputeStarts == Cardinality({k \in 1..Len(roster) : ~IsCofhe(roster[k])}) - 1

\* make_compute_node: handle_join_as_compute_node on the setup node's side.
ComputeJoins ==
  /\ compute = "down"
  /\ ComputeStarts <= MaxRestarts
  /\ calm' = (calm /\ AllListen)
  /\ roster' = Append(roster, ComputeEntry)
  /\ compute' = "joined"
  /\ UNCHANGED <<current, granted, cofhe, client, crashes>>

\* Its second request: the network's details.  SMPCClient's init starts over
\* them, with share index 0.
GetDetails ==
  /\ compute = "joined"
  /\ compute' = "init"
  /\ view' = roster
  /\ walk' = 1
  /\ conns' = <<>>
  /\ share' = 0
  /\ replies' = <<>>
  /\ result' = "none"
  /\ UNCHANGED <<setup, cofhe, crashes, calm>>

\* Mutant: a new connection goes to the front.
ConnectsInFront(e) ==
  IF IsCofhe(e) /\ Len(conns) < T /\ Listening(e.addr)
    THEN <<[addr |-> e.addr, open |-> TRUE]>> \o conns
    ELSE conns

\* One turn of the loop: connect to a CoFHE node while there are fewer than T
\* connections; a node that does not listen throws, and is passed over.
Connects(e) ==
  IF IsCofhe(e) /\ Len(conns) < T /\ Listening(e.addr)
    THEN Append(conns, [addr |-> e.addr, open |-> TRUE])
    ELSE conns

Walk ==
  /\ compute \in {"init", "reinit"}
  /\ walk <= Len(view)
  /\ conns' = Connects(view[walk])
  /\ walk' = walk + 1
  /\ UNCHANGED <<setup, cofhe, compute, view, share, replies, result, crashes, calm>>

\* init keeps whatever it has, and the index 0, and the server starts.
Started ==
  /\ compute = "init"
  /\ walk > Len(view)
  /\ compute' = "up"
  /\ UNCHANGED <<setup, cofhe, client, crashes, calm>>

-----------------------------------------------------------------------------
(* The compute node decrypts.                                              *)

\* decrypt, with T clients: the request goes to them.
Decrypt ==
  /\ compute = "up"
  /\ Len(conns) >= T
  /\ compute' = "asking"
  /\ replies' = <<>>
  /\ result' = "none"
  /\ UNCHANGED <<setup, cofhe, view, walk, conns, share, crashes, calm>>

\* decrypt, with fewer: reinit_partial_decryption_clients starts afresh from
\* new details.
Reinit ==
  /\ compute = "up"
  /\ Len(conns) < T
  /\ compute' = "reinit"
  /\ conns' = <<>>
  /\ view' = roster
  /\ walk' = 1
  /\ result' = "none"
  /\ UNCHANGED <<setup, cofhe, share, replies, crashes, calm>>

\* The numbers the loop gave the clients it connected, 1, 2, ..., and the
\* rank of that combination.
RankOfClients == CombinationSequenceNumber(N, T, [k \in 1..T |-> k])

Reinited ==
  /\ compute = "reinit"
  /\ walk > Len(view)
  /\ Len(conns) >= T
  /\ share' = RankOfClients
  /\ compute' = "asking"
  /\ replies' = <<>>
  /\ UNCHANGED <<setup, cofhe, view, walk, conns, result, crashes, calm>>

\* "Not enough partial decryption clients": an ERROR to the client.
NotEnough ==
  /\ compute = "reinit"
  /\ walk > Len(view)
  /\ Len(conns) < T
  /\ compute' = "up"
  /\ result' = "error"
  /\ UNCHANGED <<setup, cofhe, view, walk, conns, share, replies, crashes, calm>>

\* Mutant: the last index of the list is refused.
RefusesLast(a) ==
  IF share + 1 >= Len(Shares[slot[a]]) THEN Refusal
                                       ELSE [list |-> slot[a], at |-> share]

\* PartialDecryptionRequestHandler::handle_request at address a: made with the
\* share at the index in the node's list, or "Invalid secret key share id".
PartialDecryption(a) ==
  IF share >= Len(Shares[slot[a]]) THEN Refusal
                                   ELSE [list |-> slot[a], at |-> share]

\* The next of the T clients is asked; a broken connection leaves the
\* response a null pointer.
Ask ==
  /\ compute = "asking"
  /\ Len(replies) < T
  /\ LET c == conns[Len(replies) + 1]
     IN  replies' = Append(replies, IF c.open THEN PartialDecryption(c.addr)
                                              ELSE Nothing)
  /\ UNCHANGED <<setup, cofhe, compute, view, walk, conns, share, result,
                 crashes, calm>>

Answered == compute = "asking" /\ Len(replies) = T
Usable == \A k \in 1..T : replies[k] \notin {Nothing, Refusal}
FirstUnusable(x) ==
  \E k \in 1..T : replies[k] = x /\ \A j \in 1..(k - 1) :
                                      replies[j] \notin {Nothing, Refusal}

\* combine_part_decryption_results gives the plaintext.
Reconstructs ==
  IsSecret(Matrix, [k \in 1..T |-> Shares[replies[k].list][replies[k].at + 1]])

Combine ==
  /\ Answered
  /\ Usable
  /\ result' = IF Reconstructs THEN "plaintext" ELSE "garbage"
  /\ compute' = "up"
  /\ UNCHANGED <<setup, cofhe, view, walk, conns, share, replies, crashes, calm>>

\* The text of a refusal does not parse as a partial decryption, and the
\* exception becomes an ERROR to the client.
RefusalThrows ==
  /\ Answered
  /\ FirstUnusable(Refusal)
  /\ result' = "error"
  /\ compute' = "up"
  /\ UNCHANGED <<setup, cofhe, view, walk, conns, share, replies, crashes, calm>>

\* The process is gone, with all it knew.
Gone ==
  /\ compute' = "down"
  /\ view' = <<>>
  /\ walk' = 1
  /\ conns' = <<>>
  /\ share' = 0
  /\ replies' = <<>>
  /\ result' = "none"

\* The null response is dereferenced, or a refusal is parsed as the bytes of
\* a tensor, beyond their end.
ComputeDies ==
  /\ Answered
  /\ ~Usable
  /\ Gone
  /\ UNCHANGED <<setup, cofhe, crashes, calm>>

\* The compute node is killed.
ComputeKilled ==
  /\ crashes < MaxCrashes
  /\ compute # "down"
  /\ Gone
  /\ crashes' = crashes + 1
  /\ UNCHANGED <<setup, cofhe, calm>>

\* The compute node is down, and the bound lets it start no more.
Stopped ==
  /\ compute = "down"
  /\ ComputeStarts > MaxRestarts
  /\ UNCHANGED vars

-----------------------------------------------------------------------------
Next ==
  \/ \E a \in Addrs : Join(a) \/ JoinRefused(a) \/ Listen(a) \/ CrashNode(a)
  \/ ComputeJoins \/ GetDetails \/ Walk \/ Started
  \/ Decrypt \/ Reinit \/ Reinited \/ NotEnough
  \/ Ask \/ Combine \/ RefusalThrows \/ ComputeDies \/ ComputeKilled
  \/ Stopped

Spec == Init /\ [][Next]_vars

-----------------------------------------------------------------------------
(* Properties.                                                             *)

Entries == [addr : Addrs \cup {"setup", "compute"},
            type : {"SETUP_NODE", "CoFHE_NODE", "COMPUTE_NODE"}]
Answers == [list : Parties, at : {share}] \cup {Nothing, Refusal}

\* The shape of the state; the answers to a request were all made with the
\* same share index.
TypeOK ==
  /\ roster \in Seq(Entries)
  /\ current \in 0..N
  /\ granted \in Seq([addr : Addrs, list : Parties, at : Nat])
  /\ proc \in [Addrs -> {"down", "joined", "listening", "refused"}]
  /\ slot \in [Addrs -> Parties]
  /\ compute \in {"down", "joined", "init", "up", "reinit", "asking"}
  /\ view \in Seq(Entries)
  /\ walk \in 1..(Len(view) + 1)
  /\ conns \in Seq([addr : Addrs, open : BOOLEAN])
  /\ share \in {0, RankOfClients}
  /\ replies \in Seq(Answers)
  /\ Len(replies) <= T
  /\ result \in {"none", "plaintext", "garbage", "error"}
  /\ crashes \in 0..MaxCrashes
  /\ calm \in BOOLEAN

\* No list of shares is given twice, even after its holder died; at most N are
\* given; and a node that runs holds the last list given at its address.
ListsGivenOnce ==
  /\ Len(granted) <= N
  /\ \A j, k \in 1..Len(granted) :
       granted[j].list = granted[k].list => j = k
  /\ \A a \in Addrs :
       proc[a] \in {"joined", "listening"} =>
         \E k \in 1..Len(granted) :
           /\ granted[k].addr = a /\ granted[k].list = slot[a]
           /\ \A j \in (k + 1)..Len(granted) : granted[j].addr # a

\* The CoFHE nodes of the roster are the nodes the lists 0, 1, ... were given
\* to, in this order, whatever joins in between: all a compute node knows of
\* who holds which share is the order of the roster.
RosterNamesLists ==
  /\ \A k \in 1..Len(granted) :
       /\ granted[k].list = k - 1
       /\ granted[k].at \in 1..Len(roster)
       /\ roster[granted[k].at] = Entry(granted[k].addr, "CoFHE_NODE")
       /\ \A j \in 1..(k - 1) : granted[j].at < granted[k].at
  /\ \A i \in 1..Len(roster) :
       IsCofhe(roster[i]) => \E k \in 1..Len(granted) : granted[k].at = i

\* A compute node's view may be old, but it is the beginning of the roster,
\* and its clients, at most T, are CoFHE nodes of the part of the view the
\* loop has passed.
ViewIsPrefix ==
  /\ Len(view) <= Len(roster)
  /\ \A i \in 1..Len(view) : view[i] = roster[i]
  /\ Len(conns) <= T
  /\ \A k \in 1..Len(conns) :
       \E i \in 1..(walk - 1) : view[i] = Entry(conns[k].addr, "CoFHE_NODE")

\* The T clients are connected to the nodes that hold the first T lists.
ClientsAreFirst ==
  /\ Len(conns) = T
  /\ \A k \in 1..T : conns[k].open /\ slot[conns[k].addr] = k - 1

\* With the clients of the first T lists and the share index of the start, 0,
\* combining the answers gives the plaintext: each holder's first share is
\* that of the first combination.
FirstClientsDecrypt ==
  Answered /\ share = 0 /\ ClientsAreFirst => Usable /\ Reconstructs

\* In a network started in order, a decryption that ends, ends with the
\* plaintext: whoever crashes later can end the compute node, but leads
\* neither to another value nor to an error, and never to a new choice of
\* clients.
DecryptSound == calm => result \in {"none", "plaintext"}

\* "`decrypt`: Decryption of ciphertexts over the network" (README.md:125): with
\* the share index of the start, a value that is returned is the plaintext,
\* in whatever order the nodes are started.
StartupDecryptSound == share = 0 => result # "garbage"

\* "contains shares of each party for each threshold combination"
\* (include/x86_64/cpu_cryptosystem_distributed.inl:295): whatever the share
\* index, the clients of the first T lists decrypt with it.
ReinitDecrypts ==
  Answered /\ ClientsAreFirst => Usable /\ Reconstructs

=============================================================================

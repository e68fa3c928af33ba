----------------------- MODULE ConcurrentRequestsProofs -----------------------
(***************************************************************************)
(* Proofs about requests that are served at the same time, for any number  *)
(* of threads and requests, any N and any T; and about the calls that      *)
(* overlap on one of their clients, for any number of those.               *)
(***************************************************************************)
EXTENDS ConcurrentRequests, SharedClient, SequenceTheorems, TLAPS

Begun(t) == pc[t] \in {"clear", "details", "waiting"}
Looping(t) == pc[t] \in {"walk", "connect"}
Asking(t) == pc[t] \in {"build", "ask"}

Client == [id : Nat \ {Setup}, by : {"init", "rank"}, node : Nat]

\* The shape of the state; calls are under way only where they are made, those to
\* the setup node apart from the others.
Shape ==
  /\ pc \in [Threads -> {"idle", "build", "ask", "clear", "details", "waiting",
                         "walk", "connect", "lock", "fetch"}]
  /\ conns \in Seq(Client) /\ made \in Nat
  /\ index \in {"init", "rank"} /\ sent \in [Threads -> {"init", "rank"}]
  /\ loop \in [Threads -> [at : Nat, pushed : Nat]]
  /\ under \in [Threads -> SUBSET Nat] /\ asked \in [Threads -> SUBSET (1..T)]
  /\ met \in [Threads -> BOOLEAN]
  /\ clash \in BOOLEAN /\ dead \in BOOLEAN /\ renewed \in BOOLEAN
  /\ \A t \in Threads :
       /\ under[t] # {} => pc[t] \in {"ask", "waiting", "fetch"}
       /\ Setup \in under[t] => pc[t] \in {"waiting", "fetch"}
       /\ pc[t] \in {"waiting", "fetch"} => under[t] \subseteq {Setup}

\* One reinit at a time; it begins while there are too few clients, and nobody
\* asks before there are enough again; then the index is that of the clients,
\* for everybody who did not look while it was going on.
Renewal ==
  /\ ~dead
  /\ \A t, u \in Threads : InReinit(t) /\ InReinit(u) => t = u
  /\ \A t \in Threads :
       /\ Begun(t) \/ pc[t] = "connect" => Len(conns) < T
       /\ Asking(t) => Len(conns) = T
       /\ Looping(t) =>
            /\ loop[t].pushed = Len(conns)
            /\ \A k \in DOMAIN conns : conns[k].by = "rank" /\ conns[k].node < loop[t].at
       /\ Asking(t) /\ ~met[t] =>
            /\ \A u \in Threads : ~InReinit(u)
            /\ pc[t] = "ask" => sent[t] = index
  /\ Len(conns) <= T
  /\ \A j, k \in DOMAIN conns : conns[j].node = conns[k].node => j = k
  /\ (\A u \in Threads : ~InReinit(u)) /\ Len(conns) = T =>
       \A k \in DOMAIN conns : conns[k].by = index

\* Calls to the setup node are ordered by the mutex while there is no reinit.
SetupOrder ==
  /\ \A t \in Threads : InReinit(t) => renewed
  /\ \A t \in Threads : pc[t] = "fetch" => mutex = {t}
  /\ Setup \in spoilt => renewed

\* What Shape says of the clients.
LEMMA Clients ==
  ASSUME Shape
  PROVE  /\ Len(conns) \in Nat /\ DOMAIN conns = 1..Len(conns)
         /\ \A k \in DOMAIN conns : /\ conns[k].id \in Nat /\ conns[k].id # Setup
                                   /\ conns[k].node \in Nat
<1>1. conns \in Seq(Client)
  BY DEF Shape
<1>2. \A k \in 1..Len(conns) : conns[k] \in Client
  BY <1>1, ElementOfSeq
<1> QED BY <1>1, <1>2, LenProperties DEF Client

\* A turn of a loop that pushed nothing.
LEMMA Turns ==
  ASSUME Shape, NEW t \in Threads, loop' = [loop EXCEPT ![t].at = @ + 1]
  PROVE  /\ loop' \in [Threads -> [at : Nat, pushed : Nat]]
         /\ loop'[t].pushed = loop[t].pushed /\ loop'[t].at = loop[t].at + 1
         /\ \A u \in Threads \ {t} : loop'[u] = loop[u]
<1>1. loop \in [Threads -> [at : Nat, pushed : Nat]]
  BY DEF Shape
<1>2. loop' = [loop EXCEPT ![t] = [at |-> loop[t].at + 1, pushed |-> loop[t].pushed]]
  <2>1. loop[t] \in [at : Nat, pushed : Nat]
    BY <1>1
  <2>2. [loop[t] EXCEPT !.at = @ + 1] = [at |-> loop[t].at + 1, pushed |-> loop[t].pushed]
    BY <2>1
  <2> QED BY <2>2
<1> QED BY <1>1, <1>2

LEMMA InitShape == Init => Shape
<1> SUFFICES ASSUME Init PROVE Shape
  OBVIOUS
<1>0. PICK m \in 0..T : \E s \in [1..m -> listening] :
        conns = [k \in DOMAIN s |-> [id |-> k, by |-> "init", node |-> s[k]]]
  BY DEF Init
<1>1. PICK s \in [1..m -> listening] :
        conns = [k \in DOMAIN s |-> [id |-> k, by |-> "init", node |-> s[k]]]
  BY <1>0
<1>2. conns \in Seq(Client) /\ Len(conns) = m
  <2>1. \A k \in 1..m : s[k] \in Nat
    <3>1. listening \subseteq Nat
      BY RequestsAssumption DEF Init, Nodes
    <3> QED BY <3>1
  <2>2. conns \in [1..m -> Client]
    BY <1>1, <2>1 DEF Client, Setup
  <2>3. m \in Nat
    BY RequestsAssumption
  <2> QED BY <2>2, <2>3
<1>3. /\ made = Len(conns) /\ index = "init"
      /\ pc = [t \in Threads |-> "idle"]
      /\ loop = [t \in Threads |-> [at |-> 1, pushed |-> 0]]
      /\ sent = [t \in Threads |-> "init"]
      /\ under = [t \in Threads |-> {}] /\ asked = [t \in Threads |-> {}]
      /\ met = [t \in Threads |-> FALSE]
      /\ clash = FALSE /\ renewed = FALSE /\ dead = FALSE
  BY DEF Init
<1>4. m \in Nat
  BY RequestsAssumption
<1> QED BY <1>2, <1>3, <1>4 DEF Shape

LEMMA InitRenewal == Init => Renewal
<1> SUFFICES ASSUME Init PROVE Renewal
  OBVIOUS
<1>0. PICK m \in 0..T : \E s \in [1..m -> listening] :
        /\ FirstListening(s)
        /\ conns = [k \in DOMAIN s |-> [id |-> k, by |-> "init", node |-> s[k]]]
  BY DEF Init
<1>1. PICK s \in [1..m -> listening] :
        /\ FirstListening(s)
        /\ conns = [k \in DOMAIN s |-> [id |-> k, by |-> "init", node |-> s[k]]]
  BY <1>0
<1>2. Len(conns) = m /\ DOMAIN conns = 1..m
  <2>1. Shape
    BY InitShape
  <2>2. DOMAIN conns = 1..m /\ m \in Nat
    BY <1>1, RequestsAssumption
  <2>3. Len(conns) \in Nat /\ DOMAIN conns = 1..Len(conns)
    BY <2>1, Clients
  <2>4. Len(conns) = m
    BY <2>2, <2>3
  <2> QED BY <2>2, <2>4
<1>3. \A j, k \in 1..m : s[j] = s[k] => j = k
  <2>1. \A j, k \in 1..m : j < k => s[j] < s[k]
    BY <1>1 DEF FirstListening
  <2>2. \A k \in 1..m : s[k] \in Nat
    <3>1. listening \subseteq Nat
      BY RequestsAssumption DEF Init, Nodes
    <3> QED BY <3>1
  <2> QED BY <2>1, <2>2, RequestsAssumption
<1>4. \A k \in 1..m : conns[k].by = "init" /\ conns[k].node = s[k]
  BY <1>1
<1>5. /\ \A t \in Threads : pc[t] = "idle"
      /\ ~dead /\ index = "init" /\ m <= T
  BY RequestsAssumption DEF Init
<1> QED BY <1>2, <1>3, <1>4, <1>5 DEF Renewal, InReinit, Begun, Looping, Asking

LEMMA InitOrder == Init => SetupOrder
  BY DEF Init, SetupOrder, InReinit

-----------------------------------------------------------------------------
LEMMA StepShape == Shape /\ [Next]_vars => Shape'
<1> SUFFICES ASSUME Shape, [Next]_vars PROVE Shape'
  OBVIOUS
<1> USE DEF Shape, Goes, local, shared, history
<1>1. ASSUME NEW n \in Nodes, Listen(n) PROVE Shape'
  BY <1>1 DEF Listen
<1>2. ASSUME NEW t \in Threads, Decrypt(t) PROVE Shape'
  BY <1>2 DEF Decrypt, TooFew
<1>3. ASSUME NEW t \in Threads, Build(t) PROVE Shape'
  BY <1>3 DEF Build
<1>4. ASSUME NEW t \in Threads, NEW i \in 1..T, Ask(t, i) PROVE Shape'
  <2>1. CASE i <= Len(conns)
    <3>1. i \in DOMAIN conns
      BY <2>1, Clients, RequestsAssumption
    <3>2. conns[i].id \in Nat /\ conns[i].id # Setup
      BY <3>1, Clients
    <3>3. under' = [under EXCEPT ![t] = @ \cup {conns[i].id}]
      BY <1>4, <2>1 DEF Ask, Begins
    <3>4. under' \in [Threads -> SUBSET Nat]
      BY <3>2, <3>3
    <3>5. asked' \in [Threads -> SUBSET (1..T)]
      BY <1>4 DEF Ask
    <3>6. pc' = pc /\ pc[t] = "ask" /\ UNCHANGED <<dead, shared, loop, sent, met, clash, renewed>>
      BY <1>4, <2>1 DEF Ask
    <3> QED BY <3>2, <3>3, <3>4, <3>5, <3>6
  <2>2. CASE ~(i <= Len(conns))
    <3>1. asked' \in [Threads -> SUBSET (1..T)]
      BY <1>4 DEF Ask
    <3> QED BY <1>4, <2>2, <3>1 DEF Ask
  <2> QED BY <2>1, <2>2
<1>5. ASSUME NEW t \in Threads, NEW c \in under[t], Answered(t, c) PROVE Shape'
  BY <1>5 DEF Answered, Returns
<1>6. ASSUME NEW t \in Threads, Combine(t) PROVE Shape'
  BY <1>6 DEF Combine
<1>7. ASSUME NEW t \in Threads, Clear(t) PROVE Shape'
  BY <1>7 DEF Clear, Clears
<1>8. ASSUME NEW t \in Threads, AskDetails(t) PROVE Shape'
  BY <1>8 DEF AskDetails, Begins, Setup
<1>9. ASSUME NEW t \in Threads, TakeDetails(t) PROVE Shape'
  BY <1>9 DEF TakeDetails, Returns, Clears
<1>10. ASSUME NEW t \in Threads, DetailsFail(t) PROVE Shape'
  BY <1>10 DEF DetailsFail, Returns
<1>11. ASSUME NEW t \in Threads, Walk(t) PROVE Shape'
  <2>1. loop' \in [Threads -> [at : Nat, pushed : Nat]]
    BY <1>11, Turns DEF Walk
  <2> QED BY <1>11, <2>1 DEF Walk
<1>12. ASSUME NEW t \in Threads, Connect(t) PROVE Shape'
  <2>1. CASE loop[t].at \in listening
    <3>1. [id |-> made + 1, by |-> "rank", node |-> loop[t].at] \in Client
      BY DEF Client, Setup
    <3>2. conns' \in Seq(Client)
      <4>1. conns' = Append(conns, [id |-> made + 1, by |-> "rank", node |-> loop[t].at])
        BY <1>12, <2>1 DEF Connect
      <4>2. conns \in Seq(Client)
        OBVIOUS
      <4> HIDE DEF Shape, Client
      <4> QED BY <3>1, <4>1, <4>2, AppendProperties
    <3>3. loop' \in [Threads -> [at : Nat, pushed : Nat]]
      <4>1. loop' = [loop EXCEPT ![t] = [at |-> loop[t].at + 1, pushed |-> loop[t].pushed + 1]]
        BY <1>12, <2>1 DEF Connect
      <4>2. [at |-> loop[t].at + 1, pushed |-> loop[t].pushed + 1] \in [at : Nat, pushed : Nat]
        OBVIOUS
      <4> QED BY <4>1, <4>2
    <3>4. /\ made' \in Nat /\ pc[t] = "connect" /\ pc' = [pc EXCEPT ![t] = "walk"]
          /\ UNCHANGED <<index, sent, under, asked, met, clash, dead, renewed>>
      BY <1>12, <2>1 DEF Connect
    <3> QED BY <3>2, <3>3, <3>4
  <2>2. CASE loop[t].at \notin listening
    <3>1. loop' \in [Threads -> [at : Nat, pushed : Nat]]
      BY <1>12, <2>2, Turns DEF Connect
    <3> QED BY <1>12, <2>2, <3>1 DEF Connect
  <2> QED BY <2>1, <2>2
<1>13. ASSUME NEW t \in Threads, NotEnough(t) PROVE Shape'
  BY <1>13 DEF NotEnough
<1>14. ASSUME NEW t \in Threads, Rank(t) PROVE Shape'
  BY <1>14 DEF Rank, TakesRank
<1>15. ASSUME NEW t \in Threads, FetchTriplets(t) PROVE Shape'
  BY <1>15 DEF FetchTriplets
<1>16. ASSUME NEW t \in Threads, Lock(t) PROVE Shape'
  BY <1>16 DEF Lock, Begins, Setup
<1>17. ASSUME NEW t \in Threads, TakeTriplets(t) PROVE Shape'
  BY <1>17 DEF TakeTriplets, Returns
<1>18. CASE UNCHANGED vars
  BY <1>18 DEF vars
<1> QED BY <1>1, <1>2, <1>3, <1>4, <1>5, <1>6, <1>7, <1>8, <1>9, <1>10, <1>11, <1>12,
           <1>13, <1>14, <1>15, <1>16, <1>17, <1>18 DEF Next, Finished

-----------------------------------------------------------------------------
LEMMA StepOrder == Shape /\ SetupOrder /\ [Next]_vars => SetupOrder'
<1> SUFFICES ASSUME Shape, SetupOrder, [Next]_vars PROVE SetupOrder'
  OBVIOUS
<1> USE DEF Shape, SetupOrder, InReinit, Goes, local, shared, history
<1>1. ASSUME NEW n \in Nodes, Listen(n) PROVE SetupOrder'
  BY <1>1 DEF Listen
<1>2. ASSUME NEW t \in Threads, Decrypt(t) PROVE SetupOrder'
  BY <1>2 DEF Decrypt
<1>3. ASSUME NEW t \in Threads, Build(t) PROVE SetupOrder'
  BY <1>3 DEF Build
<1>4. ASSUME NEW t \in Threads, NEW i \in 1..T, Ask(t, i) PROVE SetupOrder'
  <2>1. i <= Len(conns) => conns[i].id # Setup
    BY Clients, RequestsAssumption
  <2> QED BY <1>4, <2>1 DEF Ask, Begins
<1>5. ASSUME NEW t \in Threads, NEW c \in under[t], Answered(t, c) PROVE SetupOrder'
  BY <1>5 DEF Answered
<1>6. ASSUME NEW t \in Threads, Combine(t) PROVE SetupOrder'
  BY <1>6 DEF Combine
<1>7. ASSUME NEW t \in Threads, Clear(t) PROVE SetupOrder'
  BY <1>7 DEF Clear
<1>8. ASSUME NEW t \in Threads, AskDetails(t) PROVE SetupOrder'
  BY <1>8 DEF AskDetails
<1>9. ASSUME NEW t \in Threads, TakeDetails(t) PROVE SetupOrder'
  BY <1>9 DEF TakeDetails
<1>10. ASSUME NEW t \in Threads, DetailsFail(t) PROVE SetupOrder'
  BY <1>10 DEF DetailsFail
<1>11. ASSUME NEW t \in Threads, Walk(t) PROVE SetupOrder'
  BY <1>11 DEF Walk
<1>12. ASSUME NEW t \in Threads, Connect(t) PROVE SetupOrder'
  BY <1>12 DEF Connect
<1>13. ASSUME NEW t \in Threads, NotEnough(t) PROVE SetupOrder'
  BY <1>13 DEF NotEnough
<1>14. ASSUME NEW t \in Threads, Rank(t) PROVE SetupOrder'
  BY <1>14 DEF Rank
<1>15. ASSUME NEW t \in Threads, FetchTriplets(t) PROVE SetupOrder'
  BY <1>15 DEF FetchTriplets
<1>16. ASSUME NEW t \in Threads, Lock(t) PROVE SetupOrder'
  <2>1. ~renewed => \A u \in Threads : Setup \notin under[u]
    BY <1>16 DEF Lock, Unlocked
  <2> QED BY <1>16, <2>1 DEF Lock, Unlocked, Begins
<1>17. ASSUME NEW t \in Threads, TakeTriplets(t) PROVE SetupOrder'
  BY <1>17 DEF TakeTriplets
<1>18. CASE UNCHANGED vars
  BY <1>18 DEF vars
<1> QED BY <1>1, <1>2, <1>3, <1>4, <1>5, <1>6, <1>7, <1>8, <1>9, <1>10, <1>11, <1>12,
           <1>13, <1>14, <1>15, <1>16, <1>17, <1>18 DEF Next, Finished

-----------------------------------------------------------------------------
\* Nobody is asking while there are too few clients, and then nobody's call is
\* under way on one that is cleared.
LEMMA ClearsNobodys ==
  ASSUME Shape, Renewal, Clears, Len(conns) < T
  PROVE  ~dead'
<1>1. \A t \in Threads : pc[t] # "ask"
  BY DEF Renewal, Asking
<1>2. \A t \in Threads : under[t] \subseteq {Setup}
  BY <1>1 DEF Shape
<1>3. \A k \in DOMAIN conns : conns[k].id # Setup
  BY Clients
<1> QED BY <1>2, <1>3 DEF Clears, Renewal

LEMMA StepRenewal == Shape /\ Renewal /\ ~clash /\ [Next]_vars => clash' \/ Renewal'
<1> SUFFICES ASSUME Shape, Renewal, [Next]_vars, ~clash, ~clash' PROVE Renewal'
  OBVIOUS
<1> USE RequestsAssumption DEF Shape, Goes, local, shared, history, InReinit, Begun,
        Looping, Asking
<1>1. ASSUME NEW n \in Nodes, Listen(n) PROVE Renewal'
  BY <1>1 DEF Listen, Renewal
<1>2. ASSUME NEW t \in Threads, Decrypt(t) PROVE Renewal'
  <2>1. CASE TooFew
    <3>0. Len(conns) < T /\ Len(conns) # T
      BY <2>1, Clients DEF TooFew
    <3>1. \A u \in Threads : ~InReinit(u) /\ ~Asking(u)
      <4>1. \A u \in Threads \ {t} : ~InReinit(u)
        BY <1>2, <2>1 DEF Decrypt
      <4> QED BY <1>2, <3>0, <4>1 DEF Decrypt, Renewal
    <3> QED BY <1>2, <2>1, <3>1 DEF Decrypt, TooFew, Renewal
  <2>2. CASE ~TooFew
    <3>1. Len(conns) = T
      BY <2>2 DEF TooFew, Renewal
    <3> QED BY <1>2, <2>2, <3>1 DEF Decrypt, Renewal
  <2> QED BY <2>1, <2>2
<1>3. ASSUME NEW t \in Threads, Build(t) PROVE Renewal'
  BY <1>3 DEF Build, Renewal
<1>4. ASSUME NEW t \in Threads, NEW i \in 1..T, Ask(t, i) PROVE Renewal'
  <2>1. Len(conns) = T /\ ~dead'
    BY <1>4 DEF Ask, Renewal
  <2> QED BY <1>4, <2>1 DEF Ask, Begins, Renewal
<1>5. ASSUME NEW t \in Threads, NEW c \in under[t], Answered(t, c) PROVE Renewal'
  BY <1>5 DEF Answered, Renewal
<1>6. ASSUME NEW t \in Threads, Combine(t) PROVE Renewal'
  BY <1>6 DEF Combine, Renewal
<1>7. ASSUME NEW t \in Threads, Clear(t) PROVE Renewal'
  <2>1. Len(conns) < T /\ ~dead'
    BY <1>7, ClearsNobodys DEF Clear, Renewal
  <2>2. conns' = <<>>
    BY <1>7 DEF Clear, Clears
  <2> QED BY <1>7, <2>1, <2>2 DEF Clear, Renewal
<1>8. ASSUME NEW t \in Threads, AskDetails(t) PROVE Renewal'
  BY <1>8 DEF AskDetails, Renewal
<1>9. ASSUME NEW t \in Threads, TakeDetails(t) PROVE Renewal'
  <2>1. Len(conns) < T /\ ~dead'
    BY <1>9, ClearsNobodys DEF TakeDetails, Renewal
  <2>2. conns' = <<>> /\ loop'[t].pushed = 0
    BY <1>9 DEF TakeDetails, Clears
  <2> QED BY <1>9, <2>1, <2>2 DEF TakeDetails, Renewal
<1>10. ASSUME NEW t \in Threads, DetailsFail(t) PROVE Renewal'
  BY <1>10 DEF DetailsFail, Renewal
<1>11. ASSUME NEW t \in Threads, Walk(t) PROVE Renewal'
  <2>1. CASE Len(conns) < T
    <3>1. /\ pc' = [pc EXCEPT ![t] = "connect"] /\ pc[t] = "walk"
          /\ UNCHANGED <<conns, loop, dead, met, sent, index>>
      BY <1>11, <2>1 DEF Walk
    <3> QED BY <2>1, <3>1 DEF Renewal
  <2>2. CASE ~(Len(conns) < T)
    <3>1. /\ loop'[t].pushed = loop[t].pushed /\ loop'[t].at = loop[t].at + 1
          /\ \A u \in Threads \ {t} : loop'[u] = loop[u]
      BY <1>11, <2>2, Turns DEF Walk
    <3>2. pc' = pc /\ pc[t] = "walk" /\ UNCHANGED <<conns, dead, met, sent, index>>
      BY <1>11, <2>2 DEF Walk
    <3>3. /\ loop[t].pushed = Len(conns) /\ loop[t].at \in Nat
          /\ \A k \in DOMAIN conns : /\ conns[k].by = "rank" /\ conns[k].node < loop[t].at
                                    /\ conns[k].node \in Nat
      BY <3>2, Clients DEF Renewal
    <3>4. \A k \in DOMAIN conns : conns[k].node < loop'[t].at
      BY <3>1, <3>3
    <3> QED BY <3>1, <3>2, <3>3, <3>4 DEF Renewal
  <2> QED BY <2>1, <2>2
<1>12. ASSUME NEW t \in Threads, Connect(t) PROVE Renewal'
  <2>1. \A u \in Threads : ~Asking(u) /\ (InReinit(u) => u = t)
    BY <1>12 DEF Connect, Renewal
  <2>2. CASE loop[t].at \in listening
    <3> DEFINE c == [id |-> made + 1, by |-> "rank", node |-> loop[t].at]
    <3>1. /\ Len(conns') = Len(conns) + 1
          /\ \A k \in DOMAIN conns : conns'[k] = conns[k]
          /\ conns'[Len(conns) + 1] = c
          /\ DOMAIN conns' = 1..(Len(conns) + 1)
      <4>1. conns' = Append(conns, c)
        BY <1>12, <2>2 DEF Connect
      <4>2. conns \in Seq(Client)
        BY DEF Shape
      <4> HIDE DEF c
      <4> QED BY <4>1, <4>2
    <3>2. loop'[t].pushed = loop[t].pushed + 1 /\ loop'[t].at = loop[t].at + 1
      BY <1>12, <2>2 DEF Connect
    <3>3. \A k \in DOMAIN conns' :
            \/ k \in DOMAIN conns /\ conns'[k] = conns[k]
            \/ k = Len(conns) + 1 /\ conns'[k] = c
      BY <3>1, Clients
    <3>4. \A k \in DOMAIN conns : /\ conns[k].by = "rank"
                                  /\ conns[k].node < loop[t].at /\ conns[k].node \in Nat
      BY <1>12, Clients DEF Connect, Renewal
    <3>5. \A k \in DOMAIN conns' : conns'[k].by = "rank" /\ conns'[k].node < loop'[t].at
      BY <3>2, <3>3, <3>4
    <3>6. \A j, k \in DOMAIN conns' : conns'[j].node = conns'[k].node => j = k
      <4> SUFFICES ASSUME NEW j \in DOMAIN conns', NEW k \in DOMAIN conns',
                          conns'[j].node = conns'[k].node
                   PROVE  j = k
        OBVIOUS
      <4>1. CASE j \in DOMAIN conns /\ k \in DOMAIN conns
        BY <3>1, <4>1 DEF Renewal
      <4>2. CASE j = Len(conns) + 1 \/ k = Len(conns) + 1
        <5>1. \A i \in DOMAIN conns : conns'[i].node < loop[t].at /\ conns'[i].node \in Nat
          BY <3>1, <3>4
        <5>2. conns'[Len(conns) + 1].node = loop[t].at /\ loop[t].at \in Nat
          BY <3>1
        <5> QED BY <3>3, <4>2, <5>1, <5>2
      <4> QED BY <3>3, <4>1, <4>2
    <3>7. Len(conns') <= T /\ loop'[t].pushed = Len(conns')
      BY <1>12, <3>1, <3>2, Clients DEF Connect, Renewal
    <3>8. /\ pc'[t] = "walk" /\ \A u \in Threads \ {t} : pc'[u] = pc[u]
          /\ ~dead'
      BY <1>12 DEF Connect, Renewal
    <3>9. \A u \in Threads \ {t} :
            pc'[u] \notin {"build", "ask", "clear", "details", "waiting", "walk", "connect"}
      BY <2>1, <3>8
    <3> HIDE DEF Shape, c
    <3>10. \A u, v \in Threads : InReinit(u)' /\ InReinit(v)' => u = v
      BY <3>9
    <3>11. \A u \in Threads :
             Looping(u)' =>
               /\ loop'[u].pushed = Len(conns')
               /\ \A k \in DOMAIN conns' : conns'[k].by = "rank" /\ conns'[k].node < loop'[u].at
      BY <3>5, <3>7, <3>9
    <3>12. \A u \in Threads : ~Asking(u)' /\ ~(Begun(u)' \/ pc'[u] = "connect")
      BY <3>8, <3>9
    <3>13. ~(\A u \in Threads : ~InReinit(u)')
      BY <3>8
    <3> QED BY <3>6, <3>7, <3>8, <3>10, <3>11, <3>12, <3>13 DEF Renewal
  <2>3. CASE loop[t].at \notin listening
    <3>1. /\ loop'[t].pushed = loop[t].pushed /\ loop'[t].at = loop[t].at + 1
          /\ \A u \in Threads \ {t} : loop'[u] = loop[u]
      BY <1>12, <2>3, Turns DEF Connect
    <3>2. /\ pc[t] = "connect" /\ pc' = [pc EXCEPT ![t] = "walk"]
          /\ UNCHANGED <<conns, dead, met, sent, index>>
      BY <1>12, <2>3 DEF Connect
    <3>3. /\ loop[t].pushed = Len(conns) /\ loop[t].at \in Nat
          /\ \A k \in DOMAIN conns : /\ conns[k].by = "rank" /\ conns[k].node < loop[t].at
                                    /\ conns[k].node \in Nat
      BY <3>2, Clients DEF Renewal
    <3>4. \A k \in DOMAIN conns : conns[k].node < loop'[t].at
      BY <3>1, <3>3
    <3> QED BY <3>1, <3>2, <3>3, <3>4 DEF Renewal
  <2> QED BY <2>2, <2>3
<1>13. ASSUME NEW t \in Threads, NotEnough(t) PROVE Renewal'
  BY <1>13 DEF NotEnough, Renewal
<1>14. ASSUME NEW t \in Threads, Rank(t) PROVE Renewal'
  <2>1. Len(conns) = T /\ \A k \in DOMAIN conns : conns[k].by = "rank"
    BY <1>14 DEF Rank, Renewal
  <2>2. \A u \in Threads : InReinit(u) => u = t
    BY <1>14 DEF Rank, Renewal
  <2>3. \A u \in Threads : Asking(u) => met[u]
    BY <1>14 DEF Rank, Renewal
  <2> QED BY <1>14, <2>1, <2>2, <2>3 DEF Rank, TakesRank, Renewal
<1>15. ASSUME NEW t \in Threads, FetchTriplets(t) PROVE Renewal'
  BY <1>15 DEF FetchTriplets, Renewal
<1>16. ASSUME NEW t \in Threads, Lock(t) PROVE Renewal'
  BY <1>16 DEF Lock, Renewal
<1>17. ASSUME NEW t \in Threads, TakeTriplets(t) PROVE Renewal'
  BY <1>17 DEF TakeTriplets, Renewal
<1>18. CASE UNCHANGED vars
  BY <1>18 DEF vars, Renewal
<1> QED BY <1>1, <1>2, <1>3, <1>4, <1>5, <1>6, <1>7, <1>8, <1>9, <1>10, <1>11, <1>12,
           <1>13, <1>14, <1>15, <1>16, <1>17, <1>18 DEF Next, Finished

-----------------------------------------------------------------------------
IInv == Shape /\ SetupOrder /\ (clash \/ Renewal)

LEMMA ClashStays == Shape /\ clash /\ [Next]_vars => clash'
  BY DEF Shape, Next, vars, history, Listen, Decrypt, Build, Ask, Answered, Combine, Clear,
         AskDetails, TakeDetails, DetailsFail, Walk, Connect, NotEnough, Rank, FetchTriplets,
         Lock, TakeTriplets, Finished

LEMMA Invariant == Spec => []IInv
<1>1. Init => IInv
  BY InitShape, InitOrder, InitRenewal DEF IInv
<1>2. IInv /\ [Next]_vars => IInv'
  BY StepShape, StepOrder, StepRenewal, ClashStays DEF IInv, Shape
<1> QED BY <1>1, <1>2, PTL DEF Spec

\* Before two reinits meet no client is called after it was destroyed, every
\* request asks T different nodes, and a rank is computed from as many clients as
\* it is read from.
THEOREM WholeSetsAreAsked == Spec => []AsksWholeSet
<1>1. IInv => AsksWholeSet
  <2> SUFFICES ASSUME IInv, ~clash PROVE AsksWholeSet
    BY DEF AsksWholeSet
  <2>1. Renewal /\ DOMAIN conns = 1..Len(conns)
    BY DEF IInv, Shape
  <2> QED BY <2>1 DEF Renewal, AsksWholeSet, Asking, Looping
<1> QED BY <1>1, Invariant, PTL

\* And it sends the index of the clients it asks, unless it looked at them while
\* they were renewed.
THEOREM IndexIsOfClients == Spec => []IndexOfClients
<1>1. IInv => IndexOfClients
  <2> SUFFICES ASSUME IInv, ~clash PROVE IndexOfClients
    BY DEF IndexOfClients
  <2>1. Renewal /\ DOMAIN conns = 1..Len(conns)
    BY DEF IInv, Shape
  <2> QED BY <2>1 DEF Renewal, IndexOfClients, Asking
<1> QED BY <1>1, Invariant, PTL

\* Without a reinit the mutex orders all calls to the setup node; with one, a
\* refill may overlap with it, but two refills never do, nor two reinits before
\* they have met.
THEOREM SetupCallsAreOrdered == Spec => []SetupCallsOrdered
<1>1. IInv => SetupCallsOrdered
  <2> SUFFICES ASSUME IInv, NEW t \in Threads, NEW u \in Threads, t # u,
                      Setup \in under[t], Setup \in under[u]
               PROVE  \/ {pc[t], pc[u]} = {"fetch", "waiting"}
                      \/ clash /\ pc[t] = "waiting" /\ pc[u] = "waiting"
    BY DEF SetupCallsOrdered, IInv, SetupOrder
  <2>1. pc[t] \in {"waiting", "fetch"} /\ pc[u] \in {"waiting", "fetch"}
    BY DEF IInv, Shape
  <2>2. ~ (pc[t] = "fetch" /\ pc[u] = "fetch")
    BY DEF IInv, SetupOrder
  <2>3. pc[t] = "waiting" /\ pc[u] = "waiting" => clash
    BY DEF IInv, Renewal, InReinit
  <2> QED BY <2>1, <2>2, <2>3
<1> QED BY <1>1, Invariant, PTL

-----------------------------------------------------------------------------
(* What the history spoilt stands for: the calls that overlap on one       *)
(* client, for any number of them (SharedClient).                          *)

Sent == Calls \cup {Torn}

\* What is sent is somebody's or torn; an operation that is pending was started
\* by its call; a call whose operation has ended on an open connection was
\* answered, one that returned before its operation ended was hurried, and one
\* that stays in a stopped run() has none.
Operations ==
  /\ op \in [Calls -> {"none", "write", "sent", "read"}]
  /\ at \in [Calls -> {"idle", "restart", "clear", "fill", "write", "enter", "in", "done"}]
  /\ res \in [Calls -> Sent \cup {None}] /\ text \in [Calls -> Sent \cup {None}]
  /\ out \in Sent \cup {None}
  /\ asks \in Seq(Sent) /\ answers \in Seq(Sent)
  /\ late \subseteq hurried
  /\ \A k \in Calls :
       /\ at[k] \in {"write", "enter", "in", "done"} => out # None
       /\ at[k] \in {"idle", "restart", "clear", "fill", "write"} => op[k] = "none"
       /\ op[k] # "none" => text[k] # None
       /\ at[k] = "in" /\ stopped => op[k] = "none"
       /\ at[k] \in {"enter", "in", "done"} /\ op[k] = "none" /\ open => res[k] # None
       /\ at[k] = "done" /\ op[k] # "none" => k \in hurried

LEMMA NoMessage == None \notin Sent
  BY CallsAssumption DEF Sent

LEMMA InitOperations == ClientInit => Operations
  BY DEF ClientInit, Operations, Sent

LEMMA EndsOperations ==
  ASSUME Operations, NEW k \in Calls, op[k] # "none", Ends(k)
  PROVE  /\ op' \in [Calls -> {"none", "write", "sent", "read"}]
         /\ op'[k] = "none"
         /\ \A j \in Calls \ {k} : op'[j] = op[j]
         /\ stopped' => \A j \in Calls : op'[j] = "none"
  BY DEF Operations, Ends, Pending

LEMMA StepOperations ==
  Operations /\ [ClientNext]_clientvars => Operations'
<1> SUFFICES ASSUME Operations, [ClientNext]_clientvars PROVE Operations'
  OBVIOUS
<1> USE NoMessage
<1>1. ASSUME NEW k \in Calls, Begin(k) PROVE Operations'
  BY <1>1 DEF Begin, GoesTo, AfterCheck, Operations,
              server
<1>2. ASSUME NEW k \in Calls, Restart(k) PROVE Operations'
  BY <1>2 DEF Restart, GoesTo, Operations, server,
              marks
<1>3. ASSUME NEW k \in Calls, ClearBuffer(k) PROVE Operations'
  <2>1. answers' \in Seq(Sent)
    <3>1. CASE UNCHANGED answers
      BY <3>1 DEF Operations
    <3>2. CASE answers # <<>> /\ answers' = Tail(answers)
      BY <3>2 DEF Operations
    <3> QED BY <1>3, <3>1, <3>2 DEF ClearBuffer
  <2> QED BY <1>3, <2>1 DEF ClearBuffer, GoesTo, Operations
<1>4. ASSUME NEW k \in Calls, Fill(k) PROVE Operations'
  <2>1. out' \in Sent
    BY <1>4 DEF Fill, Assigned, Sent
  <2>2. /\ text' \in [Calls -> Sent \cup {None}]
        /\ \A j \in Calls : text[j] # None => text'[j] # None
    BY <1>4, CallsAssumption DEF Fill, Operations, Sent
  <2> QED BY <1>4, <2>1, <2>2 DEF Fill, GoesTo, Operations,
                                  server
<1>5. ASSUME NEW k \in Calls, StartWrite(k) PROVE Operations'
  BY <1>5 DEF StartWrite, GoesTo, Operations, server,
              marks
<1>6. ASSUME NEW k \in Calls, EnterRun(k) PROVE Operations'
  BY <1>6 DEF EnterRun, Pending, GoesTo, Operations,
              server
<1>7. ASSUME NEW k \in Calls, LeaveRun(k) PROVE Operations'
  BY <1>7 DEF LeaveRun, RunReturns, GoesTo, Operations,
              server, marks
<1>8. ASSUME NEW k \in Calls, Send(k) PROVE Operations'
  <2>1. asks' \in Seq(Sent)
    BY <1>8 DEF Send, Operations
  <2> QED BY <1>8, <2>1 DEF Send, Operations, marks
<1>9. ASSUME NEW k \in Calls, Written(k) PROVE Operations'
  BY <1>9 DEF Written, Operations, server, marks
<1>10. ASSUME NEW k \in Calls, Deliver(k) PROVE Operations'
  <2>1. Head(answers) \in Sent /\ answers' \in Seq(Sent)
    BY <1>10 DEF Deliver, Operations
  <2>2. op[k] # "none" /\ Ends(k)
    BY <1>10 DEF Deliver
  <2> QED BY <1>10, <2>1, <2>2, EndsOperations DEF Deliver, Operations
<1>11. ASSUME NEW k \in Calls, Mixed(k) PROVE Operations'
  <2>1. answers' \in Seq(Sent)
    BY <1>11 DEF Mixed, Operations
  <2>2. CASE UNCHANGED <<op, stopped, open>>
    BY <1>11, <2>1, <2>2 DEF Mixed, Operations
  <2>3. CASE Ends(k) /\ open' = FALSE
    BY <1>11, <2>1, <2>3, EndsOperations DEF Mixed, Operations
  <2> QED BY <1>11, <2>2, <2>3 DEF Mixed
<1>12. ASSUME NEW k \in Calls, Fails(k) PROVE Operations'
  <2>1. op[k] # "none" /\ Ends(k) /\ open' = FALSE
    BY <1>12 DEF Fails
  <2> QED BY <1>12, <2>1, EndsOperations DEF Fails, Operations,
                                             server, marks
<1>13. CASE Serve
  <2>1. asks' \in Seq(Sent) /\ answers' \in Seq(Sent)
    <3>1. Head(asks) \in Sent /\ Tail(asks) \in Seq(Sent)
      BY <1>13 DEF Serve, Operations
    <3>2. Append(answers, Head(asks)) \in Seq(Sent)
      BY <3>1 DEF Operations
    <3> QED BY <1>13, <3>1, <3>2 DEF Serve, Operations
  <2> QED BY <1>13, <2>1 DEF Serve, client, marks,
                             Operations
<1>14. CASE UNCHANGED clientvars
  BY <1>14 DEF clientvars, client, server, marks,
               Operations
<1> QED BY <1>1, <1>2, <1>3, <1>4, <1>5, <1>6, <1>7, <1>8, <1>9, <1>10, <1>11,
           <1>12, <1>13, <1>14 DEF ClientNext, CallStep,
                                   Callback, Stops

\* Calls that return without an answer on an open connection, or are answered
\* after they returned, are those that entered io_context_m.run() when another
\* call had stopped it.
THEOREM UnansweredWereHurried == ClientSpec => []UnansweredHurried
<1>1. Operations => UnansweredHurried
  BY DEF Operations, UnansweredHurried
<1> QED BY <1>1, InitOperations, StepOperations, PTL DEF ClientSpec

-----------------------------------------------------------------------------
\* The way of a message of call k that nothing disturbs.
UnderWay(k) ==
  \/ asks = <<k>> /\ answers = <<>>
  \/ asks = <<>> /\ answers = <<k>>

NothingUnderWay == asks = <<>> /\ answers = <<>>

\* How far call k, undisturbed, has come.
Phase(k) ==
  \/ /\ at[k] \in {"restart", "clear", "fill", "write"}
     /\ NothingUnderWay
     /\ op[k] = "none"
     /\ at[k] # "restart" => ~stopped
     /\ at[k] = "write" => out = k
  \/ /\ at[k] \in {"enter", "in"}
     /\ ~stopped
     /\ \/ op[k] = "write" /\ text[k] = k /\ NothingUnderWay
        \/ op[k] \in {"sent", "read"} /\ UnderWay(k)
  \/ /\ at[k] = "in" /\ stopped
     /\ op[k] = "none" /\ NothingUnderWay /\ res[k] = k

Alone(k) ==
  /\ open /\ session = "serves"
  /\ \A j \in Calls \ {k} : at[j] \in {"idle", "done"} /\ op[j] = "none"
  /\ Phase(k)

Undisturbed ==
  /\ apart \subseteq Calls
  /\ \A k \in apart :
       \/ at[k] = "done" /\ op[k] = "none" /\ res[k] = k
       \/ Alone(k)

Together == Operations /\ Undisturbed

LEMMA InitUndisturbed == ClientInit => Undisturbed
  BY DEF ClientInit, Undisturbed

\* A call that is done stays done, with the answer it has.
LEMMA DoneStays ==
  ASSUME Operations, ClientNext, NEW k \in Calls, at[k] = "done", op[k] = "none"
  PROVE  at'[k] = "done" /\ op'[k] = "none" /\ res'[k] = res[k]
<1> USE DEF Operations
<1>1. ASSUME NEW j \in Calls, CallStep(j)
      PROVE  at'[k] = "done" /\ op'[k] = "none" /\ res'[k] = res[k]
  BY <1>1 DEF CallStep, GoesTo, Begin, Restart,
              ClearBuffer, Fill, StartWrite, EnterRun,
              LeaveRun
<1>2. ASSUME NEW j \in Calls, Callback(j)
      PROVE  at'[k] = "done" /\ op'[k] = "none" /\ res'[k] = res[k]
  BY <1>2 DEF Callback, Send, Written, Deliver,
              Mixed, Fails, Ends
<1>3. CASE Serve
  BY <1>3 DEF Serve, client
<1>4. CASE Stops
  BY <1>4 DEF Stops, clientvars, client
<1> QED BY <1>1, <1>2, <1>3, <1>4 DEF ClientNext

\* While a call is undisturbed only its own steps and the session's happen, and
\* the beginning of another, which disturbs it.
LEMMA AloneSteps ==
  ASSUME Operations, ClientNext, NEW k \in Calls, Alone(k)
  PROVE  \/ CallStep(k) \/ Callback(k) \/ Serve \/ Stops
         \/ \E j \in Calls \ {k} : Begin(j)
<1>1. ASSUME NEW j \in Calls \ {k}, CallStep(j)
      PROVE  Begin(j)
  BY <1>1 DEF Alone, CallStep, Restart, ClearBuffer,
              Fill, StartWrite, EnterRun, LeaveRun
<1>2. ASSUME NEW j \in Calls \ {k}, Callback(j)
      PROVE  FALSE
  BY <1>2 DEF Alone, Callback, Send, Written,
              Deliver, Mixed, Fails
<1> QED BY <1>1, <1>2 DEF ClientNext

LEMMA AloneCallStep ==
  ASSUME Operations, NEW k \in Calls, Alone(k), CallStep(k)
  PROVE  \/ Alone(k)'
         \/ at'[k] = "done" /\ op'[k] = "none" /\ res'[k] = k /\ Quiet'
<1> USE DEF Operations, Alone, Phase, NothingUnderWay
<1>1. CASE Begin(k)
  BY <1>1 DEF Begin
<1>2. CASE Restart(k)
  BY <1>2 DEF Restart, GoesTo, server, marks
<1>3. CASE ClearBuffer(k)
  BY <1>3 DEF ClearBuffer, GoesTo
<1>4. CASE Fill(k)
  <2>1. out' = k
    BY <1>4 DEF Fill, Assigned
  <2> QED BY <1>4, <2>1 DEF Fill, GoesTo, server
<1>5. CASE StartWrite(k)
  BY <1>5 DEF StartWrite, GoesTo, server, marks
<1>6. CASE EnterRun(k)
  <2>1. ~stopped /\ k \in Pending
    BY <1>6 DEF EnterRun, Pending
  <2> QED BY <1>6, <2>1 DEF EnterRun, GoesTo, server, UnderWay
<1>7. CASE LeaveRun(k)
  <2>1. stopped /\ op[k] = "none"
    BY <1>7 DEF LeaveRun, RunReturns
  <2> QED BY <1>7, <2>1 DEF LeaveRun, GoesTo, server,
                            Quiet, Pending
<1> QED BY <1>1, <1>2, <1>3, <1>4, <1>5, <1>6, <1>7 DEF CallStep

LEMMA AloneCallback ==
  ASSUME Operations, NEW k \in Calls, Alone(k), Callback(k)
  PROVE  Alone(k)'
<1> USE DEF Operations, Alone, Phase, NothingUnderWay
<1>1. CASE Send(k)
  <2>1. text[k] = k /\ asks' = Append(<<>>, k) /\ answers' = <<>>
    BY <1>1 DEF Send
  <2>2. UnderWay(k)'
    BY <2>1 DEF UnderWay
  <2> QED BY <1>1, <2>2 DEF Send
<1>2. CASE Written(k)
  BY <1>2 DEF Written, server, UnderWay
<1>3. CASE Deliver(k)
  <2>1. asks = <<>> /\ answers = <<k>>
    BY <1>3 DEF Deliver, UnderWay
  <2>2. res'[k] = k /\ answers' = <<>> /\ asks' = <<>>
    BY <1>3, <2>1 DEF Deliver
  <2>3. Pending = {k}
    BY <1>3 DEF Deliver, Pending
  <2>4. at[k] = "in"
    BY <1>3 DEF Deliver, Run
  <2> QED BY <1>3, <2>2, <2>3, <2>4 DEF Deliver, Ends
<1>4. CASE Mixed(k)
  BY <1>4 DEF Mixed, Reading
<1>5. CASE Fails(k)
  BY <1>5 DEF Fails
<1> QED BY <1>1, <1>2, <1>3, <1>4, <1>5 DEF Callback

LEMMA AloneServe ==
  ASSUME Operations, NEW k \in Calls, Alone(k), Serve
  PROVE  Alone(k)'
<1>1. asks = <<k>> /\ answers = <<>> /\ UnderWay(k)
  BY DEF Serve, Alone, Phase, NothingUnderWay, UnderWay
<1>2. asks' = <<>> /\ answers' = <<k>> /\ session' = "serves"
  <2>1. Head(asks) # Torn
    BY <1>1, CallsAssumption
  <2> QED BY <1>1, <2>1 DEF Serve, Alone
<1>3. UnderWay(k)'
  BY <1>2 DEF UnderWay
<1>4. at[k] \in {"enter", "in"} /\ op[k] \in {"sent", "read"} /\ ~stopped
  BY <1>1 DEF Alone, Phase, NothingUnderWay
<1> QED BY <1>2, <1>3, <1>4 DEF Serve, client, Alone, Phase

LEMMA StepUndisturbed ==
  Together /\ [ClientNext]_clientvars => Undisturbed'
<1> SUFFICES ASSUME Operations, Undisturbed, ClientNext PROVE Undisturbed'
  BY DEF Together, Undisturbed, clientvars, client, server,
         marks, Alone, Phase, UnderWay,
         NothingUnderWay
<1>1. ASSUME NEW k \in apart, k \in apart'
      PROVE  \/ at'[k] = "done" /\ op'[k] = "none" /\ res'[k] = k
             \/ Alone(k)'
  <2>0. k \in Calls
    BY DEF Undisturbed
  <2>1. CASE at[k] = "done" /\ op[k] = "none" /\ res[k] = k
    BY <2>0, <2>1, DoneStays
  <2>2. CASE Alone(k)
    <3>1. ASSUME NEW j \in Calls \ {k}, Begin(j) PROVE FALSE
      <4>1. Active(k)
        BY <2>2 DEF Active, Alone, Phase
      <4> QED BY <1>1, <2>0, <3>1, <4>1 DEF Begin
    <3>2. CASE Stops
      BY <2>2, <3>2 DEF Stops, clientvars, client,
                        server, marks, Alone, Phase, UnderWay,
                        NothingUnderWay
    <3> QED BY <2>0, <2>2, <3>1, <3>2, AloneSteps, AloneCallStep, AloneCallback, AloneServe
  <2> QED BY <2>1, <2>2 DEF Undisturbed
<1>2. ASSUME NEW k \in apart', k \notin apart
      PROVE  k \in Calls /\ Alone(k)'
  <2>1. k \in Calls /\ Begin(k) /\ Quiet /\ {j \in Calls : Active(j)} = {}
    <3>1. PICK j \in Calls : Begin(j)
      BY <1>2 DEF ClientNext, CallStep, Callback,
                  Serve, Stops, clientvars, marks,
                  Restart, ClearBuffer,
                  Fill, StartWrite, EnterRun,
                  LeaveRun, Send, Written, Deliver,
                  Mixed, Fails
    <3> QED BY <1>2, <3>1 DEF Begin
  <2>2. /\ open' /\ session' = "serves"
        /\ \A j \in Calls \ {k} : at'[j] \in {"idle", "done"} /\ op'[j] = "none"
    BY <2>1 DEF Begin, GoesTo, Quiet, Pending,
                Active, server, Operations
  <2>3. Phase(k)'
    BY <2>1 DEF Begin, GoesTo, AfterCheck, Quiet,
                Pending, server, Operations, Phase,
                NothingUnderWay
  <2> QED BY <2>1, <2>2, <2>3 DEF Alone
<1> QED BY <1>1, <1>2 DEF Undisturbed

LEMMA TogetherHolds ==
  ClientSpec => []Together
<1>1. ClientInit => Together
  BY InitOperations, InitUndisturbed DEF Together
<1>2. Together /\ [ClientNext]_clientvars => Together'
  BY StepOperations, StepUndisturbed DEF Together
<1> QED BY <1>1, <1>2, PTL DEF ClientSpec

\* A call that nothing overlaps on a client with nothing left over returns with
\* its own answer and leaves nothing over.
THEOREM ApartCallsAreRight == ClientSpec => ApartIsRight
<1>1. Together /\ [ClientNext]_clientvars =>
        [\A k \in apart : at[k] # "done" /\ at'[k] = "done" =>
                            res'[k] = k /\ Quiet']_clientvars
  <2> SUFFICES ASSUME Together, ClientNext, NEW k \in apart, at[k] # "done", at'[k] = "done"
               PROVE  res'[k] = k /\ Quiet'
    OBVIOUS
  <2>1. Operations /\ k \in Calls /\ Alone(k)
    BY DEF Together, Undisturbed
  <2>2. ~Alone(k)'
    BY DEF Alone, Phase
  <2>3. ASSUME NEW j \in Calls \ {k}, Begin(j) PROVE FALSE
    BY <2>1, <2>3 DEF Begin, GoesTo, Operations
  <2>4. ~Stops
    BY DEF Stops, clientvars, client
  <2> QED BY <2>1, <2>2, <2>3, <2>4, AloneSteps, AloneCallStep, AloneCallback, AloneServe
<1> QED BY <1>1, TogetherHolds, PTL DEF ClientSpec, ApartIsRight
=============================================================================

---------------------- MODULE ThresholdNetworkProofs ----------------------
(***************************************************************************)
(* Theorems about ThresholdNetwork, for every number of parties, threshold *)
(* and set of addresses:                                                   *)
(*   - TypeOK, ListsGivenOnce, RosterNamesLists and ViewIsPrefix hold in   *)
(*     whatever order the nodes are started and die;                       *)
(*   - so does FirstClientsDecrypt;                                        *)
(*   - so does DecryptSound, which is about the states reached while the   *)
(*     start-up script's order was kept.                                   *)
(* That the first shares of the first T parties give the secret back is    *)
(* taken from the proofs about the dealing, KeyDealingProofs.              *)
(***************************************************************************)
EXTENDS ThresholdNetwork, TLAPS, SequenceTheorems

-----------------------------------------------------------------------------
(* The dealing of this network's key.                                      *)

\* What is taken from it is about constants, so that the state it is given
\* here, and its bounds, do not matter.
Dealer == INSTANCE KeyDealingProofs WITH
  MaxParties <- 1, MaxCombine <- 0,
  n <- N, t <- T, i <- 1, combo <- <<>>, held <- <<>>, dealt <- <<>>, picked <- <<>>

\* Both modules are built on ThresholdScheme: its operators are the same.
LEMMA SameScheme ==
  /\ \A p, a, b : Dealer!SharesOf(p, a, b) = SharesOf(p, a, b)
  /\ \A a, b : Dealer!DistributionMatrix(a, b) = DistributionMatrix(a, b)
  /\ \A M, ss : Dealer!IsSecret(M, ss) <=> IsSecret(M, ss)
<1> USE DEF nCr, Dealer!nCr, Columns, Dealer!Columns
<1>1. \A p, a, b : Dealer!SharesOf(p, a, b) = SharesOf(p, a, b)
  BY DEF SharesOf, Dealer!SharesOf, Combinations, Dealer!Combinations,
         FirstCombination, Dealer!FirstCombination,
         NextCombination, Dealer!NextCombination, Max, Dealer!Max
<1>2. \A a, b : Dealer!DistributionMatrix(a, b) = DistributionMatrix(a, b)
  BY DEF DistributionMatrix, Dealer!DistributionMatrix,
         MAnd, Dealer!MAnd, MOr, Dealer!MOr
<1>3. \A M, ss : Dealer!IsSecret(M, ss) <=> IsSecret(M, ss)
  BY DEF IsSecret, Dealer!IsSecret, Combined, Dealer!Combined,
         Lambda, Dealer!Lambda, RowOf, Dealer!RowOf
<1> QED BY <1>1, <1>2, <1>3

\* Every party has a share, and the first shares of the first T parties, those
\* of the first combination, decrypt together.
LEMMA FirstShares ==
  /\ \A p \in Parties : Len(Shares[p]) \in Nat \ {0}
  /\ IsSecret(Matrix, [k \in 1..T |-> Shares[k - 1][1]])
<1>1. N \in Nat /\ T \in 1..N
  BY NetworkAssumption
<1>2. /\ \A p \in 0..(N - 1) : Len(Dealer!SharesOf(p, N, T)) \in Nat \ {0}
      /\ Dealer!IsSecret(Dealer!DistributionMatrix(N, T), Dealer!FirstOfEach(N, T))
  <2>1. \A a \in Nat : \A b \in 1..a : \A p \in 0..(a - 1) :
          Len(Dealer!SharesOf(p, a, b)) \in Nat \ {0}
    <3> TAKE a \in Nat
    <3> TAKE b \in 1..a
    <3> TAKE p \in 0..(a - 1)
    <3> QED BY Dealer!FirstSharesCombine
  <2>2. Dealer!IsSecret(Dealer!DistributionMatrix(N, T), Dealer!FirstOfEach(N, T))
    BY <1>1, Dealer!FirstSharesCombine
  <2> QED BY <1>1, <2>1, <2>2
<1>3. /\ \A p \in 0..(N - 1) : Len(SharesOf(p, N, T)) \in Nat \ {0}
      /\ IsSecret(DistributionMatrix(N, T), [k \in 1..T |-> SharesOf(k - 1, N, T)[1]])
  BY <1>2, SameScheme DEF Dealer!FirstOfEach
<1>4. \A p \in Parties : Shares[p] = SharesOf(p, N, T)
  BY DEF Shares
<1>5. [k \in 1..T |-> Shares[k - 1][1]] = [k \in 1..T |-> SharesOf(k - 1, N, T)[1]]
  <2>1. \A k \in 1..T : k - 1 \in Parties
    BY <1>1 DEF Parties
  <2> QED BY <1>4, <2>1
<1> QED BY <1>3, <1>4, <1>5 DEF Matrix, Parties

-----------------------------------------------------------------------------
(* The inductive invariant.                                                *)

Alive == {"joined", "listening"}

\* The counter counts the grants, and a node that runs is the last one that
\* was granted a list at its address.
HoldersKnown ==
  /\ Len(granted) = current
  /\ \A a \in Addrs :
       proc[a] \in Alive =>
         /\ slot[a] + 1 \in 1..Len(granted)
         /\ granted[slot[a] + 1].addr = a
         /\ \A j \in 1..Len(granted) : j > slot[a] + 1 => granted[j].addr # a

\* A request goes to at least T clients.
ClientsEnough == compute = "asking" => Len(conns) >= T

Inv == TypeOK /\ ClientsEnough /\ HoldersKnown /\ RosterNamesLists /\ ViewIsPrefix

\* Named so that a step can carry it unexpanded.
InOrder == calm

\* The order of the start-up script, before the compute node is started: no
\* address is given two lists, and no node dies.
CalmGrants ==
  /\ \A j, k \in 1..Len(granted) :
       granted[j].addr = granted[k].addr => j = k
  /\ \A k \in 1..Len(granted) : slot[granted[k].addr] = k - 1
  /\ current < N => \A k \in 1..Len(granted) : proc[granted[k].addr] \in Alive
  /\ compute # "down" => current = N
  /\ compute \in {"joined", "init"} =>
       \A k \in 1..Len(granted) : Listening(granted[k].addr)

\* The clients are connected to the first holders, in their order.
CalmClients ==
  /\ compute = "init" =>
       /\ \A k \in 1..Len(granted) : granted[k].at <= Len(view)
       /\ \A k \in 1..Len(conns) : k <= Len(granted) /\ granted[k].at < walk
       /\ \A k \in 1..Len(granted) :
            granted[k].at < walk /\ k <= T => k <= Len(conns)
  /\ compute \in {"up", "asking"} => Len(conns) = T
  /\ compute \in {"init", "up", "asking"} =>
       \A k \in 1..Len(conns) : conns[k].addr = granted[k].addr
  /\ compute # "reinit"
  /\ share = 0

\* They answer with the first share of their lists, or not at all.
CalmReplies ==
  /\ \A k \in 1..Len(replies) :
       replies[k] \in {Nothing, [list |-> k - 1, at |-> 0]}
  /\ result \in {"none", "plaintext"}

CalmInv == CalmGrants /\ CalmClients /\ CalmReplies

IInv == Inv /\ (InOrder => CalmInv)

-----------------------------------------------------------------------------
(* The initial states.                                                     *)

LEMMA InitOK == Init => IInv
<1> SUFFICES ASSUME Init PROVE IInv
  OBVIOUS
<1> USE NetworkAssumption DEF Init
<1>1. TypeOK
  BY DEF TypeOK, Parties, Entries, Answers, SetupEntry, Entry
<1>2. ClientsEnough /\ HoldersKnown /\ RosterNamesLists
  BY DEF ClientsEnough, HoldersKnown, RosterNamesLists, Alive, SetupEntry, Entry, IsCofhe
<1>3. ViewIsPrefix
  BY DEF ViewIsPrefix
<1>4. CalmInv
  BY DEF CalmInv, CalmGrants, CalmClients, CalmReplies, Alive
<1>5. QED
  BY <1>1, <1>2, <1>3, <1>4 DEF IInv, Inv

-----------------------------------------------------------------------------
(* Type correctness of every step.                                         *)

LEMMA TypeStep == TypeOK /\ ClientsEnough /\ [Next]_vars => TypeOK'
<1> SUFFICES ASSUME TypeOK, ClientsEnough, [Next]_vars PROVE TypeOK'
  OBVIOUS
<1> USE NetworkAssumption DEF TypeOK
<1>1. ASSUME NEW a \in Addrs, Join(a) PROVE TypeOK'
  <2>1. Entry(a, "CoFHE_NODE") \in Entries
    BY DEF Entry, Entries
  <2>2. Grant(a) \in [addr : Addrs, list : Parties, at : Nat]
    BY <1>1 DEF Join, Admits, Grant, Parties
  <2>3. current \in Parties
    BY <1>1 DEF Join, Admits, Parties
  <2>4. QED
    BY <1>1, <2>1, <2>2, <2>3 DEF Join, Admits, client, Answers, Parties
<1>2. ASSUME NEW a \in Addrs, JoinRefused(a) \/ Listen(a) PROVE TypeOK'
  BY <1>2 DEF JoinRefused, Listen, setup, client, Answers
<1>3. ASSUME NEW a \in Addrs, CrashNode(a) PROVE TypeOK'
  <2>1. ASSUME NEW k \in 1..Len(conns)
        PROVE  [addr |-> conns[k].addr, open |-> conns[k].open /\ conns[k].addr # a]
                 \in [addr : Addrs, open : BOOLEAN]
    <3>1. conns[k] \in [addr : Addrs, open : BOOLEAN]
      BY ElementOfSeq
    <3>2. QED
      BY <3>1
  <2>3. conns' \in Seq([addr : Addrs, open : BOOLEAN])
    BY <1>3, <2>1, IsASeq DEF CrashNode
  <2>4. crashes' \in 0..MaxCrashes
    BY <1>3 DEF CrashNode
  <2>5. QED
    BY <1>3, <2>3, <2>4 DEF CrashNode, setup, Answers
<1>4. CASE ComputeJoins
  <2>1. ComputeEntry \in Entries
    BY DEF ComputeEntry, Entry, Entries
  <2>2. QED
    BY <1>4, <2>1 DEF ComputeJoins, cofhe, client, Answers
<1>5. CASE GetDetails
  BY <1>5 DEF GetDetails, setup, cofhe, Answers
<1>6. CASE Walk
  <2>1. view[walk] \in Entries
    BY <1>6, ElementOfSeq DEF Walk
  <2>2. conns' \in Seq([addr : Addrs, open : BOOLEAN])
    <3>1. CASE Listening(view[walk].addr)
      <4>1. [addr |-> view[walk].addr, open |-> TRUE]
              \in [addr : Addrs, open : BOOLEAN]
        BY <3>1 DEF Listening
      <4>2. PICK c : c = [addr |-> view[walk].addr, open |-> TRUE]
        OBVIOUS
      <4>3. Append(conns, c) \in Seq([addr : Addrs, open : BOOLEAN])
        BY <4>1, <4>2
      <4>4. conns' = conns \/ conns' = Append(conns, c)
        BY <1>6, <4>2 DEF Walk, Connects
      <4>5. QED
        BY <4>3, <4>4
    <3>2. CASE ~Listening(view[walk].addr)
      BY <1>6, <3>2 DEF Walk, Connects
    <3>3. QED
      BY <3>1, <3>2
  <2>3. QED
    BY <1>6, <2>2 DEF Walk, setup, cofhe, Answers
<1>7. CASE Started \/ Decrypt
  <2>1. CASE Started
    BY <2>1 DEF Started, setup, cofhe, client, Answers
  <2>2. CASE Decrypt
    BY <2>2 DEF Decrypt, setup, cofhe, Answers
  <2>3. QED
    BY <1>7, <2>1, <2>2
<1>8. CASE Reinit
  BY <1>8 DEF Reinit, setup, cofhe, Answers
<1>9. CASE NotEnough
  BY <1>9 DEF NotEnough, setup, cofhe, Answers
<1>10. CASE Reinited
  BY <1>10 DEF Reinited, setup, cofhe, Answers, RankOfClients
<1>11. CASE Ask
  <2> DEFINE c == conns[Len(replies) + 1]
             r == IF c.open THEN PartialDecryption(c.addr) ELSE Nothing
  <2>1. PICK c1, r1 : /\ c1 = c
                      /\ r1 = r
                      /\ replies' = Append(replies, r1)
                      /\ Len(replies) < T
    BY <1>11 DEF Ask
  <2>2. c \in [addr : Addrs, open : BOOLEAN]
    <3>1. Len(replies) + 1 \in 1..Len(conns)
      BY <1>11, <2>1 DEF Ask, ClientsEnough
    <3>2. QED
      BY <3>1, ElementOfSeq
  <2>3. PartialDecryption(c.addr) \in Answers
    BY <2>2 DEF PartialDecryption, Answers
  <2>4. r1 \in Answers
    BY <2>1, <2>3 DEF Answers
  <2>5. QED
    BY <1>11, <2>1, <2>4 DEF Ask, setup, cofhe, Answers
<1>12. CASE Combine
  BY <1>12 DEF Combine, setup, cofhe, Answers
<1>13. CASE RefusalThrows
  BY <1>13 DEF RefusalThrows, setup, cofhe, Answers
<1>14. CASE ComputeDies
  BY <1>14 DEF ComputeDies, Gone, setup, cofhe, Answers
<1>15. CASE ComputeKilled
  BY <1>15 DEF ComputeKilled, Gone, setup, cofhe, Answers
<1>16. CASE UNCHANGED vars \/ Stopped
  BY <1>16 DEF Stopped, vars, setup, cofhe, client, Answers
<1>17. QED
  BY <1>1, <1>2, <1>3, <1>4, <1>5, <1>6, <1>7, <1>8, <1>9, <1>10, <1>11,
     <1>12, <1>13, <1>14, <1>15, <1>16 DEF Next

-----------------------------------------------------------------------------
(* Grants, and the roster.                                                 *)

\* Only these actions touch the setup node or the CoFHE nodes.
LEMMA Bystanders ==
  ASSUME [Next]_vars
  PROVE  \/ \E a \in Addrs : Join(a) \/ JoinRefused(a) \/ Listen(a) \/ CrashNode(a)
         \/ ComputeJoins
         \/ UNCHANGED <<setup, cofhe>>
  BY DEF Next, GetDetails, Walk, Started, Decrypt, Reinit, Reinited, NotEnough,
         Ask, Combine, RefusalThrows, ComputeDies, ComputeKilled, Stopped, vars

LEMMA ClientsStep == Inv /\ [Next]_vars => ClientsEnough'
<1> SUFFICES ASSUME Inv, [Next]_vars PROVE ClientsEnough'
  OBVIOUS
<1> USE NetworkAssumption DEF Inv, TypeOK, ClientsEnough
<1>1. ASSUME NEW a \in Addrs, Join(a) \/ JoinRefused(a) \/ Listen(a)
      PROVE  ClientsEnough'
  BY <1>1 DEF Join, JoinRefused, Listen, client
<1>2. ASSUME NEW a \in Addrs, CrashNode(a) PROVE ClientsEnough'
  <2>1. Len(conns') = Len(conns)
    BY <1>2 DEF CrashNode
  <2>2. QED
    BY <1>2, <2>1 DEF CrashNode
<1>3. CASE ComputeJoins \/ GetDetails \/ Started \/ Reinit \/ NotEnough
  BY <1>3 DEF ComputeJoins, GetDetails, Started, Reinit, NotEnough
<1>4. CASE Walk \/ Decrypt \/ Reinited \/ Ask \/ Combine \/ RefusalThrows
  BY <1>4 DEF Walk, Decrypt, Reinited, Ask, Combine, RefusalThrows
<1>5. CASE ComputeDies \/ ComputeKilled \/ Stopped \/ UNCHANGED vars
  BY <1>5 DEF ComputeDies, ComputeKilled, Gone, Stopped, vars, client
<1>6. QED
  BY <1>1, <1>2, <1>3, <1>4, <1>5 DEF Next

LEMMA HoldersStep == Inv /\ [Next]_vars => HoldersKnown'
<1> SUFFICES ASSUME Inv, [Next]_vars PROVE HoldersKnown'
  OBVIOUS
<1> USE NetworkAssumption DEF Inv, TypeOK, HoldersKnown, Alive
<1>1. ASSUME NEW a \in Addrs, Join(a) PROVE HoldersKnown'
  <2>1. PICK g : g = Grant(a)
    OBVIOUS
  <2>2. g.addr = a
    BY <2>1 DEF Grant
  <2>3. /\ granted' = Append(granted, g) /\ current' = current + 1
        /\ slot' = [slot EXCEPT ![a] = current]
        /\ proc' = [proc EXCEPT ![a] = "joined"]
    BY <1>1, <2>1 DEF Join, Admits
  <2>4. /\ Len(granted') = Len(granted) + 1
        /\ granted'[Len(granted) + 1] = g
        /\ \A k \in 1..Len(granted) : granted'[k] = granted[k]
    BY <2>3
  <2>5. ASSUME NEW b \in Addrs, proc'[b] \in Alive
        PROVE  /\ slot'[b] + 1 \in 1..Len(granted')
               /\ granted'[slot'[b] + 1].addr = b
               /\ \A j \in 1..Len(granted') :
                    j > slot'[b] + 1 => granted'[j].addr # b
    <3>1. CASE b = a
      BY <3>1, <2>2, <2>3, <2>4
    <3>2. CASE b # a
      <4>1. proc[b] \in Alive /\ slot'[b] = slot[b]
        BY <2>3, <2>5, <3>2
      <4>2. slot[b] \in Nat
        BY DEF Parties
      <4>3. slot[b] + 1 \in 1..Len(granted)
        BY <4>1
      <4>4. ASSUME NEW j \in 1..Len(granted'), j > slot[b] + 1
            PROVE  granted'[j].addr # b
        <5>1. CASE j = Len(granted) + 1
          BY <5>1, <2>2, <2>4, <3>2
        <5>2. CASE j \in 1..Len(granted)
          BY <5>2, <2>4, <4>1, <4>4
        <5>3. QED
          BY <5>1, <5>2, <2>4
      <4>5. QED
        BY <2>4, <4>1, <4>2, <4>3, <4>4
    <3>3. QED
      BY <3>1, <3>2
  <2>6. QED
    BY <2>3, <2>4, <2>5
<1>2. ASSUME NEW a \in Addrs, JoinRefused(a) \/ Listen(a) \/ CrashNode(a)
      PROVE  HoldersKnown'
  <2>1. UNCHANGED <<current, granted, slot>>
    BY <1>2 DEF JoinRefused, Listen, CrashNode, setup
  <2>2. \A b \in Addrs : proc'[b] \in Alive => proc[b] \in Alive
    BY <1>2 DEF JoinRefused, Listen, CrashNode
  <2>3. QED
    BY <2>1, <2>2
<1>3. CASE ComputeJoins
  BY <1>3 DEF ComputeJoins, cofhe
<1>4. CASE UNCHANGED <<setup, cofhe>>
  BY <1>4 DEF setup, cofhe
<1>5. QED
  BY <1>1, <1>2, <1>3, <1>4, Bystanders

LEMMA RosterStep == Inv /\ [Next]_vars => RosterNamesLists'
<1> SUFFICES ASSUME Inv, [Next]_vars PROVE RosterNamesLists'
  OBVIOUS
<1> USE NetworkAssumption DEF Inv, TypeOK
<1>0. RosterNamesLists /\ HoldersKnown
  OBVIOUS
<1>1. ASSUME NEW a \in Addrs, Join(a) PROVE RosterNamesLists'
  <2>1. PICK g, e : g = Grant(a) /\ e = Entry(a, "CoFHE_NODE")
    OBVIOUS
  <2>2. /\ g.addr = a /\ g.list = current /\ g.at = Len(roster) + 1
        /\ e = Entry(g.addr, "CoFHE_NODE")
    BY <2>1 DEF Grant
  <2>3. granted' = Append(granted, g) /\ roster' = Append(roster, e)
    BY <1>1, <2>1 DEF Join, Admits
  <2>4. /\ Len(granted') = Len(granted) + 1
        /\ granted'[Len(granted) + 1] = g
        /\ \A k \in 1..Len(granted) : granted'[k] = granted[k]
        /\ Len(granted) \in Nat
    BY <2>3
  <2>5. /\ Len(roster') = Len(roster) + 1
        /\ roster'[Len(roster) + 1] = e
        /\ \A k \in 1..Len(roster) : roster'[k] = roster[k]
        /\ Len(roster) \in Nat
    BY <2>3
  <2> HIDE DEF Inv, TypeOK
  <2>6. ASSUME NEW k \in 1..Len(granted')
        PROVE  /\ granted'[k].list = k - 1
               /\ granted'[k].at \in 1..Len(roster')
               /\ roster'[granted'[k].at] = Entry(granted'[k].addr, "CoFHE_NODE")
               /\ \A j \in 1..(k - 1) : granted'[j].at < granted'[k].at
    <3>1. CASE k = Len(granted) + 1
      <4>1. k - 1 = current
        BY <1>0, <2>4, <3>1 DEF HoldersKnown
      <4>2. granted'[k] = g
        BY <2>4, <3>1
      <4>3. ASSUME NEW j \in 1..(k - 1) PROVE granted'[j].at < granted'[k].at
        <5>1. j \in 1..Len(granted)
          BY <2>4, <3>1
        <5>2. granted[j].at \in 1..Len(roster)
          BY <1>0, <5>1 DEF RosterNamesLists
        <5>3. QED
          BY <2>2, <2>4, <2>5, <4>2, <5>1, <5>2
      <4>4. QED
        BY <2>2, <2>5, <4>1, <4>2, <4>3
    <3>2. CASE k \in 1..Len(granted)
      <4>1. /\ granted[k].list = k - 1
            /\ granted[k].at \in 1..Len(roster)
            /\ roster[granted[k].at] = Entry(granted[k].addr, "CoFHE_NODE")
            /\ \A j \in 1..(k - 1) : granted[j].at < granted[k].at
        BY <1>0, <3>2 DEF RosterNamesLists
      <4>2. granted'[k] = granted[k] /\ roster'[granted[k].at] = roster[granted[k].at]
        BY <2>4, <2>5, <3>2, <4>1
      <4>3. \A j \in 1..(k - 1) : granted'[j] = granted[j]
        BY <2>4, <3>2
      <4>4. /\ granted'[k].list = k - 1
            /\ granted'[k].at \in 1..Len(roster')
            /\ \A j \in 1..(k - 1) : granted'[j].at < granted'[k].at
        BY <2>5, <4>1, <4>2, <4>3
      <4>5. roster'[granted'[k].at] = Entry(granted'[k].addr, "CoFHE_NODE")
        BY <4>1, <4>2 DEF Entry
      <4>6. QED
        BY <4>4, <4>5
    <3>3. QED
      BY <2>4, <3>1, <3>2
  <2>7. ASSUME NEW i \in 1..Len(roster'), IsCofhe(roster'[i])
        PROVE  \E k \in 1..Len(granted') : granted'[k].at = i
    <3>1. CASE i = Len(roster) + 1
      <4>1. granted'[Len(granted) + 1].at = i
        BY <2>2, <2>4, <3>1
      <4>2. QED
        BY <2>4, <4>1
    <3>2. CASE i \in 1..Len(roster)
      <4>1. PICK k \in 1..Len(granted) : granted[k].at = i
        BY <1>0, <2>5, <2>7, <3>2 DEF RosterNamesLists
      <4>2. k \in 1..Len(granted') /\ granted'[k] = granted[k]
        BY <2>4
      <4>3. QED
        BY <4>1, <4>2
    <3>3. QED
      BY <2>5, <3>1, <3>2
  <2>8. QED
    BY <2>6, <2>7 DEF RosterNamesLists
<1>2. ASSUME NEW a \in Addrs, JoinRefused(a) \/ Listen(a) \/ CrashNode(a)
      PROVE  RosterNamesLists'
  BY <1>2 DEF JoinRefused, Listen, CrashNode, setup, RosterNamesLists
<1>3. CASE ComputeJoins
  <2>1. PICK e : e = ComputeEntry
    OBVIOUS
  <2>2. ~IsCofhe(e)
    BY <2>1 DEF ComputeEntry, Entry, IsCofhe
  <2>3. granted' = granted /\ roster' = Append(roster, e)
    BY <1>3, <2>1 DEF ComputeJoins
  <2>4. /\ Len(roster') = Len(roster) + 1
        /\ roster'[Len(roster) + 1] = e
        /\ \A k \in 1..Len(roster) : roster'[k] = roster[k]
        /\ Len(roster) \in Nat
    BY <2>3
  <2>5. ASSUME NEW k \in 1..Len(granted)
        PROVE  /\ granted[k].at \in 1..Len(roster')
               /\ roster'[granted[k].at] = Entry(granted[k].addr, "CoFHE_NODE")
    <3>1. /\ granted[k].at \in 1..Len(roster)
          /\ roster[granted[k].at] = Entry(granted[k].addr, "CoFHE_NODE")
      BY DEF RosterNamesLists
    <3>2. QED
      BY <2>4, <3>1
  <2>6. ASSUME NEW i \in 1..Len(roster'), IsCofhe(roster'[i])
        PROVE  \E k \in 1..Len(granted) : granted[k].at = i
    <3>1. i \in 1..Len(roster)
      <4>1. i # Len(roster) + 1
        BY <2>2, <2>4, <2>6 DEF IsCofhe
      <4>2. QED
        BY <2>4, <4>1
    <3>2. QED
      BY <2>4, <2>6, <3>1 DEF RosterNamesLists
  <2>7. QED
    BY <2>3, <2>5, <2>6 DEF RosterNamesLists
<1>4. CASE UNCHANGED <<setup, cofhe>>
  BY <1>4 DEF setup, RosterNamesLists
<1>5. QED
  BY <1>1, <1>2, <1>3, <1>4, Bystanders

-----------------------------------------------------------------------------
(* The compute node's view.                                                *)

\* The two halves of ViewIsPrefix.
Prefix ==
  /\ Len(view) <= Len(roster)
  /\ \A i \in 1..Len(view) : view[i] = roster[i]

ClientsInView ==
  /\ Len(conns) <= T
  /\ \A k \in 1..Len(conns) :
       \E i \in 1..(walk - 1) : view[i] = Entry(conns[k].addr, "CoFHE_NODE")

LEMMA PrefixStep == Inv /\ [Next]_vars => Prefix'
<1> SUFFICES ASSUME Inv, [Next]_vars PROVE Prefix'
  OBVIOUS
<1>0. TypeOK /\ Prefix
  BY DEF Inv, ViewIsPrefix, Prefix
<1>1. ASSUME view' = view, NEW e, roster' = Append(roster, e) PROVE Prefix'
  <2>1. /\ Len(roster') = Len(roster) + 1
        /\ \A i \in 1..Len(roster) : roster'[i] = roster[i]
    BY <1>0, <1>1 DEF TypeOK
  <2>2. Len(view) \in Nat /\ Len(roster) \in Nat
    BY <1>0 DEF TypeOK
  <2>3. QED
    BY <1>0, <1>1, <2>1, <2>2 DEF Prefix
<1>2. ASSUME view' = view, roster' = roster PROVE Prefix'
  BY <1>0, <1>2 DEF Prefix
<1>3. ASSUME view' = roster, roster' = roster PROVE Prefix'
  BY <1>0, <1>3 DEF Prefix, TypeOK
<1>4. ASSUME view' = <<>>, roster' = roster PROVE Prefix'
  BY <1>0, <1>4 DEF Prefix, TypeOK
<1>5. ASSUME NEW a \in Addrs, Join(a) PROVE Prefix'
  BY <1>1, <1>5 DEF Join, Admits, client
<1>6. ASSUME NEW a \in Addrs, JoinRefused(a) \/ Listen(a) \/ CrashNode(a)
      PROVE  Prefix'
  BY <1>2, <1>6 DEF JoinRefused, Listen, CrashNode, setup, client
<1>7. CASE ComputeJoins
  BY <1>1, <1>7 DEF ComputeJoins, client
<1>8. CASE GetDetails \/ Reinit
  BY <1>3, <1>8 DEF GetDetails, Reinit, setup
<1>9. CASE ComputeDies \/ ComputeKilled
  BY <1>4, <1>9 DEF ComputeDies, ComputeKilled, Gone, setup
<1>10. CASE Walk \/ Started \/ Decrypt \/ Reinited \/ NotEnough
  BY <1>2, <1>10 DEF Walk, Started, Decrypt, Reinited, NotEnough, setup, client
<1>11. CASE Ask \/ Combine \/ RefusalThrows \/ Stopped \/ UNCHANGED vars
  BY <1>2, <1>11 DEF Ask, Combine, RefusalThrows, Stopped, vars, setup, client
<1>12. QED
  BY <1>5, <1>6, <1>7, <1>8, <1>9, <1>10, <1>11 DEF Next

LEMMA ClientsInViewStep == Inv /\ [Next]_vars => ClientsInView'
<1> SUFFICES ASSUME Inv, [Next]_vars PROVE ClientsInView'
  OBVIOUS
<1>0. TypeOK /\ ClientsInView
  BY DEF Inv, ViewIsPrefix, ClientsInView
<1> USE NetworkAssumption
<1>1. ASSUME UNCHANGED <<view, walk, conns>> PROVE ClientsInView'
  BY <1>0, <1>1 DEF ClientsInView
<1>2. ASSUME conns' = <<>> PROVE ClientsInView'
  BY <1>2 DEF ClientsInView
<1>3. ASSUME NEW a \in Addrs, CrashNode(a) PROVE ClientsInView'
  <2>1. /\ Len(conns') = Len(conns)
        /\ \A k \in 1..Len(conns) : conns'[k].addr = conns[k].addr
        /\ view' = view /\ walk' = walk
    BY <1>0, <1>3 DEF CrashNode, TypeOK
  <2>2. ASSUME NEW k \in 1..Len(conns')
        PROVE  \E i \in 1..(walk' - 1) : view'[i] = Entry(conns'[k].addr, "CoFHE_NODE")
    <3>1. k \in 1..Len(conns) /\ conns'[k].addr = conns[k].addr
      BY <2>1
    <3>2. PICK i \in 1..(walk - 1) : view[i] = Entry(conns[k].addr, "CoFHE_NODE")
      BY <1>0, <3>1 DEF ClientsInView
    <3>3. QED
      BY <2>1, <3>1, <3>2
  <2>3. QED
    BY <1>0, <2>1, <2>2 DEF ClientsInView
<1>4. CASE Walk
  <2>1. walk \in 1..Len(view) /\ walk' = walk + 1 /\ view' = view
    BY <1>0, <1>4 DEF Walk, TypeOK
  <2>2. PICK e, c : e = view[walk] /\ c = [addr |-> e.addr, open |-> TRUE]
    OBVIOUS
  <2>3. \/ conns' = conns
        \/ IsCofhe(e) /\ Len(conns) < T /\ conns' = Append(conns, c)
    BY <1>4, <2>2 DEF Walk, Connects
  <2>4. e \in Entries
    BY <1>0, <2>1, <2>2, ElementOfSeq DEF TypeOK
  <2>5. Len(conns) \in Nat
    BY <1>0 DEF TypeOK
  <2>6. CASE conns' = conns
    BY <1>0, <2>1, <2>6 DEF ClientsInView
  <2>7. CASE IsCofhe(e) /\ Len(conns) < T /\ conns' = Append(conns, c)
    <3>1. e = Entry(c.addr, "CoFHE_NODE")
      BY <2>2, <2>4, <2>7 DEF Entry, Entries, IsCofhe
    <3>2. /\ Len(conns') = Len(conns) + 1
          /\ conns'[Len(conns) + 1] = c
          /\ \A k \in 1..Len(conns) : conns'[k] = conns[k]
      BY <1>0, <2>7 DEF TypeOK
    <3>3. ASSUME NEW k \in 1..Len(conns')
          PROVE  \E i \in 1..(walk' - 1) : view'[i] = Entry(conns'[k].addr, "CoFHE_NODE")
      <4>1. CASE k = Len(conns) + 1
        <5>1. view'[walk] = Entry(conns'[k].addr, "CoFHE_NODE")
          BY <2>1, <2>2, <3>1, <3>2, <4>1
        <5>2. walk \in 1..(walk' - 1)
          BY <2>1
        <5>3. QED
          BY <5>1, <5>2
      <4>2. CASE k \in 1..Len(conns)
        <5>1. PICK i \in 1..(walk - 1) : view[i] = Entry(conns[k].addr, "CoFHE_NODE")
          BY <1>0, <4>2 DEF ClientsInView
        <5>2. i \in 1..(walk' - 1) /\ conns'[k] = conns[k]
          BY <2>1, <3>2, <4>2
        <5>3. QED
          BY <2>1, <5>1, <5>2
      <4>3. QED
        BY <2>5, <3>2, <4>1, <4>2
    <3>4. Len(conns') <= T
      BY <2>5, <2>7, <3>2
    <3>5. QED
      BY <3>3, <3>4 DEF ClientsInView
  <2>8. QED
    BY <2>3, <2>6, <2>7
<1>5. ASSUME NEW a \in Addrs, Join(a) \/ JoinRefused(a) \/ Listen(a)
      PROVE  ClientsInView'
  BY <1>1, <1>5 DEF Join, JoinRefused, Listen, client
<1>6. CASE GetDetails \/ Reinit \/ ComputeDies \/ ComputeKilled
  BY <1>2, <1>6 DEF GetDetails, Reinit, ComputeDies, ComputeKilled, Gone
<1>7. CASE ComputeJoins \/ Started \/ Decrypt \/ Reinited \/ NotEnough
  BY <1>1, <1>7 DEF ComputeJoins, Started, Decrypt, Reinited, NotEnough, client
<1>8. CASE Ask \/ Combine \/ RefusalThrows \/ Stopped \/ UNCHANGED vars
  BY <1>1, <1>8 DEF Ask, Combine, RefusalThrows, Stopped, vars, client
<1>9. QED
  BY <1>3, <1>4, <1>5, <1>6, <1>7, <1>8 DEF Next

LEMMA InvStep == Inv /\ [Next]_vars => Inv'
<1> SUFFICES ASSUME Inv, [Next]_vars PROVE Inv'
  OBVIOUS
<1>1. ViewIsPrefix'
  BY PrefixStep, ClientsInViewStep DEF ViewIsPrefix, Prefix, ClientsInView
<1>2. TypeOK'
  BY TypeStep DEF Inv
<1>3. QED
  BY <1>1, <1>2, ClientsStep, HoldersStep, RosterStep DEF Inv

-----------------------------------------------------------------------------
(* In whatever order the nodes start and die.                              *)

THEOREM Invariant == Spec => []Inv
<1>1. Init => Inv
  BY InitOK DEF IInv
<1>2. QED
  BY <1>1, InvStep, PTL DEF Spec

\* The state has the shape TypeOK says, with every answer to a request made
\* with one share index.
THEOREM TypeCorrect == Spec => []TypeOK
  BY Invariant, PTL DEF Inv

\* The setup node never gives a list of shares twice, nor more than N lists,
\* however often CoFHE nodes die and join again.
THEOREM ListsAreGivenOnce == Spec => []ListsGivenOnce
<1>1. Inv => ListsGivenOnce
  <2> SUFFICES ASSUME Inv PROVE ListsGivenOnce
    OBVIOUS
  <2>0. TypeOK /\ HoldersKnown /\ RosterNamesLists
    BY DEF Inv
  <2>1. Len(granted) <= N
    BY <2>0, NetworkAssumption DEF TypeOK, HoldersKnown
  <2>2. ASSUME NEW j \in 1..Len(granted), NEW k \in 1..Len(granted),
               granted[j].list = granted[k].list
        PROVE  j = k
    BY <2>0, <2>2 DEF RosterNamesLists
  <2>3. ASSUME NEW a \in Addrs, proc[a] \in {"joined", "listening"}
        PROVE  \E k \in 1..Len(granted) :
                 /\ granted[k].addr = a /\ granted[k].list = slot[a]
                 /\ \A j \in (k + 1)..Len(granted) : granted[j].addr # a
    <3>1. /\ slot[a] + 1 \in 1..Len(granted)
          /\ granted[slot[a] + 1].addr = a
          /\ \A j \in 1..Len(granted) : j > slot[a] + 1 => granted[j].addr # a
      BY <2>0, <2>3 DEF HoldersKnown, Alive
    <3>2. slot[a] \in Nat /\ Len(granted) \in Nat
      BY <2>0, NetworkAssumption DEF TypeOK, Parties
    <3>3. granted[slot[a] + 1].list = slot[a]
      BY <2>0, <3>1, <3>2 DEF RosterNamesLists
    <3>4. \A j \in (slot[a] + 2)..Len(granted) : granted[j].addr # a
      BY <3>1, <3>2
    <3>5. QED
      BY <3>1, <3>2, <3>3, <3>4
  <2>4. QED
    BY <2>1, <2>2, <2>3 DEF ListsGivenOnce
<1>2. QED
  BY <1>1, Invariant, PTL

\* The order of the roster tells which node holds which list.
THEOREM RosterTellsLists == Spec => []RosterNamesLists
  BY Invariant, PTL DEF Inv

\* A compute node works with a beginning of the roster, and with at most T
\* clients out of it.
THEOREM ViewStaysPrefix == Spec => []ViewIsPrefix
  BY Invariant, PTL DEF Inv

-----------------------------------------------------------------------------
(* When the start-up order is kept.                                        *)

\* An order that was broken stays broken.
LEMMA CalmStays == TypeOK /\ [Next]_vars /\ InOrder' => InOrder
<1> SUFFICES ASSUME TypeOK, [Next]_vars, InOrder' PROVE InOrder
  OBVIOUS
<1>1. calm' = calm \/ calm' = (calm /\ AllListen)
        \/ calm' = (calm /\ compute \in {"up", "reinit", "asking"})
  BY DEF Next, Join, JoinRefused, Listen, CrashNode, ComputeJoins, GetDetails,
         Walk, Started, Decrypt, Reinit, Reinited, NotEnough, Ask, Combine,
         RefusalThrows, ComputeDies, ComputeKilled, Stopped, vars
<1>2. QED
  BY <1>1 DEF InOrder

LEMMA CalmGrantsStep ==
  ASSUME InOrder', Inv, CalmInv, [Next]_vars PROVE CalmGrants'
<1>0. TypeOK /\ HoldersKnown /\ CalmGrants
  BY DEF Inv, CalmInv
<1> USE NetworkAssumption
<1>1. ASSUME NEW a \in Addrs, Join(a) PROVE CalmGrants'
  <2>1. PICK g : g = Grant(a)
    OBVIOUS
  <2>2. g.addr = a
    BY <2>1 DEF Grant
  <2>3. /\ current < N /\ proc[a] = "down" /\ compute' = compute
        /\ granted' = Append(granted, g) /\ current' = current + 1
        /\ slot' = [slot EXCEPT ![a] = current]
        /\ proc' = [proc EXCEPT ![a] = "joined"]
    BY <1>1, <2>1 DEF Join, Admits
  <2>4. /\ Len(granted') = Len(granted) + 1
        /\ granted'[Len(granted) + 1] = g
        /\ \A k \in 1..Len(granted) : granted'[k] = granted[k]
        /\ Len(granted) = current /\ current \in Nat
    <3>1. granted \in Seq([addr : Addrs, list : Parties, at : Nat])
      BY <1>0 DEF TypeOK
    <3>2. Len(granted) = current /\ current \in Nat
      BY <1>0, <3>1 DEF HoldersKnown
    <3>3. QED
      BY <2>3, <3>1, <3>2
  <2>5. ASSUME NEW k \in 1..Len(granted)
        PROVE  granted[k].addr \in Addrs \ {a} /\ proc[granted[k].addr] \in Alive
    <3>1. granted[k] \in [addr : Addrs, list : Parties, at : Nat]
      BY <1>0, ElementOfSeq DEF TypeOK
    <3>2. proc[granted[k].addr] \in Alive
      BY <1>0, <2>3 DEF CalmGrants
    <3>3. QED
      BY <2>3, <3>1, <3>2 DEF Alive
  <2>6. ASSUME NEW j \in 1..Len(granted'), NEW k \in 1..Len(granted'),
               granted'[j].addr = granted'[k].addr
        PROVE  j = k
    <3>1. CASE j \in 1..Len(granted) /\ k \in 1..Len(granted)
      BY <1>0, <2>4, <2>6, <3>1 DEF CalmGrants
    <3>2. CASE j = Len(granted) + 1 /\ k \in 1..Len(granted)
      BY <2>2, <2>4, <2>5, <2>6, <3>2
    <3>3. CASE j \in 1..Len(granted) /\ k = Len(granted) + 1
      BY <2>2, <2>4, <2>5, <2>6, <3>3
    <3>4. QED
      BY <2>4, <3>1, <3>2, <3>3
  <2>7. ASSUME NEW k \in 1..Len(granted')
        PROVE  slot'[granted'[k].addr] = k - 1 /\ proc'[granted'[k].addr] \in Alive
    <3>1. CASE k = Len(granted) + 1
      BY <1>0, <2>2, <2>3, <2>4, <3>1 DEF TypeOK, Alive
    <3>2. CASE k \in 1..Len(granted)
      BY <1>0, <2>3, <2>4, <2>5, <3>2 DEF TypeOK, CalmGrants
    <3>3. QED
      BY <2>4, <3>1, <3>2
  <2>8. compute' = "down"
    BY <1>0, <2>3, <2>4 DEF CalmGrants
  <2>9. QED
    BY <2>6, <2>7, <2>8 DEF CalmGrants
<1>2. ASSUME NEW a \in Addrs, JoinRefused(a) PROVE CalmGrants'
  <2>1. /\ UNCHANGED <<current, granted, slot, compute>>
        /\ ~(current < N) /\ proc[a] = "down"
        /\ \A b \in Addrs \ {a} : proc'[b] = proc[b]
    BY <1>0, <1>2 DEF JoinRefused, setup, TypeOK
  <2>2. \A b \in Addrs : proc[b] = "listening" => proc'[b] = "listening"
    BY <2>1
  <2>3. QED
    BY <1>0, <2>1, <2>2 DEF CalmGrants, Listening
<1>3. ASSUME NEW a \in Addrs, Listen(a) PROVE CalmGrants'
  <2>1. /\ UNCHANGED <<current, granted, slot, compute>>
        /\ proc' = [proc EXCEPT ![a] = "listening"]
    BY <1>3 DEF Listen, setup
  <2>2. ASSUME NEW k \in 1..Len(granted)
        PROVE  /\ proc[granted[k].addr] \in Alive => proc'[granted[k].addr] \in Alive
               /\ Listening(granted[k].addr) => Listening(granted[k].addr)'
    BY <1>0, <2>1 DEF TypeOK, Listening, Alive
  <2>3. QED
    BY <1>0, <2>1, <2>2 DEF CalmGrants, Listening
<1>4. ASSUME NEW a \in Addrs, CrashNode(a) PROVE CalmGrants'
  <2>1. /\ UNCHANGED <<current, granted, slot, compute>>
        /\ compute \in {"up", "reinit", "asking"}
    BY <1>4 DEF CrashNode, InOrder, setup
  <2>2. compute' \notin {"joined", "init"} /\ current = N
    BY <1>0, <2>1 DEF CalmGrants
  <2>3. ~(current' < N)
    BY <2>1, <2>2
  <2>4. QED
    BY <1>0, <2>1, <2>2, <2>3 DEF CalmGrants
<1>5. CASE ComputeJoins
  <2>1. UNCHANGED <<current, granted, slot, proc>> /\ AllListen
    BY <1>5 DEF ComputeJoins, InOrder, cofhe
  <2>2. current = N /\ Len(granted) = N
    BY <1>0, <2>1 DEF AllListen, HoldersKnown
  <2>3. \A k \in 1..Len(granted) : Listening(granted[k].addr)'
    BY <2>1, <2>2 DEF AllListen, Listening
  <2>4. QED
    BY <1>0, <2>1, <2>2, <2>3 DEF CalmGrants, Listening
<1>6. ASSUME UNCHANGED <<setup, cofhe>>,
             \/ compute' = "down"
             \/ compute' = compute
             \/ compute = "joined" /\ compute' = "init"
             \/ compute # "down" /\ compute' \in {"up", "reinit", "asking"}
      PROVE  CalmGrants'
  BY <1>0, <1>6 DEF CalmGrants, setup, cofhe, Listening
<1>7. CASE GetDetails \/ Walk \/ Started \/ Decrypt \/ Reinit
  BY <1>6, <1>7 DEF GetDetails, Walk, Started, Decrypt, Reinit
<1>8. CASE Reinited \/ NotEnough \/ Ask
  BY <1>6, <1>8 DEF Reinited, NotEnough, Ask
<1>9. CASE Combine \/ RefusalThrows
  BY <1>6, <1>9 DEF Combine, RefusalThrows, Answered
<1>10. CASE ComputeDies \/ ComputeKilled \/ Stopped \/ UNCHANGED vars
  BY <1>6, <1>10 DEF ComputeDies, ComputeKilled, Gone, Stopped, vars
<1>11. QED
  BY <1>1, <1>2, <1>3, <1>4, <1>5, <1>7, <1>8, <1>9, <1>10 DEF Next

LEMMA CalmClientsStep ==
  ASSUME InOrder', Inv, CalmInv, [Next]_vars PROVE CalmClients'
<1>0. /\ TypeOK /\ HoldersKnown /\ RosterNamesLists /\ ViewIsPrefix
      /\ CalmGrants /\ CalmClients
  BY DEF Inv, CalmInv
<1> USE NetworkAssumption
<1>1. ASSUME NEW a \in Addrs, Join(a) PROVE CalmClients'
  <2>1. compute = "down"
    BY <1>0, <1>1 DEF Join, Admits, CalmGrants, TypeOK
  <2>2. UNCHANGED <<compute, share>>
    BY <1>1 DEF Join, client
  <2>3. QED
    BY <1>0, <2>1, <2>2 DEF CalmClients
<1>2. ASSUME NEW a \in Addrs, JoinRefused(a) \/ Listen(a) PROVE CalmClients'
  BY <1>0, <1>2 DEF JoinRefused, Listen, setup, client, CalmClients
<1>3. ASSUME NEW a \in Addrs, CrashNode(a) PROVE CalmClients'
  <2>1. /\ Len(conns') = Len(conns)
        /\ \A k \in 1..Len(conns) : conns'[k].addr = conns[k].addr
        /\ UNCHANGED <<granted, compute, share>>
    BY <1>0, <1>3 DEF CrashNode, TypeOK, setup
  <2>2. compute # "init"
    BY <1>3 DEF CrashNode, InOrder
  <2>3. QED
    BY <1>0, <2>1, <2>2 DEF CalmClients
<1>4. CASE ComputeJoins
  BY <1>0, <1>4 DEF ComputeJoins, client, CalmClients
<1>5. CASE GetDetails
  <2>1. /\ compute' = "init" /\ view' = roster /\ conns' = <<>>
        /\ walk' = 1 /\ share' = 0 /\ granted' = granted
    BY <1>5 DEF GetDetails, setup
  <2>2. \A k \in 1..Len(granted) : granted[k].at \in 1..Len(roster)
    BY <1>0 DEF RosterNamesLists
  <2>3. Len(roster) \in Nat
    BY <1>0 DEF TypeOK
  <2>4. QED
    BY <2>1, <2>2, <2>3 DEF CalmClients
<1>6. CASE Walk
  <2>1. /\ compute = "init" /\ compute' = "init"
        /\ walk' = walk + 1 /\ UNCHANGED <<view, granted, share>>
    BY <1>0, <1>6 DEF Walk, CalmClients, setup
  <2>2. walk \in 1..Len(view)
    BY <1>0, <1>6 DEF Walk, TypeOK
  <2>3. PICK e, c : e = view[walk] /\ c = [addr |-> e.addr, open |-> TRUE]
    OBVIOUS
  <2>4. /\ \A k \in 1..Len(granted) : granted[k].at <= Len(view)
        /\ \A k \in 1..Len(conns) : k <= Len(granted) /\ granted[k].at < walk
        /\ \A k \in 1..Len(granted) :
             granted[k].at < walk /\ k <= T => k <= Len(conns)
        /\ \A k \in 1..Len(conns) : conns[k].addr = granted[k].addr
        /\ share = 0
    BY <1>0, <2>1 DEF CalmClients
  <2>5. /\ Len(conns) \in Nat /\ Len(granted) \in Nat
        /\ Len(conns) <= T
        /\ \A k \in 1..Len(granted) : granted[k].at \in Nat
    BY <1>0 DEF TypeOK, ViewIsPrefix, RosterNamesLists
  <2>6. \A j, k \in 1..Len(granted) : j < k => granted[j].at < granted[k].at
    BY <1>0, <2>5 DEF RosterNamesLists
  <2>7. ASSUME IsCofhe(e)
        PROVE  \E k \in 1..Len(granted) :
                 granted[k].at = walk /\ granted[k].addr = e.addr
               /\ Listening(e.addr)
    <3>1. walk \in 1..Len(roster) /\ roster[walk] = e
      BY <1>0, <2>2, <2>3 DEF ViewIsPrefix, TypeOK
    <3>2. PICK k \in 1..Len(granted) : granted[k].at = walk
      BY <1>0, <2>7, <3>1 DEF RosterNamesLists
    <3>3. e = Entry(granted[k].addr, "CoFHE_NODE")
      BY <1>0, <3>1, <3>2 DEF RosterNamesLists
    <3>4. e.addr = granted[k].addr
      BY <3>3 DEF Entry
    <3>5. Listening(e.addr)
      BY <1>0, <2>1, <3>4 DEF CalmGrants
    <3>6. QED
      BY <3>2, <3>4, <3>5
  <2>8. CASE ~IsCofhe(e)
    <3>1. conns' = conns
      BY <1>6, <2>3, <2>8 DEF Walk, Connects
    <3>2. ASSUME NEW k \in 1..Len(granted) PROVE granted[k].at # walk
      <4>1. roster[granted[k].at] = Entry(granted[k].addr, "CoFHE_NODE")
        BY <1>0 DEF RosterNamesLists
      <4>2. view[walk] = roster[walk]
        BY <1>0, <2>2 DEF ViewIsPrefix
      <4>3. QED
        BY <2>3, <2>8, <4>1, <4>2 DEF Entry, IsCofhe
    <3>3. \A k \in 1..Len(granted) : granted[k].at < walk + 1 => granted[k].at < walk
      BY <2>2, <2>5, <3>2
    <3>4. \A k \in 1..Len(conns) : granted[k].at < walk + 1
      BY <2>2, <2>4, <2>5
    <3>5. QED
      BY <2>1, <2>4, <2>5, <3>1, <3>3, <3>4 DEF CalmClients
  <2>9. CASE IsCofhe(e)
    <3>1. PICK n \in 1..Len(granted) :
            granted[n].at = walk /\ granted[n].addr = e.addr /\ Listening(e.addr)
      BY <2>7, <2>9
    <3>2. n > Len(conns)
      BY <2>4, <2>5, <3>1
    <3>3. \A j \in 1..(n - 1) : granted[j].at < walk
      BY <2>5, <2>6, <3>1
    <3>4. Len(conns) < T => n = Len(conns) + 1
      <4>1. SUFFICES ASSUME Len(conns) < T, n # Len(conns) + 1 PROVE FALSE
        OBVIOUS
      <4>2. Len(conns) + 1 \in 1..(n - 1) /\ Len(conns) + 1 \in 1..Len(granted)
        BY <2>5, <3>1, <3>2, <4>1
      <4>3. granted[Len(conns) + 1].at < walk
        BY <3>3, <4>2
      <4>4. Len(conns) + 1 <= Len(conns)
        BY <2>4, <2>5, <4>1, <4>2, <4>3
      <4>5. QED
        BY <2>5, <4>4
    <3>5. \A k \in 1..Len(granted) : granted[k].at < walk + 1 => granted[k].at < walk \/ k = n
      <4>1. SUFFICES ASSUME NEW k \in 1..Len(granted), granted[k].at = walk PROVE k = n
        BY <2>2, <2>5
      <4>2. QED
        BY <2>5, <2>6, <3>1, <4>1
    <3>6. CASE Len(conns) < T
      <4>1. conns' = Append(conns, c)
        BY <1>6, <2>3, <2>9, <3>1, <3>6 DEF Walk, Connects
      <4>2. /\ Len(conns') = n
            /\ conns'[n].addr = granted[n].addr
            /\ \A k \in 1..Len(conns) : conns'[k] = conns[k]
        BY <1>0, <2>3, <3>1, <3>4, <3>6, <4>1 DEF TypeOK
      <4>3. ASSUME NEW k \in 1..Len(conns')
            PROVE  /\ k <= Len(granted) /\ granted[k].at < walk + 1
                   /\ conns'[k].addr = granted[k].addr
        <5>1. CASE k = n
          BY <2>2, <3>1, <4>2, <5>1
        <5>2. CASE k \in 1..Len(conns)
          BY <2>2, <2>4, <2>5, <4>2, <5>2
        <5>3. QED
          BY <3>4, <3>6, <4>2, <5>1, <5>2
      <4>4. ASSUME NEW k \in 1..Len(granted), granted[k].at < walk + 1, k <= T
            PROVE  k <= Len(conns')
        BY <2>4, <2>5, <3>4, <3>5, <3>6, <4>2, <4>4
      <4>5. QED
        BY <2>1, <2>4, <4>3, <4>4 DEF CalmClients
    <3>7. CASE ~(Len(conns) < T)
      <4>1. conns' = conns /\ Len(conns) = T
        BY <1>6, <2>3, <2>5, <3>7 DEF Walk, Connects
      <4>2. \A k \in 1..Len(conns) : granted[k].at < walk + 1
        BY <2>2, <2>4, <2>5
      <4>3. QED
        BY <2>1, <2>4, <2>5, <4>1, <4>2 DEF CalmClients
    <3>8. QED
      BY <3>6, <3>7
  <2>10. QED
    BY <2>8, <2>9
<1>7. CASE Started
  <2>1. /\ compute = "init" /\ compute' = "up" /\ walk > Len(view)
        /\ UNCHANGED <<granted, conns, share>>
    BY <1>7 DEF Started, setup, client
  <2>2. T \in 1..Len(granted)
    BY <1>0, <2>1 DEF CalmGrants, HoldersKnown
  <2>3. granted[T].at < walk
    <3>1. granted[T].at <= Len(view) /\ granted[T].at \in Nat
      BY <1>0, <2>1, <2>2 DEF CalmClients, RosterNamesLists
    <3>2. Len(view) \in Nat /\ walk \in Nat
      BY <1>0 DEF TypeOK
    <3>3. QED
      BY <2>1, <3>1, <3>2
  <2>4. Len(conns) = T
    BY <1>0, <2>1, <2>2, <2>3 DEF CalmClients, ViewIsPrefix, TypeOK
  <2>5. QED
    BY <1>0, <2>1, <2>4 DEF CalmClients
<1>8. CASE Decrypt \/ Ask \/ Combine \/ RefusalThrows
  <2>1. /\ UNCHANGED <<granted, conns, share>>
        /\ compute \in {"up", "asking"} /\ compute' \in {"up", "asking"}
    BY <1>8 DEF Decrypt, Ask, Combine, RefusalThrows, Answered, setup
  <2>2. QED
    BY <1>0, <2>1 DEF CalmClients
<1>9. CASE Reinit \/ Reinited \/ NotEnough
  BY <1>0, <1>9 DEF Reinit, Reinited, NotEnough, CalmClients
<1>10. CASE ComputeDies \/ ComputeKilled
  BY <1>0, <1>10 DEF ComputeDies, ComputeKilled, Gone, CalmClients
<1>11. CASE Stopped \/ UNCHANGED vars
  BY <1>0, <1>11 DEF Stopped, vars, setup, client, CalmClients
<1>12. QED
  BY <1>1, <1>2, <1>3, <1>4, <1>5, <1>6, <1>7, <1>8, <1>9, <1>10, <1>11
     DEF Next

LEMMA CalmRepliesStep ==
  ASSUME InOrder', Inv, CalmInv, [Next]_vars PROVE CalmReplies'
<1>0. /\ TypeOK /\ HoldersKnown
      /\ CalmGrants /\ CalmClients /\ CalmReplies
  BY DEF Inv, CalmInv
<1> USE NetworkAssumption
<1>1. ASSUME replies' = replies, result' \in {result, "none", "plaintext"}
      PROVE  CalmReplies'
  BY <1>0, <1>1 DEF CalmReplies
<1>2. ASSUME replies' = <<>>, result' = "none" PROVE CalmReplies'
  BY <1>2 DEF CalmReplies
<1>3. CASE Ask
  <2>1. PICK n, c, r : /\ n = Len(replies) + 1
                       /\ c = conns[n]
                       /\ r = IF c.open THEN PartialDecryption(c.addr) ELSE Nothing
    OBVIOUS
  <2>2. /\ compute = "asking" /\ Len(replies) < T
        /\ replies' = Append(replies, r) /\ result' = result
    BY <1>3, <2>1 DEF Ask
  <2>3. /\ Len(replies) \in Nat /\ n \in 1..T
        /\ Len(replies') = n /\ replies'[n] = r
        /\ \A k \in 1..Len(replies) : replies'[k] = replies[k]
    BY <1>0, <2>1, <2>2 DEF TypeOK
  <2>4. n \in 1..Len(conns) /\ n \in 1..Len(granted)
    BY <1>0, <2>2, <2>3 DEF CalmClients, CalmGrants, HoldersKnown
  <2>5. slot[c.addr] = n - 1
    BY <1>0, <2>1, <2>2, <2>4 DEF CalmClients, CalmGrants
  <2>6. PartialDecryption(c.addr) = [list |-> n - 1, at |-> 0]
    <3>1. n - 1 \in Parties
      BY <2>3 DEF Parties
    <3>2. Len(Shares[n - 1]) \in Nat \ {0}
      BY <3>1, FirstShares
    <3>3. share = 0 /\ ~(share >= Len(Shares[slot[c.addr]]))
      BY <1>0, <2>5, <3>2 DEF CalmClients
    <3>4. QED
      BY <2>5, <3>3 DEF PartialDecryption
  <2>7. r \in {Nothing, [list |-> n - 1, at |-> 0]}
    BY <2>1, <2>6
  <2>8. ASSUME NEW k \in 1..Len(replies')
        PROVE  replies'[k] \in {Nothing, [list |-> k - 1, at |-> 0]}
    <3>1. CASE k = n
      BY <2>3, <2>7, <3>1
    <3>2. CASE k \in 1..Len(replies)
      <4>1. replies[k] \in {Nothing, [list |-> k - 1, at |-> 0]}
        BY <1>0, <3>2 DEF CalmReplies
      <4>2. QED
        BY <2>3, <3>2, <4>1
    <3>3. QED
      BY <2>1, <2>3, <3>1, <3>2
  <2>9. result' \in {"none", "plaintext"}
    BY <1>0, <2>2 DEF CalmReplies
  <2>10. QED
    BY <2>8, <2>9 DEF CalmReplies
<1>4. CASE Combine
  <2>1. Answered /\ Usable /\ replies' = replies
    BY <1>4 DEF Combine
  <2>2. ASSUME NEW k \in 1..T
        PROVE  replies[k] = [list |-> k - 1, at |-> 0]
    BY <1>0, <2>1 DEF CalmReplies, Answered, Usable
  <2>3. [k \in 1..T |-> Shares[replies[k].list][replies[k].at + 1]]
          = [k \in 1..T |-> Shares[k - 1][1]]
    <3>1. ASSUME NEW k \in 1..T
          PROVE  Shares[replies[k].list][replies[k].at + 1] = Shares[k - 1][1]
      <4>1. PICK r : r = replies[k] /\ r = [list |-> k - 1, at |-> 0]
        BY <2>2
      <4>2. r.list = k - 1 /\ r.at = 0
        BY <4>1
      <4>3. r.at + 1 = 1
        BY <4>2
      <4>4. QED
        BY <4>1, <4>2, <4>3
    <3>2. QED
      BY <3>1
  <2>4. Reconstructs
    BY <2>3, FirstShares DEF Reconstructs
  <2>5. result' = "plaintext"
    BY <1>4, <2>4 DEF Combine
  <2>6. QED
    BY <1>1, <2>1, <2>5
<1>5. CASE RefusalThrows
  <2>1. PICK k \in 1..T : replies[k] = Refusal /\ Len(replies) = T
    BY <1>5 DEF RefusalThrows, Answered, FirstUnusable
  <2>2. Refusal \in {Nothing, [list |-> k - 1, at |-> 0]}
    BY <1>0, <2>1 DEF CalmReplies
  <2>3. [list |-> k - 1, at |-> 0] \in [list : Nat, at : Nat]
    OBVIOUS
  <2>4. Refusal \notin [list : Nat, at : Nat]
    OBVIOUS
  <2>5. QED
    BY <2>2, <2>3, <2>4
<1>6. CASE Reinit \/ Reinited \/ NotEnough
  BY <1>0, <1>6 DEF Reinit, Reinited, NotEnough, CalmClients
<1>7. CASE GetDetails \/ Decrypt \/ ComputeDies \/ ComputeKilled
  BY <1>2, <1>7 DEF GetDetails, Decrypt, ComputeDies, ComputeKilled, Gone
<1>8. ASSUME NEW a \in Addrs,
             Join(a) \/ JoinRefused(a) \/ Listen(a) \/ CrashNode(a)
      PROVE  CalmReplies'
  BY <1>1, <1>8 DEF Join, JoinRefused, Listen, CrashNode, client
<1>9. CASE ComputeJoins \/ Walk \/ Started \/ Stopped \/ UNCHANGED vars
  BY <1>1, <1>9 DEF ComputeJoins, Walk, Started, Stopped, vars, client
<1>10. QED
  BY <1>3, <1>4, <1>5, <1>6, <1>7, <1>8, <1>9 DEF Next

\* While the order is kept, whatever the size and threshold, a decryption
\* ends with the plaintext if it ends: later crashes of CoFHE nodes and
\* restarts of the compute node lead to no other value and to no error.
THEOREM CalmDecryptionSound == Spec => []DecryptSound
<1>1. Init => IInv
  BY InitOK
<1>2. IInv /\ [Next]_vars => IInv'
  <2> SUFFICES ASSUME IInv, [Next]_vars PROVE IInv'
    OBVIOUS
  <2>1. Inv'
    BY InvStep DEF IInv
  <2>2. ASSUME InOrder' PROVE CalmInv'
    <3>1. Inv /\ CalmInv
      BY <2>2, CalmStays DEF IInv, Inv
    <3>2. QED
      BY <2>2, <3>1, CalmGrantsStep, CalmClientsStep, CalmRepliesStep DEF CalmInv
  <2>3. QED
    BY <2>1, <2>2 DEF IInv
<1>3. IInv => DecryptSound
  BY DEF IInv, InOrder, CalmInv, CalmReplies, DecryptSound
<1>4. QED
  BY <1>1, <1>2, <1>3, PTL DEF Spec

-----------------------------------------------------------------------------
(* The answers of the clients that are still connected.                    *)

\* An open connection leads to a node that runs, and what it has answered is
\* what it would answer now.
ConnsLive ==
  /\ \A k \in 1..Len(conns) : conns[k].open => Listening(conns[k].addr)
  /\ compute = "asking" =>
       \A k \in 1..Len(replies) :
         conns[k].open => replies[k] = PartialDecryption(conns[k].addr)

LEMMA ConnsLiveStep ==
  ASSUME TypeOK, ClientsEnough, ConnsLive, [Next]_vars PROVE ConnsLive'
<1> USE NetworkAssumption
<1>1. ASSUME UNCHANGED <<conns, replies, compute, share>>,
             \A k \in 1..Len(conns) : conns[k].open =>
                /\ slot'[conns[k].addr] = slot[conns[k].addr]
                /\ Listening(conns[k].addr)'
      PROVE  ConnsLive'
  <2>1. ASSUME NEW k \in 1..Len(replies), compute = "asking", conns[k].open
        PROVE  replies[k] = PartialDecryption(conns[k].addr)'
    <3>1. k \in 1..Len(conns)
      BY <2>1 DEF TypeOK, ClientsEnough
    <3>2. replies[k] = PartialDecryption(conns[k].addr)
      BY <2>1 DEF ConnsLive
    <3>3. QED
      BY <1>1, <2>1, <3>1, <3>2 DEF PartialDecryption, Shares
  <2>2. QED
    BY <1>1, <2>1 DEF ConnsLive
<1>2. ASSUME UNCHANGED cofhe, UNCHANGED conns, compute' # "asking" PROVE ConnsLive'
  BY <1>2 DEF ConnsLive, cofhe, Listening
<1>3. ASSUME UNCHANGED cofhe, UNCHANGED conns, replies' = <<>> PROVE ConnsLive'
  BY <1>3 DEF ConnsLive, cofhe, Listening
<1>4. ASSUME NEW a \in Addrs, Join(a) \/ JoinRefused(a) \/ Listen(a)
      PROVE  ConnsLive'
  <2>1. /\ UNCHANGED <<conns, replies, compute, share>>
        /\ proc[a] # "listening"
        /\ \A b \in Addrs \ {a} : proc'[b] = proc[b] /\ slot'[b] = slot[b]
    BY <1>4 DEF Join, Admits, JoinRefused, Listen, client, TypeOK
  <2>2. QED
    BY <1>1, <2>1 DEF ConnsLive, Listening
<1>5. ASSUME NEW a \in Addrs, CrashNode(a) PROVE ConnsLive'
  <2>1. /\ UNCHANGED <<replies, compute, share, slot>>
        /\ proc' = [proc EXCEPT ![a] = "down"]
        /\ conns' = [k \in 1..Len(conns) |->
                       [addr |-> conns[k].addr,
                        open |-> conns[k].open /\ conns[k].addr # a]]
    BY <1>5 DEF CrashNode, setup
  <2>2. Len(conns) \in Nat /\ proc \in [Addrs -> {"down", "joined", "listening", "refused"}]
    BY DEF TypeOK
  <2>3. Len(conns') = Len(conns)
    BY <2>1, <2>2
  <2>4. ASSUME NEW k \in 1..Len(conns)
        PROVE  /\ conns'[k].addr = conns[k].addr
               /\ conns'[k].open => conns[k].open /\ conns[k].addr # a
    <3>1. conns'[k] = [addr |-> conns[k].addr,
                       open |-> conns[k].open /\ conns[k].addr # a]
      BY <2>1
    <3>2. conns'[k].addr = conns[k].addr
      BY <3>1
    <3>3. conns'[k].open = (conns[k].open /\ conns[k].addr # a)
      BY <3>1
    <3>4. QED
      BY <3>2, <3>3
  <2>5. ASSUME NEW k \in 1..Len(conns'), conns'[k].open
        PROVE  Listening(conns[k].addr)'
    <3>1. /\ Listening(conns[k].addr)
          /\ conns[k].addr # a
          /\ conns'[k].addr = conns[k].addr
      BY <2>3, <2>4, <2>5 DEF ConnsLive
    <3>2. proc'[conns[k].addr] = proc[conns[k].addr]
      BY <2>1, <2>2, <3>1 DEF Listening
    <3>3. QED
      BY <3>1, <3>2 DEF Listening
  <2>6. ASSUME NEW k \in 1..Len(replies), compute = "asking", conns'[k].open
        PROVE  replies[k] = PartialDecryption(conns[k].addr)'
    <3>1. k \in 1..Len(conns)
      BY <2>6 DEF TypeOK, ClientsEnough
    <3>2. conns[k].open /\ conns'[k].addr = conns[k].addr
      BY <2>4, <2>6, <3>1
    <3>3. replies[k] = PartialDecryption(conns[k].addr)
      BY <2>6, <3>2 DEF ConnsLive
    <3>4. QED
      BY <2>1, <3>2, <3>3 DEF PartialDecryption, Shares
  <2>7. compute' = compute /\ replies' = replies
    BY <2>1
  <2>8. QED
    BY <2>5, <2>6, <2>7 DEF ConnsLive
<1>6. CASE Walk
  <2>1. PICK c : c = [addr |-> view[walk].addr, open |-> TRUE]
    OBVIOUS
  <2>2. /\ UNCHANGED cofhe /\ compute' # "asking"
        /\ \/ conns' = conns
           \/ Listening(c.addr) /\ conns' = Append(conns, c)
    BY <1>6, <2>1 DEF Walk, Connects
  <2>3. ASSUME Listening(c.addr), conns' = Append(conns, c)
        PROVE  \A k \in 1..Len(conns') : conns'[k].open => Listening(conns'[k].addr)
    <3>1. /\ Len(conns') = Len(conns) + 1
          /\ conns'[Len(conns) + 1] = c
          /\ \A k \in 1..Len(conns) : conns'[k] = conns[k]
          /\ Len(conns) \in Nat
      BY <2>3 DEF TypeOK
    <3>2. ASSUME NEW k \in 1..Len(conns'), conns'[k].open
          PROVE  Listening(conns'[k].addr)
      <4>1. CASE k = Len(conns) + 1
        BY <2>3, <3>1, <4>1
      <4>2. CASE k \in 1..Len(conns)
        BY <3>1, <3>2, <4>2 DEF ConnsLive
      <4>3. QED
        BY <3>1, <4>1, <4>2
    <3>3. QED
      BY <3>2
  <2>4. QED
    BY <2>2, <2>3 DEF ConnsLive, cofhe, Listening
<1>7. CASE Ask
  <2>1. PICK n, c, r : /\ n = Len(replies) + 1
                       /\ c = conns[n]
                       /\ r = IF c.open THEN PartialDecryption(c.addr) ELSE Nothing
    OBVIOUS
  <2>2. /\ UNCHANGED <<slot, proc, conns, share>>
        /\ replies' = Append(replies, r)
    BY <1>7, <2>1 DEF Ask, cofhe
  <2>3. /\ Len(replies) \in Nat
        /\ Len(replies') = n /\ replies'[n] = r
        /\ \A k \in 1..Len(replies) : replies'[k] = replies[k]
        /\ compute = "asking"
    BY <1>7, <2>1, <2>2 DEF TypeOK, Ask
  <2>4. ASSUME NEW k \in 1..Len(replies'), conns[k].open
        PROVE  replies'[k] = PartialDecryption(conns[k].addr)
    <3>1. CASE k = n
      BY <2>1, <2>3, <2>4, <3>1
    <3>2. CASE k \in 1..Len(replies)
      BY <2>3, <2>4, <3>2 DEF ConnsLive
    <3>3. QED
      BY <2>1, <2>3, <3>1, <3>2
  <2>5. QED
    BY <2>2, <2>4 DEF ConnsLive, Listening, PartialDecryption, Shares
<1>8. CASE GetDetails \/ Reinit \/ ComputeDies \/ ComputeKilled
  BY <1>8 DEF GetDetails, Reinit, ComputeDies, ComputeKilled, Gone, ConnsLive
<1>9. CASE ComputeJoins \/ Started \/ NotEnough \/ Combine \/ RefusalThrows
  BY <1>2, <1>9 DEF ComputeJoins, Started, NotEnough, Combine, RefusalThrows, client
<1>10. CASE Decrypt \/ Reinited
  BY <1>3, <1>10 DEF Decrypt, Reinited
<1>11. CASE Stopped \/ UNCHANGED vars
  BY <1>1, <1>11 DEF Stopped, vars, cofhe, client, ConnsLive, Listening
<1>12. QED
  BY <1>4, <1>5, <1>6, <1>7, <1>8, <1>9, <1>10, <1>11 DEF Next

\* With the share index of the start and the holders of the first T lists for
\* clients, still connected, a decryption gives the plaintext, whatever has
\* happened in the network before.
THEOREM FirstClientsDecryptAlways == Spec => []FirstClientsDecrypt
<1>1. Init => ConnsLive
  BY DEF Init, ConnsLive
<1>2. Inv /\ ConnsLive /\ [Next]_vars => ConnsLive'
  BY ConnsLiveStep DEF Inv
<1>3. Inv /\ ConnsLive => FirstClientsDecrypt
  <2> SUFFICES ASSUME Inv, ConnsLive, Answered, share = 0, ClientsAreFirst
               PROVE  Usable /\ Reconstructs
    BY DEF FirstClientsDecrypt
  <2> USE NetworkAssumption
  <2>1. ASSUME NEW k \in 1..T
        PROVE  replies[k] = [list |-> k - 1, at |-> 0]
    <3>1. /\ conns[k].open /\ slot[conns[k].addr] = k - 1
          /\ replies[k] = PartialDecryption(conns[k].addr)
      BY <2>1 DEF ClientsAreFirst, ConnsLive, Answered
    <3>2. Len(Shares[k - 1]) \in Nat \ {0}
      BY FirstShares DEF Parties
    <3>3. QED
      BY <3>1, <3>2 DEF PartialDecryption
  <2>2. Usable
    <3>1. \A k \in 1..T : [list |-> k - 1, at |-> 0] \in [list : Nat, at : Nat]
      OBVIOUS
    <3>2. QED
      BY <2>1, <3>1 DEF Usable
  <2>3. [k \in 1..T |-> Shares[replies[k].list][replies[k].at + 1]]
          = [k \in 1..T |-> Shares[k - 1][1]]
    <3>1. ASSUME NEW k \in 1..T
          PROVE  Shares[replies[k].list][replies[k].at + 1] = Shares[k - 1][1]
      <4>1. PICK r : r = replies[k] /\ r = [list |-> k - 1, at |-> 0]
        BY <2>1
      <4>2. r.list = k - 1 /\ r.at = 0
        BY <4>1
      <4>3. r.at + 1 = 1
        BY <4>2
      <4>4. QED
        BY <4>1, <4>2, <4>3
    <3>2. QED
      BY <3>1
  <2>4. QED
    BY <2>2, <2>3, FirstShares DEF Reconstructs
<1>4. QED
  BY <1>1, <1>2, <1>3, Invariant, PTL DEF Spec
=============================================================================

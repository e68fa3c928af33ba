------------------------- MODULE BeaverCacheProofs -------------------------
(***************************************************************************)
(* Proofs about the triplet cache, for every set of threads, every cache   *)
(* size and any number of calls, failures and restarts: the types, the     *)
(* conservation of triplets, the exactness of the refill, and that         *)
(* get_beavers_triplets never hands out a triplet twice (it implements     *)
(* TripletDispenser).                                                      *)
(***************************************************************************)
EXTENDS BeaverCache, TLAPS

(* The strengthening.  The invariants above are not inductive alone.       *)

\* Exactly the thread the mutex names is past the lock guard; a thread has a
\* call pending exactly when it is not idle; nothing runs in a dead process.
Protocol ==
  /\ \A t \in Threads : pc[t] \in Critical <=> mutex = t
  /\ \A t \in Threads : pc[t] = "idle" <=> want[t] = 0
  /\ \A t \in Threads : want[t] \in Sizes \cup {0}
  /\ ~up => \A t \in Threads : pc[t] = "idle"
  /\ (\A t \in Threads : pc[t] # "reply") => reply = <<>>

\* The cache and the request, seen from the thread that waits for the reply.
Exact ==
  /\ index <= Len(cache)
  /\ up => Len(cache) = CacheSize
  /\ ~up => cache = <<>> /\ index = 0
  /\ \A t \in Threads :
       pc[t] \in {"rpc", "reply"} =>
         /\ Remaining < want[t]
         /\ asked = want[t] + CacheSize - Remaining
  /\ \A t \in Threads : pc[t] = "reply" => Len(reply) = asked

\* No triplet stands twice in the cache or twice in the reply, and none is
\* one the trusted node has yet to generate.
Distinct ==
  /\ \A i, j \in 1..Len(cache) : cache[i] = cache[j] => i = j
  /\ \A i, j \in 1..Len(reply) : reply[i] = reply[j] => i = j
  /\ \A i \in 1..Len(cache) : cache[i] \in 1..dealt
  /\ \A i \in 1..Len(reply) : reply[i] \in 1..dealt

IInv == TypeOK /\ Protocol /\ Exact /\ Distinct /\ Conservation

-----------------------------------------------------------------------------
(* Sequences given by a function on 1..n.                                  *)

\* A function on 1..n is a sequence of length n.
LEMMA SeqDef ==
  ASSUME NEW n \in Nat, NEW s, s \in [1..n -> Nat]
  PROVE  s \in Seq(Nat) /\ Len(s) = n /\ DOMAIN s = 1..n
  OBVIOUS

\* A sequence is a function on 1..Len(s) with natural values.
LEMMA SeqUse ==
  ASSUME NEW s \in Seq(Nat)
  PROVE  /\ Len(s) \in Nat
         /\ s \in [1..Len(s) -> Nat]
         /\ s = <<>> <=> Len(s) = 0
  OBVIOUS

\* The empty sequence.
LEMMA EmptySeq ==
  <<>> \in Seq(Nat) /\ Len(<<>>) = 0
  OBVIOUS

-----------------------------------------------------------------------------
(* The initial state.                                                      *)

\* The cache init() fetched satisfies the invariant.
LEMMA InitInv == Init => IInv
<1> SUFFICES ASSUME Init PROVE IInv
  OBVIOUS
<1> USE CacheAssumption DEF Init
<1>1. cache \in [1..CacheSize -> Nat]
  OBVIOUS
<1>2. cache \in Seq(Nat) /\ Len(cache) = CacheSize
  BY <1>1, SeqDef
<1>3. TypeOK
  BY <1>2, EmptySeq DEF TypeOK
<1>4. Protocol
  BY DEF Protocol, Critical
<1>5. Exact
  BY <1>2 DEF Exact
<1>6. Distinct
  BY <1>2, EmptySeq DEF Distinct
<1>7. Stock = 1..CacheSize /\ InFlight = {}
  BY <1>2, EmptySeq DEF Stock, InFlight
<1>8. Conservation
  BY <1>7 DEF Conservation
<1>9. QED
  BY <1>3, <1>4, <1>5, <1>6, <1>8 DEF IInv

-----------------------------------------------------------------------------
(* One lemma per action.                                                   *)

\* The steps that move no triplet keep where the triplets are.
LEMMA NoTripletMoves ==
  ASSUME IInv, UNCHANGED <<store, reply, generated, spent, wasted>>
  PROVE  Conservation' /\ Distinct'
<1>1. Stock' = Stock /\ InFlight' = InFlight
  BY DEF Stock, InFlight, store
<1>2. Conservation'
  BY <1>1 DEF IInv, Conservation, generated
<1>3. Distinct'
  BY DEF IInv, Distinct, store, generated
<1>4. QED
  BY <1>2, <1>3

LEMMA CallInv ==
  ASSUME IInv, NEW t \in Threads, NEW n \in Sizes, Call(t, n)
  PROVE  IInv'
<1> USE CacheAssumption DEF Call, Counts, store, exchange, generated
<1>1. TypeOK'
  BY DEF IInv, TypeOK
<1>2. Protocol'
  BY DEF IInv, TypeOK, Protocol, Critical
<1>3. Exact'
  BY DEF IInv, TypeOK, Exact, Remaining
<1>4. Conservation' /\ Distinct'
  BY NoTripletMoves
<1>5. QED
  BY <1>1, <1>2, <1>3, <1>4 DEF IInv

LEMMA LockInv ==
  ASSUME IInv, NEW t \in Threads, Lock(t)
  PROVE  IInv'
<1> USE CacheAssumption DEF Lock, store, exchange, generated
<1>1. TypeOK'
  BY DEF IInv, TypeOK, Critical
<1>2. Protocol'
  BY DEF IInv, TypeOK, Protocol, Critical
<1>3. Exact'
  BY DEF IInv, TypeOK, Exact, Remaining
<1>4. Conservation' /\ Distinct'
  BY NoTripletMoves
<1>5. QED
  BY <1>1, <1>2, <1>3, <1>4 DEF IInv

LEMMA MissInv ==
  ASSUME IInv, NEW t \in Threads, Miss(t)
  PROVE  IInv'
<1> USE CacheAssumption DEF Miss, RequestSize, store, generated
<1>1. want[t] \in Nat /\ Remaining \in Nat /\ asked' \in Nat
  BY SeqUse DEF IInv, TypeOK, Exact, Remaining
<1>2. \A u \in Threads : pc[u] \in {"rpc", "reply"} => u = t
  BY DEF IInv, Protocol, Critical
<1>3. TypeOK'
  BY <1>1 DEF IInv, TypeOK, Critical
<1>4. Protocol'
  BY DEF IInv, TypeOK, Protocol, Critical
<1>5. Exact'
  BY <1>2 DEF IInv, TypeOK, Exact, Remaining
<1>6. Conservation' /\ Distinct'
  BY NoTripletMoves
<1>7. QED
  BY <1>3, <1>4, <1>5, <1>6 DEF IInv

LEMMA QuiescedInv ==
  ASSUME IInv, UNCHANGED vars
  PROVE  IInv'
<1> USE DEF vars, store, exchange, generated
<1>1. TypeOK' /\ Protocol'
  BY DEF IInv, TypeOK, Protocol
<1>2. Exact'
  BY DEF IInv, Exact, Remaining
<1>3. Conservation' /\ Distinct'
  BY NoTripletMoves
<1>4. QED
  BY <1>1, <1>2, <1>3 DEF IInv

LEMMA OtherInv ==
  ASSUME IInv, NEW n \in Sizes, OtherClientFetches(n)
  PROVE  IInv'
<1> USE CacheAssumption DEF OtherClientFetches, Counts, store, exchange
<1>1. dealt' \in Nat /\ dealt <= dealt' /\ dealt \in Nat
  BY DEF IInv, TypeOK
<1>2. TypeOK'
  BY <1>1 DEF IInv, TypeOK
<1>3. Protocol'
  BY DEF IInv, Protocol
<1>4. Exact'
  BY DEF IInv, Exact, Remaining
<1>5. Distinct'
  BY <1>1, SeqUse DEF IInv, TypeOK, Distinct
<1>6. Stock' = Stock /\ InFlight' = InFlight
  BY DEF Stock, InFlight
<1>7. Conservation'
  BY <1>6 DEF IInv, Conservation
<1>8. QED
  BY <1>2, <1>3, <1>4, <1>5, <1>7 DEF IInv

LEMMA ServeInv ==
  ASSUME IInv, NEW t \in Threads, Serve(t)
  PROVE  IInv'
<1> USE CacheAssumption DEF Serve, Generates, FreshBatch, store
<1>1. asked \in Nat /\ dealt \in Nat /\ dealt' \in Nat /\ dealt <= dealt'
  BY DEF IInv, TypeOK
<1>2. reply' \in [1..asked -> Nat]
  BY <1>1
<1>3. reply' \in Seq(Nat) /\ Len(reply') = asked
  BY <1>1, <1>2, SeqDef
<1>4. \A i \in 1..asked : reply'[i] = dealt + i
  BY <1>1
<1>5. reply = <<>>
  BY DEF IInv, Protocol, Critical
<1>6. \A u \in Threads : pc[u] \in Critical => u = t
  BY DEF IInv, Protocol, Critical
<1>7. TypeOK'
  <2>1. mine' \subseteq 1..dealt'
    BY <1>1 DEF IInv, TypeOK
  <2>2. QED
    BY <1>1, <1>3, <2>1 DEF IInv, TypeOK, Critical
<1>8. Protocol'
  BY DEF IInv, TypeOK, Protocol, Critical
<1>9. Exact'
  BY <1>3, <1>6 DEF IInv, TypeOK, Exact, Remaining, Critical
<1>10. Distinct'
  BY <1>1, <1>3, <1>4, SeqUse DEF IInv, TypeOK, Distinct
<1>11. Stock' = Stock /\ InFlight = {} /\ InFlight' = (dealt + 1)..dealt'
  <2>1. Stock' = Stock /\ InFlight = {}
    BY <1>5, EmptySeq DEF Stock, InFlight
  <2>2. InFlight' = {dealt + i : i \in 1..asked}
    BY <1>1, <1>3, <1>4 DEF InFlight
  <2>3. {dealt + i : i \in 1..asked} = (dealt + 1)..(dealt + asked)
    <3>1. ASSUME NEW x \in (dealt + 1)..(dealt + asked)
          PROVE  x \in {dealt + i : i \in 1..asked}
      <4>1. x - dealt \in 1..asked /\ x = dealt + (x - dealt)
        BY <1>1
      <4>2. QED
        BY <4>1
    <3>2. QED
      BY <1>1, <3>1
  <2>4. QED
    BY <2>1, <2>2, <2>3
<1>12. Stock \subseteq 1..dealt
  BY SeqUse DEF IInv, TypeOK, Exact, Distinct, Stock
<1>13. \A x \in InFlight' : x \notin 1..dealt
  BY <1>1, <1>11
<1>14. Conservation'
  BY <1>11, <1>12, <1>13 DEF IInv, TypeOK, Conservation
<1>15. QED
  BY <1>7, <1>8, <1>9, <1>10, <1>14 DEF IInv

\* A hit: the entries handed out leave the stock, and are all different.
LEMMA HitFacts ==
  ASSUME IInv, NEW t \in Threads, Hit(t)
  PROVE  LET b == FromCache(want[t])
             taken == {b[i] : i \in DOMAIN b}
         IN  /\ b \in Seq(Nat) /\ b \in [1..want[t] -> Nat]
             /\ \A i, j \in 1..want[t] : i # j => b[i] # b[j]
             /\ Stock = taken \cup Stock'
             /\ taken \cap Stock' = {}
             /\ index' \in Nat /\ index' <= Len(cache)
             /\ taken = {b[i] : i \in 1..want[t]}
<1> DEFINE b == FromCache(want[t])
           taken == {b[i] : i \in DOMAIN b}
<1>1. /\ want[t] \in Nat /\ index \in Nat /\ Len(cache) \in Nat
      /\ index + want[t] <= Len(cache)
      /\ index' = index + want[t]
      /\ cache' = cache
  BY SeqUse DEF IInv, TypeOK, Exact, Hit, Remaining
<1>2. cache \in [1..Len(cache) -> Nat]
  BY SeqUse DEF IInv, TypeOK
<1>3. \A i \in 1..want[t] : b[i] = cache[index + i] /\ index + i \in 1..Len(cache)
  BY <1>1 DEF FromCache
<1>4. b \in [1..want[t] -> Nat]
  BY <1>1, <1>2 DEF FromCache
<1>5. b \in Seq(Nat) /\ DOMAIN b = 1..want[t]
  BY <1>1, <1>4, SeqDef
<1>6. \A i, j \in 1..Len(cache) : cache[i] = cache[j] => i = j
  BY DEF IInv, Distinct
<1>7. \A i, j \in 1..want[t] : i # j => b[i] # b[j]
  BY <1>1, <1>3, <1>6
<1>8. Stock' = {cache[i] : i \in (index + want[t] + 1)..Len(cache)}
  BY <1>1 DEF Stock
<1>9. Stock = taken \cup Stock'
  <2>1. ASSUME NEW x \in Stock PROVE x \in taken \cup Stock'
    <3>1. PICK k \in (index + 1)..Len(cache) : x = cache[k]
      BY DEF Stock
    <3>2. CASE k <= index + want[t]
      <4>1. k - index \in 1..want[t] /\ b[k - index] = cache[k]
        BY <1>1, <1>3, <3>2
      <4>2. QED
        BY <1>5, <3>1, <4>1
    <3>3. CASE k > index + want[t]
      BY <1>1, <1>8, <3>1, <3>3
    <3>4. QED
      BY <1>1, <3>2, <3>3
  <2>2. taken \subseteq Stock
    <3>1. ASSUME NEW i \in 1..want[t] PROVE b[i] \in Stock
      <4>1. index + i \in (index + 1)..Len(cache)
        BY <1>1
      <4>2. QED
        BY <1>3, <4>1 DEF Stock
    <3>2. QED
      BY <1>5, <3>1
  <2>3. Stock' \subseteq Stock
    BY <1>1, <1>8 DEF Stock
  <2>4. QED
    BY <2>1, <2>2, <2>3
<1>10. taken \cap Stock' = {}
  <2>1. SUFFICES ASSUME NEW i \in 1..want[t],
                        NEW k \in (index + want[t] + 1)..Len(cache),
                        b[i] = cache[k]
                 PROVE  FALSE
    BY <1>5, <1>8
  <2>2. k \in 1..Len(cache) /\ index + i \in 1..Len(cache) /\ k # index + i
    BY <1>1
  <2>3. QED
    BY <1>3, <1>6, <2>1, <2>2
<1>11. QED
  BY <1>1, <1>4, <1>5, <1>7, <1>9, <1>10

LEMMA HitInv ==
  ASSUME IInv, NEW t \in Threads, Hit(t)
  PROVE  IInv'
<1> DEFINE b == FromCache(want[t])
           taken == {b[i] : i \in DOMAIN b}
<1>1. /\ b \in Seq(Nat)
      /\ Stock = taken \cup Stock'
      /\ taken \cap Stock' = {}
      /\ index' \in Nat /\ index' <= Len(cache)
  BY HitFacts
<1>2. spent' = spent \cup taken
  BY DEF Hit, Return
<1> HIDE DEF b, taken
<1>3. Stock \subseteq 1..dealt
  BY SeqUse DEF IInv, TypeOK, Exact, Distinct, Stock
<1>4. TypeOK'
  <2>1. spent' \subseteq 1..dealt'
    BY <1>1, <1>2, <1>3 DEF IInv, TypeOK, Hit, generated
  <2>2. got' = [got EXCEPT ![t] = b]
    BY DEF Hit, Return, b
  <2>3. got' \in [Threads -> Seq(Nat)]
    BY <1>1, <2>2 DEF IInv, TypeOK
  <2>4. QED
    BY <1>1, <2>1, <2>3 DEF IInv, TypeOK, Hit, Return, exchange, generated
<1>5. Protocol'
  BY CacheAssumption DEF IInv, TypeOK, Protocol, Critical, Hit, Return, exchange
<1>6. \A u \in Threads : pc'[u] \notin {"rpc", "reply"}
  BY DEF IInv, TypeOK, Protocol, Critical, Hit, Return
<1>7. Exact'
  BY <1>1, <1>6 DEF IInv, Exact, Hit, Protocol
<1>8. Distinct'
  BY DEF IInv, Distinct, Hit, exchange, generated
<1>9. InFlight' = InFlight
  BY DEF InFlight, Hit, exchange
<1>10. Conservation'
  BY <1>1, <1>2, <1>9 DEF IInv, Conservation, Hit, generated
<1>11. QED
  BY <1>4, <1>5, <1>7, <1>8, <1>10 DEF IInv

\* A refill: the remainder and the front of the reply are handed out, all
\* different, and the rest of the reply is the new cache, full.
LEMMA RefillFacts ==
  ASSUME IInv, NEW t \in Threads, Refill(t)
  PROVE  LET b == FromBoth(want[t])
             taken == {b[i] : i \in DOMAIN b}
         IN  /\ b \in Seq(Nat) /\ b \in [1..want[t] -> Nat]
             /\ \A i, j \in 1..want[t] : i # j => b[i] # b[j]
             /\ Stock \cup InFlight = taken \cup Stock'
             /\ taken \cap Stock' = {}
             /\ cache' \in Seq(Nat) /\ Len(cache') = CacheSize
             /\ \A i \in 1..CacheSize : cache'[i] \in 1..dealt
             /\ \A i, j \in 1..CacheSize : cache'[i] = cache'[j] => i = j
             /\ taken = {b[i] : i \in 1..want[t]}
<1> DEFINE b == FromBoth(want[t])
           taken == {b[i] : i \in DOMAIN b}
           n == want[t]
           r == Remaining
           k == n - r
<1>1. /\ n \in Nat /\ r \in Nat /\ r < n /\ CacheSize \in Nat
      /\ index \in Nat /\ Len(cache) \in Nat /\ index + r = Len(cache)
      /\ Len(reply) = k + CacheSize /\ k \in Nat /\ r + k = n
  <2>1. n \in Nat /\ index \in Nat /\ cache \in Seq(Nat) /\ asked \in Nat
    BY DEF IInv, TypeOK
  <2>2. Len(cache) \in Nat
    BY <2>1, SeqUse
  <2>3. pc[t] = "reply"
    BY DEF Refill
  <2>4. r < n /\ asked = n + CacheSize - r /\ Len(reply) = asked
        /\ index <= Len(cache)
    BY <2>3 DEF IInv, Exact
  <2>5. r \in Nat /\ index + r = Len(cache)
    BY <2>1, <2>2, <2>4 DEF Remaining
  <2> HIDE DEF n, r
  <2>6. QED
    BY CacheAssumption, <2>1, <2>2, <2>4, <2>5
<1>2. /\ cache \in [1..Len(cache) -> Nat] /\ reply \in [1..Len(reply) -> Nat]
      /\ index' = 0 /\ cache' = [i \in 1..CacheSize |-> reply[k + i]]
      /\ reply' = <<>>
  <2>1. cache' = [i \in 1..(Len(reply) - k) |-> reply[k + i]]
    BY DEF Refill, RestOfReply
  <2>2. Len(reply) - k = CacheSize
    BY <1>1
  <2>3. QED
    BY <2>1, <2>2, SeqUse DEF IInv, TypeOK, Refill
<1>3. \A i \in 1..n : /\ i <= r => b[i] = cache[index + i]
                      /\ i > r => b[i] = reply[i - r]
  BY <1>1 DEF FromBoth
<1> HIDE DEF n, r, k, b
<1>4. b \in [1..n -> Nat]
  <2>1. \A i \in 1..n : b[i] \in Nat
    <3>1. ASSUME NEW i \in 1..n PROVE b[i] \in Nat
      <4>1. CASE i <= r
        <5>1. index + i \in 1..Len(cache)
          BY <1>1, <4>1
        <5>2. QED
          BY <1>2, <1>3, <4>1, <5>1
      <4>2. CASE i > r
        <5>1. i - r \in 1..Len(reply)
          BY <1>1, <4>2
        <5>2. QED
          BY <1>2, <1>3, <4>2, <5>1
      <4>3. QED
        BY <1>1, <4>1, <4>2
    <3>2. QED
      BY <3>1
  <2>2. b = [i \in 1..n |-> b[i]]
    BY DEF b, FromBoth, n
  <2>3. QED
    BY <2>1, <2>2
<1>5. b \in Seq(Nat) /\ DOMAIN b = 1..n
  BY <1>1, <1>4, SeqDef
<1>6. /\ \A i, j \in 1..Len(cache) : cache[i] = cache[j] => i = j
      /\ \A i, j \in 1..Len(reply) : reply[i] = reply[j] => i = j
      /\ \A i \in 1..Len(reply) : reply[i] \in 1..dealt
      /\ Stock \cap InFlight = {}
  BY DEF IInv, Distinct, Conservation
<1>7. /\ \A i \in 1..r : index + i \in 1..Len(cache) /\ cache[index + i] \in Stock
      /\ \A i \in 1..Len(reply) : reply[i] \in InFlight
  <2>1. ASSUME NEW i \in 1..r
        PROVE  index + i \in 1..Len(cache) /\ cache[index + i] \in Stock
    <3>1. index + i \in 1..Len(cache) /\ index + i \in (index + 1)..Len(cache)
      BY <1>1
    <3>2. QED
      BY <3>1 DEF Stock
  <2>2. QED
    BY <2>1 DEF InFlight
<1>8. \A i, j \in 1..n : i # j => b[i] # b[j]
  <2>1. SUFFICES ASSUME NEW i \in 1..n, NEW j \in 1..n, i # j, b[i] = b[j]
                 PROVE  FALSE
    OBVIOUS
  <2>2. CASE i <= r /\ j <= r
    <3>1. i \in 1..r /\ j \in 1..r /\ index + i # index + j
      BY <1>1, <2>1, <2>2
    <3>2. b[i] = cache[index + i] /\ b[j] = cache[index + j]
      BY <1>3, <2>2
    <3>3. QED
      BY <1>6, <1>7, <2>1, <3>1, <3>2
  <2>3. CASE i > r /\ j > r
    <3>1. i - r \in 1..Len(reply) /\ j - r \in 1..Len(reply) /\ i - r # j - r
      BY <1>1, <2>1, <2>3
    <3>2. QED
      BY <1>3, <1>6, <2>1, <2>3, <3>1
  <2>4. CASE i <= r /\ j > r
    <3>1. i \in 1..r /\ j - r \in 1..Len(reply)
      BY <1>1, <2>4
    <3>2. b[i] \in Stock /\ b[j] \in InFlight
      BY <1>3, <1>7, <2>4, <3>1
    <3>3. QED
      BY <1>6, <2>1, <3>2
  <2>5. CASE i > r /\ j <= r
    <3>1. j \in 1..r /\ i - r \in 1..Len(reply)
      BY <1>1, <2>5
    <3>2. b[j] \in Stock /\ b[i] \in InFlight
      BY <1>3, <1>7, <2>5, <3>1
    <3>3. QED
      BY <1>6, <2>1, <3>2
  <2>6. QED
    BY <1>1, <2>2, <2>3, <2>4, <2>5
<1>9. cache' \in [1..CacheSize -> Nat] /\ \A i \in 1..CacheSize :
        k + i \in 1..Len(reply) /\ cache'[i] = reply[k + i]
  BY <1>1, <1>2
<1>10. cache' \in Seq(Nat) /\ Len(cache') = CacheSize
  BY <1>1, <1>9, SeqDef
<1>11. Stock' = {reply[i] : i \in (k + 1)..Len(reply)}
  <2>1. Stock' = {cache'[i] : i \in 1..CacheSize}
    BY <1>1, <1>2, <1>10 DEF Stock
  <2>2. ASSUME NEW i \in (k + 1)..Len(reply)
        PROVE  reply[i] \in Stock'
    <3>1. i - k \in 1..CacheSize /\ k + (i - k) = i
      BY <1>1
    <3>2. QED
      BY <1>9, <2>1, <3>1
  <2>3. ASSUME NEW i \in 1..CacheSize
        PROVE  cache'[i] \in {reply[j] : j \in (k + 1)..Len(reply)}
    <3>1. k + i \in (k + 1)..Len(reply)
      BY <1>1
    <3>2. QED
      BY <1>9, <3>1
  <2>4. QED
    BY <2>1, <2>2, <2>3
<1>12. taken = Stock \cup {reply[i] : i \in 1..k}
  <2>1. ASSUME NEW i \in 1..n
        PROVE  b[i] \in Stock \cup {reply[j] : j \in 1..k}
    <3>1. CASE i <= r
      BY <1>1, <1>3, <1>7, <3>1
    <3>2. CASE i > r
      <4>1. i - r \in 1..k
        BY <1>1, <3>2
      <4>2. QED
        BY <1>3, <3>2, <4>1
    <3>3. QED
      BY <1>1, <3>1, <3>2
  <2>2. ASSUME NEW x \in Stock PROVE x \in taken
    <3>1. PICK m \in (index + 1)..Len(cache) : x = cache[m]
      BY DEF Stock
    <3>2. m - index \in 1..n /\ m - index <= r /\ index + (m - index) = m
      BY <1>1
    <3>3. QED
      BY <1>3, <1>5, <3>1, <3>2
  <2>3. ASSUME NEW i \in 1..k PROVE reply[i] \in taken
    <3>1. r + i \in 1..n /\ r + i > r /\ (r + i) - r = i
      BY <1>1
    <3>2. b[r + i] = reply[i]
      BY <1>3, <3>1
    <3>3. QED
      BY <1>5, <3>1, <3>2
  <2>4. QED
    BY <1>5, <2>1, <2>2, <2>3
<1>13. Stock \cup InFlight = taken \cup Stock'
  <2>1. InFlight = {reply[i] : i \in 1..k} \cup Stock'
    BY <1>1, <1>11 DEF InFlight
  <2>2. QED
    BY <1>12, <2>1
<1>14. taken \cap Stock' = {}
  <2>1. Stock' \subseteq InFlight
    BY <1>1, <1>11 DEF InFlight
  <2>2. {reply[i] : i \in 1..k} \cap Stock' = {}
    <3>1. SUFFICES ASSUME NEW i \in 1..k, NEW j \in (k + 1)..Len(reply),
                          reply[i] = reply[j]
                   PROVE  FALSE
      BY <1>11
    <3>2. i \in 1..Len(reply) /\ j \in 1..Len(reply) /\ i # j
      BY <1>1
    <3>3. QED
      BY <1>6, <3>1, <3>2
  <2>3. QED
    BY <1>6, <1>12, <2>1, <2>2
<1>15. /\ \A i \in 1..CacheSize : cache'[i] \in 1..dealt
       /\ \A i, j \in 1..CacheSize : cache'[i] = cache'[j] => i = j
  BY <1>1, <1>6, <1>9
<1>16. QED
  BY <1>4, <1>5, <1>8, <1>10, <1>13, <1>14, <1>15 DEF b, n

LEMMA RefillInv ==
  ASSUME IInv, NEW t \in Threads, Refill(t)
  PROVE  IInv'
<1> DEFINE b == FromBoth(want[t])
           taken == {b[i] : i \in DOMAIN b}
<1>1. /\ b \in Seq(Nat)
      /\ Stock \cup InFlight = taken \cup Stock'
      /\ taken \cap Stock' = {}
      /\ cache' \in Seq(Nat) /\ Len(cache') = CacheSize
      /\ \A i \in 1..CacheSize : cache'[i] \in 1..dealt
      /\ \A i, j \in 1..CacheSize : cache'[i] = cache'[j] => i = j
  BY RefillFacts
<1>2. spent' = spent \cup taken /\ got' = [got EXCEPT ![t] = b]
  BY DEF Refill, Return
<1> HIDE DEF b, taken
<1>3. Stock \cup InFlight \subseteq 1..dealt
  BY SeqUse DEF IInv, TypeOK, Exact, Distinct, Stock, InFlight
<1>4. TypeOK'
  <2>1. spent' \subseteq 1..dealt'
    BY <1>1, <1>2, <1>3 DEF IInv, TypeOK, Refill, generated
  <2>2. got' \in [Threads -> Seq(Nat)]
    BY <1>1, <1>2 DEF IInv, TypeOK
  <2>3. QED
    BY <1>1, <2>1, <2>2, EmptySeq DEF IInv, TypeOK, Refill, Return, generated
<1>5. Protocol'
  BY CacheAssumption DEF IInv, TypeOK, Protocol, Critical, Refill, Return
<1>6. \A u \in Threads : pc'[u] \notin {"rpc", "reply"}
  BY DEF IInv, TypeOK, Protocol, Critical, Refill, Return
<1>7. up' = TRUE /\ index' = 0
  BY DEF IInv, TypeOK, Protocol, Refill
<1>8. Exact'
  BY <1>1, <1>6, <1>7, CacheAssumption DEF Exact
<1>9. reply' = <<>> /\ dealt' = dealt
  BY DEF Refill, generated
<1>10. Distinct'
  BY <1>1, <1>9, EmptySeq DEF Distinct
<1>11. InFlight' = {}
  BY <1>9, EmptySeq DEF InFlight
<1>12. Conservation'
  BY <1>1, <1>2, <1>11 DEF IInv, Conservation, Refill, generated
<1>13. QED
  BY <1>4, <1>5, <1>8, <1>10, <1>12 DEF IInv

LEMMA CallFailsInv ==
  ASSUME IInv, NEW t \in Threads, CallFails(t)
  PROVE  IInv'
<1> USE CacheAssumption DEF CallFails, Counts, Unwind, store, generated
<1>1. reply' = <<>>
  OBVIOUS
<1>2. InFlight \subseteq 1..dealt
  BY DEF IInv, Distinct, InFlight
<1>3. TypeOK'
  BY <1>2, EmptySeq DEF IInv, TypeOK
<1>4. Protocol'
  BY DEF IInv, TypeOK, Protocol, Critical
<1>5. \A u \in Threads : pc'[u] \notin {"rpc", "reply"}
  BY DEF IInv, TypeOK, Protocol, Critical
<1>6. Exact'
  BY <1>5 DEF IInv, Exact
<1>7. Distinct'
  BY <1>1, EmptySeq DEF IInv, Distinct
<1>8. Stock' = Stock /\ InFlight' = {}
  BY <1>1, EmptySeq DEF Stock, InFlight
<1>9. Conservation'
  BY <1>8 DEF IInv, Conservation
<1>10. QED
  BY <1>3, <1>4, <1>6, <1>7, <1>9 DEF IInv

LEMMA CrashInv ==
  ASSUME IInv, NEW t \in Threads, Crash(t)
  PROVE  IInv'
<1> USE CacheAssumption DEF Crash, Counts, generated
<1>1. reply' = <<>> /\ cache' = <<>> /\ index' = 0 /\ up' = FALSE
  OBVIOUS
<1>2. Stock \cup InFlight \subseteq 1..dealt
  BY SeqUse DEF IInv, TypeOK, Exact, Distinct, Stock, InFlight
<1>3. TypeOK'
  <2>1. wasted' \subseteq 1..dealt'
    BY <1>2 DEF IInv, TypeOK
  <2>2. pc' \in [Threads -> {"idle", "waiting"} \cup Critical]
        /\ want' \in [Threads -> Nat]
    BY DEF Critical
  <2>3. cache' \in Seq(Nat) /\ reply' \in Seq(Nat)
    BY <1>1, EmptySeq
  <2>4. up' \in BOOLEAN
    BY <1>1
  <2>5. /\ got' \in [Threads -> Seq(Nat)] /\ mutex' \in Threads \cup {Nobody}
        /\ index' \in Nat /\ asked' \in Nat /\ dealt' \in Nat
        /\ mine' \subseteq 1..dealt' /\ spent' \subseteq 1..dealt'
        /\ events' \in Nat
    BY DEF IInv, TypeOK
  <2>6. QED
    BY <2>1, <2>2, <2>3, <2>4, <2>5 DEF TypeOK
<1>4. Protocol'
  BY DEF IInv, TypeOK, Protocol, Critical
<1>5. Exact'
  BY <1>1, EmptySeq DEF Exact
<1>6. Distinct'
  BY <1>1, EmptySeq DEF Distinct
<1>7. Stock' = {} /\ InFlight' = {}
  BY <1>1, EmptySeq DEF Stock, InFlight
<1>8. Conservation'
  BY <1>7 DEF IInv, Conservation
<1>9. QED
  BY <1>3, <1>4, <1>5, <1>6, <1>8 DEF IInv

LEMMA RestartInv ==
  ASSUME IInv, Restart
  PROVE  IInv'
<1> USE CacheAssumption DEF Restart, Generates, FreshBatch, exchange
<1>1. /\ dealt \in Nat /\ dealt' = dealt + CacheSize
      /\ cache = <<>> /\ index = 0 /\ index' = 0
      /\ mutex = Nobody \/ mutex \in Threads
      /\ up' = TRUE
      /\ \A t \in Threads : pc[t] = "idle"
      /\ reply = <<>> /\ reply' = <<>>
  BY DEF IInv, TypeOK, Protocol, Exact
<1>2. cache' \in [1..CacheSize -> Nat]
  BY <1>1
<1>3. cache' \in Seq(Nat) /\ Len(cache') = CacheSize
  BY <1>2, SeqDef
<1>4. \A i \in 1..CacheSize : cache'[i] = dealt + i
  BY <1>1
<1>5. TypeOK'
  <2>1. mine' \subseteq 1..dealt'
    BY <1>1 DEF IInv, TypeOK
  <2>2. spent' \subseteq 1..dealt' /\ wasted' \subseteq 1..dealt'
    BY <1>1 DEF IInv, TypeOK
  <2>3. QED
    BY <1>1, <1>3, <2>1, <2>2 DEF IInv, TypeOK
<1>6. Protocol'
  BY <1>1 DEF IInv, Protocol
<1>7. Exact'
  BY <1>1, <1>3 DEF Exact
<1>8. Distinct'
  BY <1>1, <1>3, <1>4, EmptySeq DEF Distinct
<1>9. Stock = {} /\ InFlight = {} /\ InFlight' = {}
  BY <1>1, EmptySeq DEF Stock, InFlight
<1>10. Stock' = (dealt + 1)..(dealt + CacheSize)
  <2>1. Stock' = {dealt + i : i \in 1..CacheSize}
    BY <1>1, <1>3, <1>4 DEF Stock
  <2>2. ASSUME NEW x \in (dealt + 1)..(dealt + CacheSize)
        PROVE  x \in {dealt + i : i \in 1..CacheSize}
    <3>1. x - dealt \in 1..CacheSize /\ x = dealt + (x - dealt)
      BY <1>1
    <3>2. QED
      BY <3>1
  <2>3. QED
    BY <1>1, <2>1, <2>2
<1>11. \A x \in Stock' : x \notin 1..dealt
  BY <1>1, <1>10
<1>12. Conservation'
  BY <1>1, <1>9, <1>10, <1>11 DEF IInv, TypeOK, Conservation
<1>13. QED
  BY <1>5, <1>6, <1>7, <1>8, <1>12 DEF IInv

-----------------------------------------------------------------------------
(* The invariant holds throughout, and what follows from it.               *)

LEMMA StepInv == IInv /\ [Next]_vars => IInv'
<1> SUFFICES ASSUME IInv, [Next]_vars PROVE IInv'
  OBVIOUS
<1>1. ASSUME NEW t \in Threads, NEW n \in Sizes, Call(t, n) PROVE IInv'
  BY <1>1, CallInv
<1>2. ASSUME NEW t \in Threads, Lock(t) PROVE IInv'
  BY <1>2, LockInv
<1>3. ASSUME NEW t \in Threads, Hit(t) PROVE IInv'
  BY <1>3, HitInv
<1>4. ASSUME NEW t \in Threads, Miss(t) PROVE IInv'
  BY <1>4, MissInv
<1>5. ASSUME NEW t \in Threads, Serve(t) PROVE IInv'
  BY <1>5, ServeInv
<1>6. ASSUME NEW t \in Threads, Refill(t) PROVE IInv'
  BY <1>6, RefillInv
<1>7. ASSUME NEW t \in Threads, CallFails(t) PROVE IInv'
  BY <1>7, CallFailsInv
<1>8. ASSUME NEW t \in Threads, Crash(t) PROVE IInv'
  BY <1>8, CrashInv
<1>9. CASE Restart
  BY <1>9, RestartInv
<1>10. ASSUME NEW n \in Sizes, OtherClientFetches(n) PROVE IInv'
  BY <1>10, OtherInv
<1>11. CASE Quiesced \/ UNCHANGED vars
  BY <1>11, QuiescedInv DEF Quiesced
<1>12. QED
  BY <1>1, <1>2, <1>3, <1>4, <1>5, <1>6, <1>7, <1>8, <1>9, <1>10, <1>11
     DEF Next

THEOREM Invariant == Spec => []IInv
<1>1. QED
  BY InitInv, StepInv, PTL DEF Spec

\* The state keeps its shape, whatever calls, failures and restarts occur.
THEOREM TypeCorrect == Spec => []TypeOK
<1>1. IInv => TypeOK
  BY DEF IInv
<1>2. QED
  BY <1>1, Invariant, PTL

\* No triplet generated for this node is ever in two places or in none.
THEOREM TripletsConserved == Spec => []Conservation
<1>1. IInv => Conservation
  BY DEF IInv
<1>2. QED
  BY <1>1, Invariant, PTL

\* The reply always completes the call and refills the cache exactly.
THEOREM RefillExact == Spec => []ReplyFitsCache
<1>1. IInv => ReplyFitsCache
  <2> SUFFICES ASSUME IInv PROVE ReplyFitsCache
    OBVIOUS
  <2>1. index \in Nat /\ Len(cache) \in Nat
    BY SeqUse DEF IInv, TypeOK
  <2>2. ASSUME NEW t \in Threads, pc[t] = "reply"
        PROVE  Len(reply) + Remaining = want[t] + CacheSize /\ Remaining < want[t]
    <3>1. want[t] \in Nat /\ Remaining \in Nat
      BY <2>1 DEF IInv, TypeOK, Exact, Remaining
    <3>2. Len(reply) = want[t] + CacheSize - Remaining /\ Remaining < want[t]
      BY <2>2 DEF IInv, Exact
    <3>3. QED
      BY <3>1, <3>2, CacheAssumption
  <2>3. up => Len(cache) = CacheSize /\ index <= CacheSize
    BY DEF IInv, Exact
  <2>4. QED
    BY <2>2, <2>3 DEF ReplyFitsCache
<1>2. QED
  BY <1>1, Invariant, PTL

-----------------------------------------------------------------------------
(* The refinement.                                                         *)

LEMMA DispenserInit == Init => Dispenser!Init
<1>1. QED
  BY DEF Init, Dispenser!Init

\* A call that ends with batch b, as the dispenser sees it.
LEMMA ReturnDispenses ==
  ASSUME IInv, NEW t \in Threads, pc[t] # "idle", NEW b,
         b \in [1..want[t] -> Nat],
         \A i, j \in 1..want[t] : i # j => b[i] # b[j],
         {b[i] : i \in 1..want[t]} \subseteq Stock \cup InFlight,
         Return(t, b)
  PROVE  Dispenser!Dispense(t)
<1>1. want[t] # 0 /\ got'[t] = b /\ DOMAIN b = 1..want[t]
  BY DEF IInv, TypeOK, Protocol, Return
<1>2. \A i \in 1..want[t] : b[i] \notin spent
  BY DEF IInv, Conservation
<1>3. Dispenser!IsFreshBatch(b, want[t])
  BY <1>2 DEF Dispenser!IsFreshBatch
<1>4. QED
  BY <1>1, <1>3 DEF Dispenser!Dispense, Return

LEMMA DispenserStep ==
  IInv /\ [Next]_vars => [Dispenser!Next]_(Dispenser!abstractVars)
<1> SUFFICES ASSUME IInv, [Next]_vars
             PROVE  Dispenser!Next \/ UNCHANGED Dispenser!abstractVars
  OBVIOUS
<1> USE DEF Dispenser!abstractVars
<1>1. ASSUME NEW t \in Threads, NEW n \in Sizes, Call(t, n)
      PROVE  Dispenser!Ask(t, n)
  BY <1>1 DEF IInv, Protocol, Call, Dispenser!Ask
<1>2. ASSUME NEW t \in Threads, Lock(t) \/ Miss(t) \/ Serve(t)
      PROVE  UNCHANGED Dispenser!abstractVars
  BY <1>2 DEF Lock, Miss, Serve
<1>3. ASSUME NEW t \in Threads, Hit(t)
      PROVE  Dispenser!Dispense(t)
  BY <1>3, HitFacts, ReturnDispenses DEF Hit
<1>4. ASSUME NEW t \in Threads, Refill(t)
      PROVE  Dispenser!Dispense(t)
  BY <1>4, RefillFacts, ReturnDispenses DEF Refill
<1>5. ASSUME NEW t \in Threads, CallFails(t)
      PROVE  Dispenser!Abandon(t)
  BY <1>5 DEF IInv, Protocol, CallFails, Unwind, Dispenser!Abandon
<1>6. ASSUME NEW t \in Threads, Crash(t)
      PROVE  Dispenser!CrashAll
  BY <1>6 DEF Crash, Dispenser!CrashAll
<1>7. CASE Restart
  BY <1>7 DEF Restart
<1>8. ASSUME NEW n \in Sizes, OtherClientFetches(n)
      PROVE  UNCHANGED Dispenser!abstractVars
  BY <1>8 DEF OtherClientFetches
<1>9. CASE Quiesced \/ UNCHANGED vars
  BY <1>9 DEF Quiesced, vars
<1>10. QED
  BY <1>1, <1>2, <1>3, <1>4, <1>5, <1>6, <1>7, <1>8, <1>9
     DEF Next, Dispenser!Next

\* get_beavers_triplets implements the dispenser: no triplet is handed out
\* twice, whatever the interleaving of the threads and wherever a refill, a
\* failed request or a restart falls.
THEOREM DispensesFreshTriplets == Spec => DispensesFresh
<1>1. QED
  BY DispenserInit, DispenserStep, Invariant, PTL
     DEF Spec, DispensesFresh, Dispenser!Spec

=============================================================================

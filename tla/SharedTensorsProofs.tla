------------------------- MODULE SharedTensorsProofs -------------------------
(***************************************************************************)
(* Proofs about SharedPtr and WeakPtr, and about tensors, which use them.  *)
(*                                                                         *)
(* For any threads, pointers and blocks the counts are exact, no counting  *)
(* pointer sees its object destroyed or its block freed, nothing leaks,    *)
(* and an object is destroyed twice only after releases have overlapped.   *)
(* Whatever is done with tensors, for any shapes and any number of them,   *)
(* their storages obey what is proved of SharedPtr, and each way to walk,  *)
(* read and write them finds what is meant exactly where SharedTensors says. *)
(*                                                                         *)
(* The views take up the most: first the arithmetic of spans and indices,  *)
(* then where a view has its elements, what each way of reaching them      *)
(* finds, which views the operations make, and at the end the invariant.   *)
(***************************************************************************)
EXTENDS SharedTensors, FiniteSetTheorems, SequenceTheorems, WellFoundedInduction, TLAPS

(* The strengthening.                                                      *)

\* What p counts for: nothing once it has been decremented.
Held(p) == IF Releasing(p) THEN Null ELSE block[p]

\* A release is of pointers of its thread, and knows where it is: the old object
\* is there until its deleter has been called, and then no more.
Protocol ==
  \A t \in Threads : pc[t] # NoRelease =>
    LET r == pc[t] IN
    /\ Owner[r.of] = t /\ Owner[r.from] = t
    /\ r.at = "deleter" => block[r.of] # Null
    /\ r.at = "take" => block[r.of] = Null /\ r.use # "drop"
    /\ r.use # "drop" => r.of # r.from
    /\ r.use = "move" => (r.of \in Handles <=> r.from \in Handles)
    /\ r.use = "copy" => Source(r.from, r.of)

\* What the counts say of the object and of the block.
Alive ==
  \A b \in Blocks :
    /\ count[b] > 0 => state[b] = "live" /\ destroyed[b] = 0
    /\ weak[b] > 0 => state[b] = "live"
    /\ state[b] = "fresh" => destroyed[b] = 0
    /\ state[b] = "freed" => destroyed[b] > 0

\* No pointer is to memory that was never allocated.
Allocated == \A p \in Pointers : block[p] # Null => state[block[p]] # "fresh"

\* A block whose releases never overlapped has, at the end, one release to
\* come and its object whole, or none.
Orderly ==
  \A b \in Blocks :
    state[b] # "fresh" /\ count[b] = 0 /\ b \notin overlapped =>
      /\ weak[b] = 0
      /\ destroyed[b] < 2
      /\ \A p, q \in Pending(b) : p = q /\ destroyed[b] = 0

PInv ==
  /\ PTypeOK /\ Protocol /\ Counted /\ Alive /\ Allocated
  /\ NoLeak /\ Orderly

-----------------------------------------------------------------------------
(* Counting.                                                               *)

\* Every pointer counts for a block or for nothing.
LEMMA HeldType ==
  ASSUME PTypeOK, NEW p \in Pointers
  PROVE  Held(p) \in Blocks \cup {Null}
  BY DEF Held, PTypeOK

\* The sets of counting pointers are finite, whatever the state.
LEMMA CountingFinite ==
  ASSUME NEW b, NEW P \in {Handles, WeakHandles}
  PROVE  /\ IsFiniteSet(Counting(P, b))
         /\ Cardinality(Counting(P, b)) \in Nat
<1>1. IsFiniteSet(P)
  BY PointersAssumption
<1>2. Counting(P, b) \subseteq P
  BY DEF Counting
<1> QED BY <1>1, <1>2, FS_Subset, FS_CardinalityType

\* The pointers that count for a block are the ones that hold it.
LEMMA CountingHeld ==
  ASSUME NEW b \in Blocks, NEW P
  PROVE  Counting(P, b) = {p \in P : Held(p) = b}
  BY PointersAssumption DEF Counting, Held

LEMMA CountingHeldPrime ==
  ASSUME NEW b \in Blocks, NEW P
  PROVE  Counting(P, b)' = {p \in P : Held(p)' = b}
  BY PointersAssumption DEF Counting, Held

\* Nothing to count changes.
LEMMA Keeps ==
  ASSUME Counted, UNCHANGED <<count, weak>>,
         \A p \in Pointers : Held(p)' = Held(p)
  PROVE  Counted'
<1> SUFFICES ASSUME NEW b \in Blocks
             PROVE  /\ count'[b] = Cardinality(Counting(Handles, b)')
                    /\ weak'[b] = Cardinality(Counting(WeakHandles, b)')
  BY DEF Counted
<1>1. \A P \in {Handles, WeakHandles} : Counting(P, b)' = Counting(P, b)
  BY CountingHeld, CountingHeldPrime DEF Pointers
<1> QED BY <1>1 DEF Counted

\* A pointer that held nothing is made to hold a block, and counted.
LEMMA Gains ==
  ASSUME PTypeOK, Counted, NEW p \in Pointers, NEW b \in Blocks,
         Held(p) = Null, Held(p)' = b,
         \A q \in Pointers \ {p} : Held(q)' = Held(q),
         Increment(p, b)
  PROVE  Counted'
<1> SUFFICES ASSUME NEW c \in Blocks
             PROVE  /\ count'[c] = Cardinality(Counting(Handles, c)')
                    /\ weak'[c] = Cardinality(Counting(WeakHandles, c)')
  BY DEF Counted
<1> USE PointersAssumption
<1>1. ASSUME NEW P \in {Handles, WeakHandles}
      PROVE  Counting(P, c)' = IF p \in P /\ c = b THEN Counting(P, c) \cup {p}
                                                    ELSE Counting(P, c)
  <2>1. /\ Counting(P, c) = {q \in P : Held(q) = c}
        /\ Counting(P, c)' = {q \in P : Held(q)' = c}
    BY CountingHeld, CountingHeldPrime
  <2>2. \A q \in P : q \in Pointers
    BY DEF Pointers
  <2> QED BY <2>1, <2>2
<1>2. \A P : p \notin Counting(P, c)
  BY CountingHeld
<1>3. \A P \in {Handles, WeakHandles} :
        Cardinality(Counting(P, c) \cup {p}) = Cardinality(Counting(P, c)) + 1
  BY <1>2, CountingFinite, FS_AddElement
<1>4. /\ count[c] = Cardinality(Counting(Handles, c))
      /\ weak[c] = Cardinality(Counting(WeakHandles, c))
  BY DEF Counted
<1>5. count \in [Blocks -> Nat] /\ weak \in [Blocks -> Nat]
  BY DEF PTypeOK
<1>6. CASE p \in Handles
  <2>1. count'[c] = (IF c = b THEN count[c] + 1 ELSE count[c]) /\ weak' = weak
    BY <1>5, <1>6 DEF Increment
  <2>2. p \notin WeakHandles
    BY <1>6
  <2> QED BY <2>1, <2>2, <1>1, <1>3, <1>4, <1>6
<1>7. CASE p \notin Handles
  <2>1. weak'[c] = (IF c = b THEN weak[c] + 1 ELSE weak[c]) /\ count' = count
    BY <1>5, <1>7 DEF Increment
  <2>2. p \in WeakHandles
    BY <1>7 DEF Pointers
  <2> QED BY <2>1, <2>2, <1>1, <1>3, <1>4, <1>7
<1> QED BY <1>6, <1>7

\* A pointer lets go of its block, and is no longer counted.
LEMMA Loses ==
  ASSUME PTypeOK, Counted, NEW p \in Pointers, NEW b \in Blocks,
         Held(p) = b, Held(p)' = Null,
         \A q \in Pointers \ {p} : Held(q)' = Held(q),
         Decrement(p, b)
  PROVE  Counted'
<1> SUFFICES ASSUME NEW c \in Blocks
             PROVE  /\ count'[c] = Cardinality(Counting(Handles, c)')
                    /\ weak'[c] = Cardinality(Counting(WeakHandles, c)')
  BY DEF Counted
<1> USE PointersAssumption
<1>1. ASSUME NEW P \in {Handles, WeakHandles}
      PROVE  Counting(P, c)' = IF p \in P /\ c = b THEN Counting(P, c) \ {p}
                                                    ELSE Counting(P, c)
  <2>1. /\ Counting(P, c) = {q \in P : Held(q) = c}
        /\ Counting(P, c)' = {q \in P : Held(q)' = c}
    BY CountingHeld, CountingHeldPrime
  <2>2. \A q \in P : q \in Pointers
    BY DEF Pointers
  <2> QED BY <2>1, <2>2
<1>2. \A P : p \in P /\ c = b => p \in Counting(P, c)
  BY CountingHeld
<1>3. \A P \in {Handles, WeakHandles} : p \in P /\ c = b =>
        Cardinality(Counting(P, c) \ {p}) = Cardinality(Counting(P, c)) - 1
  BY <1>2, CountingFinite, FS_RemoveElement
<1>4. /\ count[c] = Cardinality(Counting(Handles, c))
      /\ weak[c] = Cardinality(Counting(WeakHandles, c))
  BY DEF Counted
<1>5. count \in [Blocks -> Nat] /\ weak \in [Blocks -> Nat]
  BY DEF PTypeOK
<1>6. CASE p \in Handles
  <2>1. count'[c] = (IF c = b THEN count[c] - 1 ELSE count[c]) /\ weak' = weak
    BY <1>5, <1>6 DEF Decrement
  <2>2. p \notin WeakHandles
    BY <1>6
  <2> QED BY <2>1, <2>2, <1>1, <1>3, <1>4, <1>6
<1>7. CASE p \notin Handles
  <2>1. weak'[c] = (IF c = b THEN weak[c] - 1 ELSE weak[c]) /\ count' = count
    BY <1>5, <1>7 DEF Decrement
  <2>2. p \in WeakHandles
    BY <1>7 DEF Pointers
  <2> QED BY <2>1, <2>2, <1>1, <1>3, <1>4, <1>7
<1> QED BY <1>6, <1>7

\* A pointer hands its block to one of its kind that held nothing.
LEMMA Shifts ==
  ASSUME Counted, NEW p \in Pointers, NEW q \in Pointers, NEW b \in Blocks,
         p \in Handles <=> q \in Handles,
         Held(p) = Null, Held(p)' = b, Held(q) = b, Held(q)' = Null,
         \A r \in Pointers \ {p, q} : Held(r)' = Held(r),
         UNCHANGED <<count, weak>>
  PROVE  Counted'
<1> SUFFICES ASSUME NEW c \in Blocks, NEW P \in {Handles, WeakHandles}
             PROVE  Cardinality(Counting(P, c)') = Cardinality(Counting(P, c))
  BY DEF Counted
<1> USE PointersAssumption
<1>0. /\ Counting(P, c) = {r \in P : Held(r) = c}
      /\ Counting(P, c)' = {r \in P : Held(r)' = c}
      /\ \A r \in P : r \in Pointers
      /\ p \in P <=> q \in P
  BY CountingHeld, CountingHeldPrime DEF Pointers
<1>1. CASE p \in P /\ c = b
  <2>1. q \in Counting(P, c) /\ p \notin Counting(P, c)
    BY <1>0, <1>1
  <2>2. Counting(P, c)' = (Counting(P, c) \ {q}) \cup {p}
    BY <1>0, <1>1
  <2>3. /\ IsFiniteSet(Counting(P, c) \ {q})
        /\ Cardinality(Counting(P, c) \ {q}) = Cardinality(Counting(P, c)) - 1
    BY <2>1, CountingFinite, FS_RemoveElement
  <2>4. Cardinality((Counting(P, c) \ {q}) \cup {p})
          = Cardinality(Counting(P, c) \ {q}) + 1
    BY <2>1, <2>3, FS_AddElement
  <2> QED BY <2>2, <2>3, <2>4, CountingFinite
<1>2. CASE ~(p \in P /\ c = b)
  <2>1. Counting(P, c)' = Counting(P, c)
    BY <1>0, <1>2
  <2> QED BY <2>1
<1> QED BY <1>1, <1>2

-----------------------------------------------------------------------------
(* What the invariant says of one pointer.                                 *)

\* A pointer that counts for a block finds it live, and, a SharedPtr, its object
\* whole.
LEMMA HeldLive ==
  ASSUME PInv, NEW p \in Pointers, Held(p) # Null
  PROVE  /\ Held(p) \in Blocks /\ Held(p) = block[p]
         /\ state[Held(p)] = "live"
         /\ p \in Handles => count[Held(p)] > 0 /\ destroyed[Held(p)] = 0
         /\ p \in WeakHandles => weak[Held(p)] > 0
<1> DEFINE b == Held(p)
<1>1. b \in Blocks /\ b = block[p]
  BY HeldType DEF PInv, Held
<1>2. ASSUME NEW P \in {Handles, WeakHandles}, p \in P
      PROVE  Cardinality(Counting(P, b)) > 0
  <2>1. p \in Counting(P, b)
    BY <1>1, <1>2, CountingHeld
  <2> QED BY <2>1, CountingFinite, FS_EmptySet
<1>3. p \in Handles => count[b] > 0
  BY <1>1, <1>2 DEF PInv, Counted
<1>4. p \in WeakHandles => weak[b] > 0
  BY <1>1, <1>2 DEF PInv, Counted
<1> QED BY <1>1, <1>3, <1>4 DEF PInv, Alive, Pointers

\* Of an idle thread no pointer is being released.
LEMMA IdleHeld ==
  ASSUME NEW p \in Pointers, Idle(Owner[p])
  PROVE  ~Releasing(p) /\ Held(p) = block[p] /\ Owner[p] \in Threads
  BY PointersAssumption DEF Idle, Releasing, Held

\* A new block counts nothing and no pointer is to it.
LEMMA FreshBlock ==
  ASSUME PInv, NEW b \in Blocks, state[b] = "fresh"
  PROVE  /\ count[b] = 0 /\ weak[b] = 0 /\ destroyed[b] = 0
         /\ \A p \in Pointers : block[p] # b
<1>1. count[b] \in Nat /\ weak[b] \in Nat
  BY DEF PInv, PTypeOK
<1>2. \A p \in Pointers : block[p] # b
  BY PointersAssumption DEF PInv, Allocated
<1> QED BY <1>1, <1>2 DEF PInv, Alive

\* The initial state satisfies the invariant.
LEMMA InitPInv == PInit => PInv
<1> SUFFICES ASSUME PInit PROVE PInv
  OBVIOUS
<1> USE PointersAssumption DEF PInit
<1>1. PTypeOK
  BY DEF PTypeOK
<1>2. \A P, b : b \in Blocks => Counting(P, b) \cap Pointers = {}
  BY DEF Counting
<1>3. \A b \in Blocks : Counting(Handles, b) = {} /\ Counting(WeakHandles, b) = {}
  BY DEF Counting, Pointers
<1>4. Counted
  BY <1>3, FS_EmptySet DEF Counted
<1>5. Protocol /\ Alive /\ Allocated /\ NoLeak /\ Orderly
  BY DEF Protocol, Alive, Allocated, NoLeak, Orderly
<1> QED BY <1>1, <1>4, <1>5 DEF PInv

-----------------------------------------------------------------------------
(* Each step keeps the invariant.                                          *)

\* The first pointer to a new object.
LEMMA MakeInv ==
  ASSUME PInv, NEW h \in Handles, NEW b \in Blocks, Make(h, b)
  PROVE  PInv'
<1> USE DEF Pointers
<1>1. /\ h \in Pointers /\ Idle(Owner[h]) /\ block[h] = Null /\ state[b] = "fresh"
      /\ block' = [block EXCEPT ![h] = b]
      /\ count' = [count EXCEPT ![b] = 1]
      /\ state' = [state EXCEPT ![b] = "live"]
      /\ UNCHANGED <<weak, destroyed, pc, overlapped>>
  BY DEF Make
<1>2. PTypeOK
  BY DEF PInv
<1>3. PTypeOK'
  BY <1>1, <1>2 DEF PTypeOK
<1>4. \A p \in Pointers : Releasing(p)' = Releasing(p)
  BY <1>1 DEF Releasing
<1>5. ~Releasing(h) /\ Owner[h] \in Threads
  BY <1>1, IdleHeld
<1>6. \A p \in Pointers : block'[p] = IF p = h THEN b ELSE block[p]
  BY <1>1, <1>2 DEF PTypeOK
<1>7. /\ count[b] = 0 /\ weak[b] = 0 /\ destroyed[b] = 0
      /\ \A p \in Pointers : block[p] # b
  BY <1>1, FreshBlock
<1>8. Counted'
  <2>1. Held(h) = Null /\ Held(h)' = b
    BY <1>1, <1>4, <1>5, <1>6 DEF Held
  <2>2. \A q \in Pointers \ {h} : Held(q)' = Held(q)
    BY <1>4, <1>6 DEF Held
  <2>3. Increment(h, b)
    BY <1>1, <1>2, <1>7 DEF Increment, PTypeOK
  <2> HIDE DEF Pointers
  <2> QED BY <1>1, <1>2, <2>1, <2>2, <2>3, Gains DEF PInv
<1>9. Protocol'
  BY <1>1, <1>5, <1>6, PointersAssumption DEF PInv, Protocol, Idle, PTypeOK, Release
<1>10. \A c \in Blocks :
         /\ count'[c] = IF c = b THEN 1 ELSE count[c]
         /\ state'[c] = IF c = b THEN "live" ELSE state[c]
         /\ weak'[c] = weak[c] /\ destroyed'[c] = destroyed[c]
  BY <1>1, <1>2 DEF PTypeOK
<1>11. Alive'
  BY <1>7, <1>10 DEF PInv, Alive
<1>12. Allocated'
  BY <1>3, <1>6, <1>10, PointersAssumption DEF PInv, Allocated, PTypeOK
<1>13. \A c \in Blocks : c # b => Pending(c)' = Pending(c)
  BY <1>4, <1>6, <1>1, PointersAssumption DEF Pending
<1>14. NoLeak'
  BY <1>10, <1>13 DEF PInv, NoLeak
<1>15. Orderly'
  BY <1>1, <1>10, <1>13 DEF PInv, Orderly
<1> QED BY <1>3, <1>8, <1>9, <1>11, <1>12, <1>14, <1>15 DEF PInv

\* What copying does to the invariant, of whichever kind and from wherever: p
\* held nothing, q holds b, and p is made to hold it, too.
LEMMA GainInv ==
  ASSUME PInv, NEW p \in Pointers, NEW q \in Pointers, NEW b \in Blocks,
         Source(q, p), Held(q) = b, block[p] = Null,
         block' = [block EXCEPT ![p] = b], Increment(p, b),
         ~Releasing(p), \A r \in Pointers : Releasing(r)' = Releasing(r),
         UNCHANGED <<state, destroyed, overlapped>>, PTypeOK', Protocol'
  PROVE  PInv'
<1>1. PTypeOK
  BY DEF PInv
<1>2. \A r \in Pointers : block'[r] = IF r = p THEN b ELSE block[r]
  BY <1>1 DEF PTypeOK
<1>3. Counted'
  <2>1. Held(p) = Null /\ Held(p)' = b
    BY <1>2 DEF Held
  <2>2. \A r \in Pointers \ {p} : Held(r)' = Held(r)
    BY <1>2 DEF Held
  <2> QED BY <1>1, <2>1, <2>2, Gains DEF PInv
<1>4. /\ state[b] = "live"
      /\ p \in Handles => count[b] > 0 /\ destroyed[b] = 0
      /\ count[b] > 0 \/ weak[b] > 0
  BY HeldLive, PointersAssumption DEF Source, Pointers
<1>5. \A c \in Blocks :
        /\ count'[c] = IF c = b /\ p \in Handles THEN count[c] + 1 ELSE count[c]
        /\ weak'[c] = IF c = b /\ p \notin Handles THEN weak[c] + 1 ELSE weak[c]
        /\ count[c] \in Nat /\ weak[c] \in Nat
  BY <1>1 DEF PTypeOK, Increment
<1>6. Alive'
  BY <1>4, <1>5 DEF PInv, Alive
<1>7. Allocated'
  BY <1>2, <1>4 DEF PInv, Allocated
<1>8. \A c \in Blocks : Pending(c)' = Pending(c)
  BY <1>2, PointersAssumption DEF Pending
<1>9. NoLeak'
  BY <1>4, <1>5, <1>8 DEF PInv, NoLeak
<1>10. Orderly'
  BY <1>4, <1>5, <1>8 DEF PInv, Orderly
<1> QED BY <1>3, <1>6, <1>7, <1>9, <1>10 DEF PInv

\* The copy constructors.
LEMMA CopyInv ==
  ASSUME PInv, NEW p \in Pointers, NEW q \in Pointers, Source(q, p), CopyInto(q, p)
  PROVE  PInv'
<1>1. /\ ~Releasing(p) /\ ~Releasing(q) /\ Held(q) = block[q] /\ Owner[p] \in Threads
      /\ block[p] = Null /\ block[q] # Null /\ Idle(Owner[p])
      /\ block' = [block EXCEPT ![p] = block[q]]
      /\ Increment(p, block[q])
      /\ UNCHANGED <<state, destroyed, pc, overlapped>>
  BY IdleHeld DEF CopyInto
<1>2. PTypeOK /\ block[q] \in Blocks
  BY <1>1 DEF PInv, PTypeOK
<1>3. PTypeOK'
  BY <1>1, <1>2 DEF PTypeOK, Increment
<1>4. Protocol'
  BY <1>1, <1>2, PointersAssumption DEF PInv, Protocol, Idle, PTypeOK, Release
<1>5. \A r \in Pointers : Releasing(r)' = Releasing(r)
  BY <1>1 DEF Releasing
<1> QED BY <1>1, <1>2, <1>3, <1>4, <1>5, GainInv

\* What moving does: p held nothing and gets what q held.
LEMMA ShiftInv ==
  ASSUME PInv, NEW p \in Pointers, NEW q \in Pointers, NEW b \in Blocks,
         p # q, p \in Handles <=> q \in Handles, Held(q) = b, block[p] = Null,
         block' = [block EXCEPT ![p] = b, ![q] = Null],
         ~Releasing(p), \A r \in Pointers : Releasing(r)' = Releasing(r),
         UNCHANGED <<count, weak, state, destroyed, overlapped>>, PTypeOK', Protocol'
  PROVE  PInv'
<1>1. PTypeOK
  BY DEF PInv
<1>2. \A r \in Pointers :
        block'[r] = IF r = q THEN Null ELSE IF r = p THEN b ELSE block[r]
  BY <1>1 DEF PTypeOK
<1>3. ~Releasing(q) /\ b # Null /\ block[q] = b
  BY PointersAssumption DEF Held
<1>4. Counted'
  <2>1. Held(p) = Null /\ Held(p)' = b /\ Held(q)' = Null
    BY <1>2, <1>3 DEF Held
  <2>2. \A r \in Pointers \ {p, q} : Held(r)' = Held(r)
    BY <1>2 DEF Held
  <2> QED BY <2>1, <2>2, Shifts DEF PInv
<1>5. state[b] = "live"
  BY HeldLive, PointersAssumption
<1>6. Alive'
  BY DEF PInv, Alive
<1>7. Allocated'
  BY <1>2, <1>5 DEF PInv, Allocated
<1>8. \A c \in Blocks : Pending(c)' = Pending(c)
  BY <1>2, <1>3, PointersAssumption DEF Pending
<1>9. NoLeak' /\ Orderly'
  BY <1>8 DEF PInv, NoLeak, Orderly
<1> QED BY <1>4, <1>6, <1>7, <1>9 DEF PInv

\* The move constructors.
LEMMA MoveInv ==
  ASSUME PInv, NEW p \in Pointers, NEW q \in Pointers, Move(q, p)
  PROVE  PInv'
<1>1. /\ ~Releasing(p) /\ ~Releasing(q) /\ Held(q) = block[q]
      /\ Owner[p] \in Threads /\ Owner[q] \in Threads
      /\ block[p] = Null /\ block[q] # Null /\ Idle(Owner[p]) /\ Idle(Owner[q])
      /\ p \in Handles <=> q \in Handles
      /\ block' = [block EXCEPT ![p] = block[q], ![q] = Null]
      /\ UNCHANGED <<count, weak, state, destroyed, pc, overlapped>>
  BY IdleHeld DEF Move
<1>2. PTypeOK /\ block[q] \in Blocks
  BY <1>1 DEF PInv, PTypeOK
<1>3. PTypeOK'
  BY <1>1, <1>2 DEF PTypeOK
<1>4. Protocol'
  BY <1>1, <1>2, PointersAssumption DEF PInv, Protocol, Idle, PTypeOK, Release
<1>5. \A r \in Pointers : Releasing(r)' = Releasing(r)
  BY <1>1 DEF Releasing
<1> QED BY <1>1, <1>2, <1>3, <1>4, <1>5, ShiftInv

\* The first half of a release: p is decremented, and its thread goes on to the
\* deleter.
LEMMA StartReleaseInv ==
  ASSUME PInv, NEW p \in Pointers, NEW q \in Pointers,
         NEW use \in {"drop", "copy", "move"}, Owner[q] = Owner[p],
         use # "drop" => q # p,
         use = "move" => (p \in Handles <=> q \in Handles),
         use = "copy" => Source(q, p),
         StartRelease(p, use, q)
  PROVE  PInv'
<1> DEFINE b == block[p]
           t == Owner[p]
           r == [at |-> "deleter", of |-> p, use |-> use, from |-> q]
<1>1. /\ ~Releasing(p) /\ Held(p) = b /\ t \in Threads /\ b # Null /\ Idle(t)
      /\ Decrement(p, b)
      /\ pc' = [pc EXCEPT ![t] = r]
      /\ overlapped' = IF p \in Handles /\ count[b] = 1 /\ (Pending(b) # {} \/ weak[b] > 0)
                       THEN overlapped \cup {b} ELSE overlapped
      /\ UNCHANGED <<block, state, destroyed>>
  BY IdleHeld DEF StartRelease
<1>2. /\ PTypeOK /\ b \in Blocks /\ state[b] = "live"
      /\ p \in Handles => count[b] > 0 /\ destroyed[b] = 0
      /\ p \notin Handles => weak[b] > 0
  BY <1>1, HeldLive DEF PInv, Pointers
<1>3. \A c \in Blocks :
        /\ count'[c] = IF c = b /\ p \in Handles THEN count[c] - 1 ELSE count[c]
        /\ weak'[c] = IF c = b /\ p \notin Handles THEN weak[c] - 1 ELSE weak[c]
        /\ count[c] \in Nat /\ weak[c] \in Nat
  BY <1>1, <1>2 DEF PTypeOK, Decrement
<1>4. PTypeOK'
  <2>1. count' \in [Blocks -> Nat]
    BY <1>1, <1>2, <1>3 DEF PTypeOK, Decrement
  <2>2. weak' \in [Blocks -> Nat]
    BY <1>1, <1>2, <1>3 DEF PTypeOK, Decrement
  <2>3. r \in Release
    BY DEF Release
  <2>4. pc' \in [Threads -> Release \cup {NoRelease}]
    BY <1>1, <1>2, <2>3 DEF PTypeOK
  <2>5. overlapped' \subseteq Blocks
    BY <1>1, <1>2 DEF PTypeOK
  <2> QED BY <1>1, <1>2, <2>1, <2>2, <2>4, <2>5 DEF PTypeOK
<1>5. \A s \in Threads : pc'[s] = IF s = t THEN r ELSE pc[s]
  BY <1>1, <1>2 DEF PTypeOK
<1>6. r # NoRelease /\ r.at = "deleter" /\ r.of = p /\ r.use = use /\ r.from = q
  BY DEF NoRelease
<1> HIDE DEF r
<1>7. Protocol'
  <2> SUFFICES ASSUME NEW s \in Threads, pc'[s] # NoRelease
               PROVE  LET x == pc'[s] IN
                      /\ Owner[x.of] = s /\ Owner[x.from] = s
                      /\ x.at = "deleter" => block'[x.of] # Null
                      /\ x.at = "take" => block'[x.of] = Null /\ x.use # "drop"
                      /\ x.use # "drop" => x.of # x.from
                      /\ x.use = "move" => (x.of \in Handles <=> x.from \in Handles)
                      /\ x.use = "copy" => Source(x.from, x.of)
    BY DEF Protocol
  <2>1. CASE s = t
    BY <2>1, <1>1, <1>5, <1>6
  <2>2. CASE s # t
    BY <2>2, <1>1, <1>5 DEF PInv, Protocol
  <2> QED BY <2>1, <2>2
<1>8. \A x \in Pointers : Releasing(x)' <=> x = p \/ Releasing(x)
  BY <1>1, <1>5, <1>6, PointersAssumption DEF Releasing, Idle
<1>9. Counted'
  <2>1. Held(p)' = Null /\ \A x \in Pointers \ {p} : Held(x)' = Held(x)
    BY <1>1, <1>8 DEF Held
  <2> QED BY <1>1, <1>2, <2>1, Loses DEF PInv
<1>10. Alive'
  BY <1>1, <1>3 DEF PInv, Alive
<1>11. Allocated'
  BY <1>1 DEF PInv, Allocated
<1>12. \A c \in Blocks : Pending(c)' = IF c = b THEN Pending(c) \cup {p} ELSE Pending(c)
  BY <1>1, <1>8 DEF Pending
<1>13. NoLeak'
  BY <1>1, <1>3, <1>12 DEF PInv, NoLeak
<1>14. Orderly'
  <2> SUFFICES ASSUME NEW c \in Blocks, state[c] # "fresh", count'[c] = 0,
                      c \notin overlapped'
               PROVE  /\ weak'[c] = 0 /\ destroyed[c] < 2
                      /\ \A x, y \in Pending(c)' : x = y /\ destroyed[c] = 0
    BY <1>1 DEF Orderly
  <2>1. CASE c # b
    BY <2>1, <1>1, <1>3, <1>12 DEF PInv, Orderly
  <2>2. CASE c = b /\ p \in Handles
    BY <2>2, <1>1, <1>2, <1>3, <1>12
  <2>3. CASE c = b /\ p \notin Handles
    BY <2>3, <1>1, <1>2, <1>3 DEF PInv, Orderly
  <2> QED BY <2>1, <2>2, <2>3
<1> QED BY <1>4, <1>7, <1>9, <1>10, <1>11, <1>13, <1>14 DEF PInv

\* operator=, up to its decrement or, when there is nothing to let go of, up to
\* the taking.
LEMMA AssignInv ==
  ASSUME PInv, NEW p \in Pointers, NEW q \in Pointers,
         NEW use \in {"copy", "move"},
         use = "move" => (p \in Handles <=> q \in Handles),
         use = "copy" => Source(q, p),
         Assign(q, p, use)
  PROVE  PInv'
<1>1. Owner[q] = Owner[p] /\ q # p
  BY DEF Assign
<1>2. CASE block[p] # Null
  BY <1>1, <1>2, StartReleaseInv DEF Assign
<1>3. CASE block[p] = Null
  <2> DEFINE t == Owner[p]
             r == [at |-> "take", of |-> p, use |-> use, from |-> q]
  <2>1. /\ ~Releasing(p) /\ t \in Threads /\ Idle(t)
        /\ pc' = [pc EXCEPT ![t] = r]
        /\ UNCHANGED <<block, count, weak, state, destroyed, overlapped>>
    BY <1>3, IdleHeld DEF Assign
  <2>2. PTypeOK
    BY DEF PInv
  <2>3. /\ r \in Release /\ r # NoRelease
        /\ r.at = "take" /\ r.of = p /\ r.use = use /\ r.from = q
    BY DEF Release, NoRelease
  <2> HIDE DEF r
  <2>4. PTypeOK'
    BY <2>1, <2>2, <2>3 DEF PTypeOK
  <2>5. \A s \in Threads : pc'[s] = IF s = t THEN r ELSE pc[s]
    BY <2>1, <2>2 DEF PTypeOK
  <2>6. Protocol'
    <3> SUFFICES ASSUME NEW s \in Threads, pc'[s] # NoRelease
                 PROVE  LET x == pc'[s] IN
                        /\ Owner[x.of] = s /\ Owner[x.from] = s
                        /\ x.at = "deleter" => block'[x.of] # Null
                        /\ x.at = "take" => block'[x.of] = Null /\ x.use # "drop"
                        /\ x.use # "drop" => x.of # x.from
                        /\ x.use = "move" => (x.of \in Handles <=> x.from \in Handles)
                        /\ x.use = "copy" => Source(x.from, x.of)
      BY DEF Protocol
    <3>1. CASE s = t
      BY <3>1, <1>1, <1>3, <2>1, <2>3, <2>5
    <3>2. CASE s # t
      BY <3>2, <2>1, <2>5 DEF PInv, Protocol
    <3> QED BY <3>1, <3>2
  <2>7. \A x \in Pointers : Releasing(x)' <=> Releasing(x)
    BY <2>1, <2>3, <2>5, PointersAssumption DEF Releasing, Idle
  <2>8. \A c \in Blocks : Pending(c)' = Pending(c)
    BY <2>1, <2>7 DEF Pending
  <2>9. Counted'
    <3>1. \A x \in Pointers : Held(x)' = Held(x)
      BY <2>1, <2>7 DEF Held
    <3> QED BY <2>1, <3>1, Keeps DEF PInv
  <2>10. Alive' /\ Allocated' /\ NoLeak' /\ Orderly'
    BY <2>1, <2>8 DEF PInv, Alive, Allocated, NoLeak, Orderly
  <2> QED BY <2>4, <2>6, <2>9, <2>10 DEF PInv
<1> QED BY <1>2, <1>3

\* The taking: p gets what the source holds, and the thread is done.
LEMMA TakeInv ==
  ASSUME PInv, NEW t \in Threads, Take(t)
  PROVE  PInv'
<1> DEFINE p == pc[t].of
           q == pc[t].from
           b == block[q]
<1>1. /\ pc[t] # NoRelease /\ pc[t].at = "take"
      /\ pc' = [pc EXCEPT ![t] = NoRelease]
      /\ UNCHANGED <<state, destroyed, overlapped>>
  BY DEF Take
<1>2. PTypeOK
  BY DEF PInv
<1>3. /\ p \in Pointers /\ q \in Pointers /\ Owner[p] = t /\ Owner[q] = t
      /\ block[p] = Null /\ p # q
      /\ pc[t].use \in {"copy", "move"}
      /\ pc[t].use = "move" => (p \in Handles <=> q \in Handles)
  BY <1>1, <1>2 DEF PTypeOK, Release, PInv, Protocol
<1>4. \A s \in Threads : pc'[s] = IF s = t THEN NoRelease ELSE pc[s]
  BY <1>1, <1>2 DEF PTypeOK
<1>5. \A x \in Pointers : Releasing(x)' = Releasing(x)
  BY <1>1, <1>4, PointersAssumption DEF Releasing
<1>6. ~Releasing(p) /\ ~Releasing(q) /\ Held(q) = b /\ b \in Blocks \cup {Null}
  BY <1>1, <1>2, <1>3 DEF Releasing, Held, PTypeOK
<1>7. \A s \in Threads \ {t} : pc[s] # NoRelease => pc[s].of # p /\ pc[s].of # q
  BY <1>3 DEF PInv, Protocol
<1>8. CASE b = Null
  <2>1. UNCHANGED <<block, count, weak>>
    <3>1. \A x \in Pointers : block[x] = IF x = q THEN Null ELSE IF x = p THEN b ELSE block[x]
      BY <1>3, <1>8
    <3>2. block' = block
      BY <1>2, <1>3, <1>8, <3>1 DEF Take, PTypeOK
    <3> QED BY <1>8, <3>2 DEF Take
  <2>2. PTypeOK'
    BY <1>1, <1>2, <1>4, <2>1 DEF PTypeOK
  <2>3. Protocol'
    BY <1>4, <2>1 DEF PInv, Protocol
  <2>4. \A c \in Blocks : Pending(c)' = Pending(c)
    BY <1>5, <2>1 DEF Pending
  <2>5. Counted'
    <3>1. \A x \in Pointers : Held(x)' = Held(x)
      BY <1>5, <2>1 DEF Held
    <3> QED BY <2>1, <3>1, Keeps DEF PInv
  <2>6. Alive' /\ Allocated' /\ NoLeak' /\ Orderly'
    BY <1>1, <2>1, <2>4 DEF PInv, Alive, Allocated, NoLeak, Orderly
  <2> QED BY <2>2, <2>3, <2>5, <2>6 DEF PInv
<1>9. CASE b # Null /\ pc[t].use = "move"
  <2>1. block' = [block EXCEPT ![p] = b, ![q] = Null] /\ UNCHANGED <<count, weak>>
    BY <1>9 DEF Take
  <2>2. PTypeOK'
    BY <1>1, <1>2, <1>6, <2>1 DEF PTypeOK
  <2>3. \A x \in Pointers :
          block'[x] = IF x = q THEN Null ELSE IF x = p THEN b ELSE block[x]
    BY <1>2, <2>1 DEF PTypeOK
  <2>4. Protocol'
    BY <1>2, <1>4, <1>7, <2>3 DEF PInv, Protocol, PTypeOK, Release
  <2>5. b \in Blocks /\ UNCHANGED <<count, weak, state, destroyed, overlapped>>
    BY <1>1, <1>6, <1>9, <2>1
  <2> HIDE DEF p, q, b
  <2> QED BY <1>3, <1>5, <1>6, <1>9, <2>1, <2>2, <2>4, <2>5, ShiftInv
<1>10. CASE b # Null /\ pc[t].use = "copy"
  <2>1. block' = [block EXCEPT ![p] = b] /\ Increment(p, b)
    BY <1>10 DEF Take
  <2>2. PTypeOK'
    <3>1. b \in Blocks /\ block' \in [Pointers -> Blocks \cup {Null}]
      BY <1>2, <1>3, <1>6, <1>10, <2>1 DEF PTypeOK
    <3>2. count' \in [Blocks -> Nat] /\ weak' \in [Blocks -> Nat]
      BY <1>2, <2>1, <3>1 DEF PTypeOK, Increment
    <3>3. pc' \in [Threads -> Release \cup {NoRelease}]
      BY <1>1, <1>2 DEF PTypeOK
    <3> QED BY <1>1, <1>2, <3>1, <3>2, <3>3 DEF PTypeOK
  <2>3. \A x \in Pointers : block'[x] = IF x = p THEN b ELSE block[x]
    BY <1>2, <2>1 DEF PTypeOK
  <2>4. Protocol'
    BY <1>2, <1>4, <1>7, <2>3 DEF PInv, Protocol, PTypeOK, Release
  <2>5. Source(q, p)
    BY <1>1, <1>10 DEF PInv, Protocol
  <2>6. b \in Blocks /\ UNCHANGED <<state, destroyed, overlapped>>
    BY <1>1, <1>6, <1>10
  <2> HIDE DEF p, q, b
  <2> QED BY <1>3, <1>5, <1>6, <2>1, <2>2, <2>4, <2>5, <2>6, GainInv
<1> QED BY <1>3, <1>8, <1>9, <1>10

\* The deleter: p is done with its block, which may go.
LEMMA CallDeleterInv ==
  ASSUME PInv, NEW t \in Threads, CallDeleter(t)
  PROVE  PInv'
<1> DEFINE p == pc[t].of
           b == block[p]
           r == IF pc[t].use = "drop" THEN NoRelease ELSE [pc[t] EXCEPT !.at = "take"]
<1>1. /\ pc[t] # NoRelease /\ pc[t].at = "deleter"
      /\ block' = [block EXCEPT ![p] = Null]
      /\ pc' = [pc EXCEPT ![t] = r]
      /\ UNCHANGED <<count, weak, overlapped>>
  BY DEF CallDeleter, Destroys, Frees
<1>2. PTypeOK
  BY DEF PInv
<1>3. pc[t] \in Release
  BY <1>1, <1>2 DEF PTypeOK
<1>4. /\ p \in Pointers /\ Owner[p] = t /\ b \in Blocks /\ state[b] # "fresh"
      /\ Releasing(p)
  BY <1>1, <1>2, <1>3 DEF PTypeOK, Release, PInv, Protocol, Allocated, Releasing
<1>5. \/ /\ state[b] = "live"
         /\ destroyed' = IF count[b] = 0
                         THEN [destroyed EXCEPT ![b] = IF @ = 0 THEN 1 ELSE 2]
                         ELSE destroyed
         /\ state' = IF count[b] = 0 /\ weak[b] = 0
                     THEN [state EXCEPT ![b] = "freed"] ELSE state
      \/ /\ state[b] = "freed"
         /\ destroyed' \in {destroyed, [destroyed EXCEPT ![b] = IF @ = 0 THEN 1 ELSE 2]}
         /\ state' = state
  BY DEF CallDeleter, Destroys, Frees
<1>6. /\ r \in Release \cup {NoRelease}
      /\ r # NoRelease =>
           /\ r.at = "take" /\ r.of = p /\ r.from = pc[t].from
           /\ r.use = pc[t].use /\ r.use # "drop"
  BY <1>3 DEF Release, NoRelease
<1>7. \A s \in Threads : pc'[s] = IF s = t THEN r ELSE pc[s]
  BY <1>1, <1>2 DEF PTypeOK
<1>8. \A x \in Pointers : block'[x] = IF x = p THEN Null ELSE block[x]
  BY <1>1, <1>2 DEF PTypeOK
<1> HIDE DEF r
<1>9. PTypeOK'
  <2>1. block' \in [Pointers -> Blocks \cup {Null}]
    BY <1>1, <1>2 DEF PTypeOK
  <2>2. pc' \in [Threads -> Release \cup {NoRelease}]
    BY <1>1, <1>2, <1>6 DEF PTypeOK
  <2>3. destroyed' \in [Blocks -> 0..2]
    BY <1>2, <1>5 DEF PTypeOK
  <2>4. state' \in [Blocks -> {"fresh", "live", "freed"}]
    BY <1>2, <1>5 DEF PTypeOK
  <2> QED BY <1>1, <1>2, <2>1, <2>2, <2>3, <2>4 DEF PTypeOK
<1>10. Protocol'
  <2> SUFFICES ASSUME NEW s \in Threads, pc'[s] # NoRelease
               PROVE  LET x == pc'[s] IN
                      /\ Owner[x.of] = s /\ Owner[x.from] = s
                      /\ x.at = "deleter" => block'[x.of] # Null
                      /\ x.at = "take" => block'[x.of] = Null /\ x.use # "drop"
                      /\ x.use # "drop" => x.of # x.from
                      /\ x.use = "move" => (x.of \in Handles <=> x.from \in Handles)
                      /\ x.use = "copy" => Source(x.from, x.of)
    BY DEF Protocol
  <2>1. CASE s = t
    BY <2>1, <1>1, <1>4, <1>6, <1>7, <1>8 DEF PInv, Protocol
  <2>2. CASE s # t
    BY <2>2, <1>2, <1>4, <1>7, <1>8 DEF PInv, Protocol, PTypeOK, Release
  <2> QED BY <2>1, <2>2
<1>11. \A x \in Pointers : Releasing(x)' <=> x # p /\ Releasing(x)
  BY <1>1, <1>4, <1>6, <1>7, PointersAssumption DEF Releasing
<1>12. Counted'
  <2>1. \A x \in Pointers : Held(x)' = Held(x)
    BY <1>4, <1>8, <1>11 DEF Held
  <2> QED BY <1>1, <2>1, Keeps DEF PInv
<1>13. \A c \in Blocks : Pending(c)' = IF c = b THEN Pending(c) \ {p} ELSE Pending(c)
  BY <1>4, <1>8, <1>11, PointersAssumption DEF Pending
<1>14. p \in Pending(b)
  BY <1>4 DEF Pending
<1>15. \A c \in Blocks :
         /\ c # b => destroyed'[c] = destroyed[c] /\ state'[c] = state[c]
         /\ count'[c] = count[c] /\ weak'[c] = weak[c]
         /\ count[c] \in Nat /\ weak[c] \in Nat /\ destroyed[c] \in 0..2
  BY <1>1, <1>2, <1>5 DEF PTypeOK
<1>16. /\ destroyed'[b] \in {destroyed[b], IF destroyed[b] = 0 THEN 1 ELSE 2}
       /\ state'[b] \in {state[b], "freed"}
       /\ count[b] > 0 => destroyed'[b] = destroyed[b] /\ state'[b] = state[b]
       /\ count[b] = 0 => destroyed'[b] > 0
       /\ weak[b] > 0 => state'[b] = state[b]
       /\ count[b] = 0 /\ weak[b] = 0 => state'[b] = "freed"
       /\ state'[b] = "freed" => count[b] = 0 /\ weak[b] = 0
  <2>1. state[b] = "freed" => count[b] = 0 /\ weak[b] = 0 /\ destroyed[b] > 0
    BY <1>4, <1>15 DEF PInv, Alive
  <2> HIDE DEF p, b
  <2> QED BY <1>2, <1>4, <1>5, <1>15, <2>1 DEF PTypeOK
<1>17. Alive'
  BY <1>4, <1>15, <1>16 DEF PInv, Alive
<1>18. Allocated'
  BY <1>2, <1>4, <1>8, <1>15, <1>16 DEF PInv, Allocated, PTypeOK
<1>19. NoLeak'
  BY <1>4, <1>13, <1>15, <1>16 DEF PInv, NoLeak
<1>20. Orderly'
  <2> SUFFICES ASSUME NEW c \in Blocks, state'[c] # "fresh", count[c] = 0,
                      c \notin overlapped
               PROVE  /\ weak[c] = 0 /\ destroyed'[c] < 2
                      /\ \A x, y \in Pending(c)' : x = y /\ destroyed'[c] = 0
    BY <1>1 DEF Orderly
  <2>1. CASE c # b
    BY <2>1, <1>13, <1>15 DEF PInv, Orderly
  <2>2. CASE c = b
    <3>1. weak[b] = 0 /\ \A x, y \in Pending(b) : x = y /\ destroyed[b] = 0
      BY <2>2, <1>4 DEF PInv, Orderly
    <3>2. destroyed[b] = 0 /\ Pending(b) \ {p} = {}
      BY <3>1, <1>14
    <3> QED BY <2>2, <3>1, <3>2, <1>4, <1>13, <1>16
  <2> QED BY <2>1, <2>2
<1> QED BY <1>9, <1>10, <1>12, <1>17, <1>18, <1>19, <1>20 DEF PInv

\* A new object in a temporary, and the first half of moving it into h.
LEMMA ReplaceInv ==
  ASSUME PInv, NEW h \in Handles, NEW temp \in Handles, NEW b \in Blocks,
         Replace(h, temp, b)
  PROVE  PInv'
<1> DEFINE old == block[h]
           t == Owner[h]
           r == [at |-> "deleter", of |-> h, use |-> "move", from |-> temp]
<1>1. /\ Owner[temp] = t /\ Idle(t)
      /\ old # Null /\ block[temp] = Null /\ state[b] = "fresh"
      /\ block' = [block EXCEPT ![temp] = b]
      /\ count' = [count EXCEPT ![b] = 1, ![old] = @ - 1]
      /\ state' = [state EXCEPT ![b] = "live"]
      /\ pc' = [pc EXCEPT ![t] = r]
      /\ overlapped' = IF count[old] = 1 /\ (Pending(old) # {} \/ weak[old] > 0)
                       THEN overlapped \cup {old} ELSE overlapped
      /\ UNCHANGED <<weak, destroyed>>
  BY DEF Replace
<1>2. /\ PTypeOK /\ h \in Pointers /\ temp \in Pointers /\ h # temp
  BY <1>1 DEF PInv, Pointers
<1>3. /\ ~Releasing(h) /\ Held(h) = old /\ t \in Threads
      /\ ~Releasing(temp) /\ Held(temp) = Null
  BY <1>1, <1>2, IdleHeld
<1>4. /\ old \in Blocks /\ state[old] = "live" /\ count[old] > 0 /\ destroyed[old] = 0
  BY <1>1, <1>2, <1>3, HeldLive
<1>5. /\ count[b] = 0 /\ weak[b] = 0 /\ destroyed[b] = 0 /\ b # old
      /\ \A p \in Pointers : block[p] # b
  BY <1>1, <1>4, FreshBlock
<1>6. \A c \in Blocks :
        /\ count'[c] = IF c = b THEN 1 ELSE IF c = old THEN count[c] - 1 ELSE count[c]
        /\ weak'[c] = weak[c] /\ destroyed'[c] = destroyed[c]
        /\ state'[c] = IF c = b THEN "live" ELSE state[c]
        /\ count[c] \in Nat /\ weak[c] \in Nat
  BY <1>1, <1>2, <1>4, <1>5 DEF PTypeOK
<1>7. \A s \in Threads : pc'[s] = IF s = t THEN r ELSE pc[s]
  BY <1>1, <1>2 DEF PTypeOK
<1>8. /\ r # NoRelease /\ r \in Release
      /\ r.at = "deleter" /\ r.of = h /\ r.use = "move" /\ r.from = temp
  BY <1>2 DEF NoRelease, Release
<1>9. \A x \in Pointers : block'[x] = IF x = temp THEN b ELSE block[x]
  BY <1>1, <1>2 DEF PTypeOK
<1> HIDE DEF r
<1>10. PTypeOK'
  <2>1. count' \in [Blocks -> Nat]
    BY <1>1, <1>2, <1>4, <1>6 DEF PTypeOK
  <2>2. pc' \in [Threads -> Release \cup {NoRelease}]
    BY <1>1, <1>2, <1>8 DEF PTypeOK
  <2>3. block' \in [Pointers -> Blocks \cup {Null}]
    BY <1>1, <1>2 DEF PTypeOK
  <2>4. state' \in [Blocks -> {"fresh", "live", "freed"}] /\ overlapped' \subseteq Blocks
    BY <1>1, <1>2, <1>4 DEF PTypeOK
  <2> QED BY <1>1, <1>2, <2>1, <2>2, <2>3, <2>4 DEF PTypeOK
<1>11. Protocol'
  <2> SUFFICES ASSUME NEW s \in Threads, pc'[s] # NoRelease
               PROVE  LET x == pc'[s] IN
                      /\ Owner[x.of] = s /\ Owner[x.from] = s
                      /\ x.at = "deleter" => block'[x.of] # Null
                      /\ x.at = "take" => block'[x.of] = Null /\ x.use # "drop"
                      /\ x.use # "drop" => x.of # x.from
                      /\ x.use = "move" => (x.of \in Handles <=> x.from \in Handles)
                      /\ x.use = "copy" => Source(x.from, x.of)
    BY DEF Protocol
  <2>1. CASE s = t
    BY <2>1, <1>1, <1>2, <1>7, <1>8, <1>9
  <2>2. CASE s # t
    BY <2>2, <1>1, <1>2, <1>7, <1>9, PointersAssumption
       DEF PInv, Protocol, PTypeOK, Release
  <2> QED BY <2>1, <2>2
<1>12. \A x \in Pointers : Releasing(x)' <=> x = h \/ Releasing(x)
  BY <1>1, <1>3, <1>7, <1>8, PointersAssumption DEF Releasing, Idle
<1>13. \A x \in Pointers :
         Held(x)' = IF x = h THEN Null ELSE IF x = temp THEN b ELSE Held(x)
  BY <1>2, <1>3, <1>9, <1>12 DEF Held
<1>14. Counted'
  <2> SUFFICES ASSUME NEW c \in Blocks
               PROVE  /\ count'[c] = Cardinality(Counting(Handles, c)')
                      /\ weak'[c] = Cardinality(Counting(WeakHandles, c)')
    BY DEF Counted
  <2>1. /\ \A P : Counting(P, c) = {x \in P : Held(x) = c}
        /\ Counting(Handles, c)' = {x \in Handles : Held(x)' = c}
        /\ Counting(WeakHandles, c)' = {x \in WeakHandles : Held(x)' = c}
        /\ \A x \in Handles \cup WeakHandles : x \in Pointers
        /\ h \notin WeakHandles /\ temp \notin WeakHandles
        /\ c # Null
    BY CountingHeld, CountingHeldPrime, PointersAssumption DEF Pointers
  <2>2. Counting(WeakHandles, c)' = Counting(WeakHandles, c)
    BY <2>1, <1>13
  <2>3. CASE c = b
    <3>1. Counting(Handles, c)' = {temp}
      <4>1. \A x \in Pointers : Held(x) # b
        BY <1>5, PointersAssumption DEF Held
      <4> QED BY <2>1, <2>3, <4>1, <1>2, <1>13
    <3>2. Cardinality(Counting(Handles, c)') = 1
      BY <3>1, FS_Singleton
    <3>3. weak'[c] = Cardinality(Counting(WeakHandles, c)')
      BY <2>2, <1>6 DEF PInv, Counted
    <3> QED BY <2>3, <3>2, <3>3, <1>6
  <2>4. CASE c = old
    <3>1. Counting(Handles, c)' = Counting(Handles, c) \ {h} /\ h \in Counting(Handles, c)
      BY <2>1, <2>4, <1>2, <1>3, <1>5, <1>13
    <3>2. Cardinality(Counting(Handles, c) \ {h}) = Cardinality(Counting(Handles, c)) - 1
      BY <3>1, CountingFinite, FS_RemoveElement
    <3> QED BY <2>2, <2>4, <3>1, <3>2, <1>5, <1>6 DEF PInv, Counted
  <2>5. CASE c # b /\ c # old
    <3>1. Counting(Handles, c)' = Counting(Handles, c)
      BY <2>1, <2>5, <1>2, <1>3, <1>13
    <3> QED BY <2>2, <2>5, <3>1, <1>6 DEF PInv, Counted
  <2> QED BY <2>3, <2>4, <2>5
<1>15. Alive'
  BY <1>5, <1>6 DEF PInv, Alive
<1>16. Allocated'
  BY <1>6, <1>9 DEF PInv, Allocated, PTypeOK
<1>17. \A c \in Blocks : c # b =>
         Pending(c)' = IF c = old THEN Pending(c) \cup {h} ELSE Pending(c)
  BY <1>1, <1>2, <1>3, <1>9, <1>12, PointersAssumption DEF Pending
<1>18. NoLeak'
  BY <1>6, <1>17 DEF PInv, NoLeak
<1>19. Orderly'
  <2> SUFFICES ASSUME NEW c \in Blocks, state'[c] # "fresh", count'[c] = 0,
                      c \notin overlapped'
               PROVE  /\ weak[c] = 0 /\ destroyed[c] < 2
                      /\ \A x, y \in Pending(c)' : x = y /\ destroyed[c] = 0
    BY <1>1 DEF Orderly
  <2>1. c # b
    BY <1>6
  <2>2. CASE c = old
    <3>1. count[old] = 1
      BY <2>1, <2>2, <1>6
    <3>2. old \notin overlapped' /\ weak[old] \in Nat
      BY <2>2, <1>4, <1>6
    <3>3. Pending(old) = {} /\ weak[old] = 0
      BY <3>1, <3>2, <1>1
    <3>4. Pending(c)' = {h}
      BY <2>1, <2>2, <3>3, <1>17
    <3> QED BY <2>2, <3>3, <3>4, <1>4
  <2>3. CASE c # old
    <3>1. count[c] = 0 /\ state[c] # "fresh"
      BY <2>1, <2>3, <1>6
    <3>2. c \notin overlapped /\ Pending(c)' = Pending(c)
      BY <2>1, <2>3, <1>1, <1>17
    <3> QED BY <3>1, <3>2 DEF PInv, Orderly
  <2> QED BY <2>2, <2>3
<1> QED BY <1>10, <1>11, <1>14, <1>15, <1>16, <1>18, <1>19 DEF PInv

-----------------------------------------------------------------------------
\* Every step keeps the invariant.
LEMMA NextPInv ==
  ASSUME PInv, [PNext]_pvars
  PROVE  PInv'
<1>1. CASE UNCHANGED pvars
  <2>1. \A b \in Blocks, P \in {Handles, WeakHandles} : Counting(P, b)' = Counting(P, b)
    BY <1>1 DEF pvars, Counting, Releasing
  <2>2. \A b \in Blocks : Pending(b)' = Pending(b)
    BY <1>1 DEF pvars, Pending, Releasing
  <2>3. PTypeOK' /\ Protocol' /\ Alive' /\ Allocated'
    BY <1>1 DEF pvars, PInv, PTypeOK, Protocol, Alive, Allocated
  <2>4. Counted'
    BY <1>1, <2>1 DEF pvars, PInv, Counted
  <2>5. NoLeak' /\ Orderly'
    BY <1>1, <2>2 DEF pvars, PInv, NoLeak, Orderly
  <2> QED BY <2>3, <2>4, <2>5 DEF PInv
<1>2. ASSUME NEW t \in Threads, Continue(t) PROVE PInv'
  BY <1>2, CallDeleterInv, TakeInv DEF Continue
<1>3. ASSUME NEW p \in Pointers, Drop(p) PROVE PInv'
  BY <1>3, StartReleaseInv DEF Drop
<1>4. ASSUME NEW p \in Pointers, NEW q \in Pointers, AssignCopy(q, p) PROVE PInv'
  BY <1>4, AssignInv DEF AssignCopy
<1>5. ASSUME NEW p \in Pointers, NEW q \in Pointers, AssignMove(q, p) PROVE PInv'
  BY <1>5, AssignInv DEF AssignMove
<1>6. ASSUME NEW p \in Pointers, NEW q \in Pointers,
             Copy(q, p) \/ Watch(q, p) \/ WeakCopy(q, p)
      PROVE PInv'
  <2>1. Source(q, p) /\ CopyInto(q, p)
    BY <1>6 DEF Copy, Watch, WeakCopy, Source
  <2> QED BY <2>1, CopyInv
<1>7. CASE WeakNext
  <2>1. PICK w \in WeakHandles :
          \/ Drop(w)
          \/ \E q \in Pointers : Watch(q, w) \/ WeakCopy(q, w) \/ AssignCopy(q, w)
          \/ \E q \in WeakHandles : Move(q, w) \/ AssignMove(q, w)
    BY <1>7 DEF WeakNext
  <2>2. \A q \in WeakHandles : q \in Pointers
    BY DEF Pointers
  <2> QED BY <2>1, <2>2, <1>3, <1>4, <1>5, <1>6, MoveInv
<1>8. ASSUME NEW h \in Handles, NEW q \in Handles,
             Copy(q, h) \/ Move(q, h) \/ AssignCopy(q, h) \/ AssignMove(q, h)
      PROVE PInv'
  <2>1. h \in Pointers /\ q \in Pointers
    BY DEF Pointers
  <2> QED BY <2>1, <1>4, <1>5, <1>6, <1>8, MoveInv
<1>9. ASSUME NEW h \in Handles, Drop(h) PROVE PInv'
  BY <1>3, <1>9 DEF Pointers
<1> QED BY <1>1, <1>2, <1>7, <1>8, <1>9, MakeInv, ReplaceInv DEF PNext

\* The invariant always holds.
THEOREM PointersInvariant == PSpec => []PInv
  BY InitPInv, NextPInv, PTL DEF PSpec

\* The counts are the numbers of pointers: increment and decrement are called
\* exactly where a pointer begins and ceases to count.
THEOREM CountsExact == PSpec => []Counted
<1>1. PInv => Counted
  BY DEF PInv
<1> QED BY <1>1, PointersInvariant, PTL

\* A pointer that counts finds its block, and a SharedPtr its object, alive.
THEOREM HeldStaysAlive == PSpec => []HeldAlive
<1>1. PInv => HeldAlive
  <2> SUFFICES ASSUME PInv, NEW p \in Pointers, block[p] # Null, ~Releasing(p)
               PROVE  /\ state[block[p]] = "live"
                      /\ p \in Handles => destroyed[block[p]] = 0
    BY DEF HeldAlive
  <2>1. Held(p) = block[p]
    BY DEF Held
  <2> QED BY <2>1, HeldLive
<1> QED BY <1>1, PointersInvariant, PTL

\* What nobody points to any more is destroyed and freed.
THEOREM NothingLeaks == PSpec => []NoLeak
<1>1. PInv => NoLeak
  BY DEF PInv
<1> QED BY <1>1, PointersInvariant, PTL

\* Only overlapping releases, or a WeakPtr that is left, destroy an object twice.
THEOREM DestroyedOnlyOnce == PSpec => []DestroyedOnce
<1>1. PInv => DestroyedOnce
  <2> SUFFICES ASSUME PInv, NEW b \in Blocks, destroyed[b] > 1, b \notin overlapped
               PROVE  FALSE
    BY DEF DestroyedOnce
  <2>1. count[b] \in Nat /\ destroyed[b] \in 0..2
    BY DEF PInv, PTypeOK
  <2>2. state[b] # "fresh" /\ count[b] = 0
    BY <2>1 DEF PInv, Alive
  <2> QED BY <2>1, <2>2 DEF PInv, Orderly
<1> QED BY <1>1, PointersInvariant, PTL
-----------------------------------------------------------------------------
(* Tensors.                                                                *)

\* Every operation on tensors is one on their pointers, or leaves them alone.
THEOREM TensorsUsePointers == Spec => PSpec
<1>1. Init => PInit
  BY DEF Init
<1>2. ASSUME [Next]_vars PROVE [PNext]_pvars
  <2>1. CASE UNCHANGED vars
    BY <2>1 DEF vars, pvars
  <2>2. ASSUME NEW t \in Threads, Continue(t) PROVE PNext
    BY <2>2 DEF PNext
  <2>3. ASSUME WeakNext PROVE PNext
    BY <2>3 DEF PNext
  <2>4. ASSUME NEW h \in Handles, DropTensor(h) PROVE PNext
    BY <2>4 DEF DropTensor, PNext
  <2>5. ASSUME NEW h \in Handles, NEW b \in Blocks, NEW shape, NewTensor(h, b, shape)
        PROVE PNext
    BY <2>5 DEF NewTensor, PNext
  <2>6. ASSUME NEW h \in Handles, NEW new, ReshapeTensor(h, new)
        PROVE UNCHANGED pvars
    BY <2>6 DEF ReshapeTensor
  <2>7. ASSUME NEW h \in Handles, NEW temp \in Handles, NEW b \in Blocks, NEW new,
               DetachTensor(h, temp, b, new)
        PROVE PNext
    BY <2>7 DEF DetachTensor, PNext
  <2>8. ASSUME NEW g \in Handles, NEW h \in Handles,
               \/ CopyTensor(g, h) \/ MoveTensor(g, h)
               \/ AssignTensor(g, h) \/ AssignMoved(g, h)
               \/ \E new \in Broadcasts : BroadcastTensor(g, h, new)
               \/ \E k \in 0..(MaxElements - 1) : TakeRow(g, h, k)
        PROVE PNext
    <3>1. Copy(g, h) \/ Move(g, h) \/ AssignCopy(g, h) \/ AssignMove(g, h)
      BY <2>8 DEF CopyTensor, MoveTensor, AssignTensor, AssignMoved,
                  BroadcastTensor, TakeRow
    <3> QED BY <3>1 DEF PNext
  <2> QED BY <1>2, <2>1, <2>2, <2>3, <2>4, <2>5, <2>6, <2>7, <2>8 DEF Next
<1> QED BY <1>1, <1>2, PTL DEF Spec, PSpec

\* The counts of the storages are exact.
THEOREM StorageCounted == Spec => []Counted
  BY TensorsUsePointers, CountsExact, PTL

\* No tensor sees its storage destroyed.
THEOREM StorageAlive == Spec => []HeldAlive
  BY TensorsUsePointers, HeldStaysAlive, PTL

\* No storage leaks.
THEOREM StorageFreed == Spec => []NoLeak
  BY TensorsUsePointers, NothingLeaks, PTL

\* A storage is destroyed once, unless releases overlap.
THEOREM StorageDestroyedOnce == Spec => []DestroyedOnce
  BY TensorsUsePointers, DestroyedOnlyOnce, PTL

-----------------------------------------------------------------------------
(* Counting up and down, and dividing.                                     *)

\* Induction over the natural numbers, for a set of them.
LEMMA SetInduction ==
  ASSUME NEW S, 0 \in S, \A k \in Nat : k \in S => k + 1 \in S
  PROVE  Nat \subseteq S
<1> DEFINE U == Nat \ S
<1>1. SUFFICES ASSUME U # {} PROVE FALSE
  OBVIOUS
<1> DEFINE R == OpToRel(<, Nat)
<1>2. U \subseteq Nat
  OBVIOUS
<1>3. \E x \in U : \A y \in U : ~ (<<y, x>> \in R)
  <2> HIDE DEF U
  <2>1. IsWellFoundedOn(R, Nat)
    BY NatLessThanWellFounded
  <2> HIDE DEF R
  <2>2. QED
    BY <1>1, <1>2, <2>1, WFMin
<1>4. PICK x \in U : \A y \in U : ~ (<<y, x>> \in R)
  BY <1>3
<1>5. \A y \in U : ~(y < x)
  BY <1>4 DEF OpToRel
<1>6. x \in Nat /\ x # 0 /\ x \notin S
  BY <1>4
<1>7. x - 1 \in Nat /\ x = (x - 1) + 1 /\ x - 1 < x
  BY <1>6
<1>8. x - 1 \in U
  BY <1>6, <1>7
<1> QED
  BY <1>5, <1>7, <1>8

\* From 0 up to n, and from n down to 0.
LEMMA Upwards ==
  ASSUME NEW n \in Nat, NEW S, 0 \in S, \A k \in 1..n : k - 1 \in S => k \in S
  PROVE  0..n \subseteq S
<1> DEFINE U == {k \in Nat : k <= n => k \in S}
<1>1. 0 \in U
  OBVIOUS
<1>2. ASSUME NEW k \in Nat, k \in U PROVE k + 1 \in U
  <2> SUFFICES ASSUME k + 1 <= n PROVE k + 1 \in S
    OBVIOUS
  <2>1. k + 1 \in 1..n /\ (k + 1) - 1 = k /\ k \in S
    BY <1>2
  <2>2. (k + 1) - 1 \in S
    BY <2>1
  <2> QED BY <2>1, <2>2
<1> HIDE DEF U
<1>3. Nat \subseteq U
  BY <1>1, <1>2, SetInduction
<1> QED BY <1>3 DEF U

LEMMA Downwards ==
  ASSUME NEW n \in Nat, NEW S, n \in S, \A k \in 1..n : k \in S => k - 1 \in S
  PROVE  0..n \subseteq S
<1> DEFINE U == {k \in 0..n : n - k \in S}
<1>1. 0 \in U
  OBVIOUS
<1>2. ASSUME NEW k \in 1..n, k - 1 \in U PROVE k \in U
  <2>1. n - (k - 1) \in 1..n /\ (n - (k - 1)) - 1 = n - k /\ n - (k - 1) \in S
    BY <1>2
  <2>2. (n - (k - 1)) - 1 \in S
    BY <2>1
  <2> QED BY <2>1, <2>2
<1> HIDE DEF U
<1>3. 0..n \subseteq U
  BY <1>1, <1>2, Upwards
<1> SUFFICES ASSUME NEW k \in 0..n PROVE k \in S
  OBVIOUS
<1>4. n - k \in U /\ n - (n - k) = k
  BY <1>3
<1>5. n - (n - k) \in S
  BY <1>4 DEF U
<1> QED BY <1>4, <1>5

\* Division with remainder, and that there is one way to do it.
LEMMA Division ==
  ASSUME NEW a \in Nat, NEW n \in Nat \ {0}
  PROVE  /\ a % n \in 0..(n - 1)
         /\ a \div n \in Nat
         /\ a = (a \div n) * n + (a % n)
  OBVIOUS

LEMMA Multiples ==
  ASSUME NEW n \in Nat \ {0}, NEW a \in Nat, NEW b \in Nat, a < b
  PROVE  a * n + n <= b * n
<1> DEFINE d == b - a - 1
<1>1. d \in Nat /\ b = (a + 1) + d
  OBVIOUS
<1>2. b * n = (a * n + n) + d * n
  <2> HIDE DEF d
  <2> QED BY <1>1
<1>3. d * n \in Nat /\ a * n \in Nat
  BY <1>1
<1> QED BY <1>2, <1>3

LEMMA Remainder ==
  ASSUME NEW n \in Nat \ {0}, NEW q \in Nat, NEW r \in 0..(n - 1), NEW a,
         a = q * n + r
  PROVE  a % n = r /\ a \div n = q
<1>0. a \in Nat
  OBVIOUS
<1> DEFINE p == a \div n
           s == a % n
           pn == p * n
           qn == q * n
<1>1. p \in Nat /\ s \in 0..(n - 1) /\ pn + s = qn + r /\ pn \in Nat /\ qn \in Nat
  <2>1. p \in Nat /\ s \in 0..(n - 1) /\ a = pn + s
    BY <1>0, Division
  <2> HIDE DEF p, s
  <2> QED BY <2>1
<1>2. p < q => pn + n <= qn
  BY <1>1, Multiples
<1>3. q < p => qn + n <= pn
  BY <1>1, Multiples
<1> HIDE DEF p, s, pn, qn
<1>4. p = q
  BY <1>1, <1>2, <1>3
<1>5. pn = qn
  BY <1>4 DEF pn, qn
<1>6. s = r
  BY <1>1, <1>5
<1> QED BY <1>4, <1>6 DEF p, s

\* A number below n is its own remainder; that of a multiple is none.
LEMMA SmallRemainder ==
  ASSUME NEW n \in Nat \ {0}, NEW i \in 0..(n - 1)
  PROVE  i % n = i /\ i \div n = 0
<1>1. i = 0 * n + i /\ 0 \in Nat
  OBVIOUS
<1> QED BY <1>1, Remainder

\* To divide by a product is to divide twice.
LEMMA DivideTwice ==
  ASSUME NEW a \in Nat, NEW m \in Nat \ {0}, NEW n \in Nat \ {0}
  PROVE  a \div (m * n) = (a \div n) \div m
<1> DEFINE p == a \div n
           q == p \div m
           r == p % m
           s == a % n
<1>1. p \in Nat /\ s \in 0..(n - 1) /\ a = p * n + s
  BY Division
<1>2. q \in Nat /\ r \in 0..(m - 1) /\ p = q * m + r
  BY <1>1, Division
<1> HIDE DEF p, q, r, s
<1>3. a = q * (m * n) + (r * n + s)
  <2>1. (q * m + r) * n = q * (m * n) + r * n
    BY <1>2
  <2>2. q * (m * n) \in Nat /\ r * n \in Nat
    BY <1>2
  <2> QED BY <1>1, <1>2, <2>1, <2>2
<1>4. m * n \in Nat \ {0} /\ r * n + s \in 0..(m * n - 1)
  <2>1. r * n + n <= m * n
    <3>1. r \in Nat /\ m \in Nat /\ r < m
      BY <1>2
    <3> QED BY <3>1, Multiples
  <2>2. r * n \in Nat /\ m * n \in Nat
    BY <1>2
  <2> QED BY <1>1, <2>1, <2>2
<1>5. a \div (m * n) = q
  <2> DEFINE mn == m * n
             t == r * n + s
  <2>1. mn \in Nat \ {0} /\ t \in 0..(mn - 1) /\ a = q * mn + t
    BY <1>3, <1>4
  <2> HIDE DEF mn, t
  <2>2. a \div mn = q
    BY <1>2, <2>1, Remainder
  <2> QED BY <2>2 DEF mn
<1> QED BY <1>5 DEF p, q

\* The remainder by a multiple of n has the same remainder by n.
LEMMA RemainderTwice ==
  ASSUME NEW a \in Nat, NEW m \in Nat \ {0}, NEW n \in Nat \ {0}
  PROVE  (a % (m * n)) % n = a % n
<1> DEFINE mn == m * n
           p == a \div mn
           u == a % mn
<1>0. mn \in Nat \ {0}
  OBVIOUS
<1> HIDE DEF mn
<1>1. p \in Nat /\ u \in Nat /\ a = p * mn + u
  BY <1>0, Division
<1> DEFINE q == u \div n
           s == u % n
<1> HIDE DEF p, u
<1>2. q \in Nat /\ s \in 0..(n - 1) /\ u = q * n + s
  BY <1>1, Division
<1> HIDE DEF q, s
<1>3. a = (p * m + q) * n + s
  <2>1. p * mn = (p * m) * n
    BY <1>1 DEF mn
  <2>2. (p * m + q) * n = (p * m) * n + q * n
    BY <1>1, <1>2
  <2>3. (p * m) * n \in Nat /\ q * n \in Nat
    BY <1>1, <1>2
  <2> QED BY <1>1, <1>2, <2>1, <2>2, <2>3
<1>4. p * m + q \in Nat
  BY <1>1, <1>2
<1>5. a % n = s
  BY <1>2, <1>3, <1>4, Remainder
<1> QED BY <1>5 DEF s, u, mn

-----------------------------------------------------------------------------
(* Spans and numbers of indices.                                           *)

\* n dimensions, the products of those behind each place, and the sum of an
\* index's digits, each as often as a span.
IsDims(s, n) == n \in Nat \ {0} /\ s \in [1..n -> Nat \ {0}]

IsSpans(f, s, n) ==
  /\ f \in [0..n -> Nat \ {0}]
  /\ f[n] = 1
  /\ \A d \in 1..n : f[d - 1] = f[d] * s[d]

IsSum(f, c, x, n) ==
  /\ f \in [0..n -> Nat]
  /\ f[0] = 0
  /\ \A d \in 1..n : f[d] = f[d - 1] + x[d] * c[d]

\* Dimensions are a sequence.
LEMMA DimsLen ==
  ASSUME NEW s, NEW n, IsDims(s, n)
  PROVE  /\ Len(s) = n /\ s \in Seq(Nat \ {0}) /\ DOMAIN s = 1..n /\ s # <<>>
         /\ \A d \in 1..n : s[d] \in Nat \ {0}
<1>1. s = [d \in 1..n |-> s[d]] /\ n \in Nat /\ n # 0
  BY DEF IsDims
<1>2. Len(s) = n /\ DOMAIN s = 1..n
  BY <1>1
<1>3. \A d \in 1..n : s[d] \in Nat \ {0}
  BY DEF IsDims
<1>4. s \in Seq(Nat \ {0})
  BY <1>1, <1>3
<1>5. s # <<>>
  BY <1>1, <1>2
<1> QED BY <1>2, <1>3, <1>4, <1>5

\* A sequence of positive numbers that is not empty is dimensions.
LEMMA SeqIsDims ==
  ASSUME NEW s \in Seq(Nat \ {0}), s # <<>>
  PROVE  IsDims(s, Len(s))
<1>1. Len(s) \in Nat /\ Len(s) # 0
  BY LenProperties, EmptySeq
<1>2. s \in [1..Len(s) -> Nat \ {0}]
  BY LenProperties
<1> QED BY <1>1, <1>2 DEF IsDims

\* There is one sequence of spans, and Spans is it.
LEMMA SpansExist ==
  ASSUME NEW s, NEW n, IsDims(s, n)
  PROVE  \E f : IsSpans(f, s, n)
<1>0. n \in Nat /\ \A d \in 1..n : s[d] \in Nat \ {0}
  BY DEF IsDims
<1> DEFINE From(m, f) ==
             /\ f \in [m..n -> Nat \ {0}]
             /\ f[n] = 1
             /\ \A d \in (m + 1)..n : f[d - 1] = f[d] * s[d]
           U == {m \in 0..n : \E f : From(m, f)}
<1>1. n \in U
  <2> DEFINE f == [d \in n..n |-> 1]
  <2>1. From(n, f)
    BY <1>0
  <2> HIDE DEF f, From
  <2> QED BY <1>0, <2>1
<1>2. ASSUME NEW m \in 1..n, m \in U PROVE m - 1 \in U
  <2>1. PICK f : From(m, f)
    BY <1>2
  <2> DEFINE g == [d \in (m - 1)..n |-> IF d = m - 1 THEN f[m] * s[m] ELSE f[d]]
  <2>2. f[m] \in Nat \ {0} /\ s[m] \in Nat \ {0}
    BY <1>0, <2>1
  <2>3. f[m] * s[m] \in Nat \ {0}
    BY <2>2
  <2>4. \A d \in m..n : g[d] = f[d] /\ f[d] \in Nat \ {0}
    BY <1>0, <2>1
  <2>5. g[m - 1] = f[m] * s[m]
    BY <1>0
  <2>6. g \in [(m - 1)..n -> Nat \ {0}]
    <3>1. \A d \in (m - 1)..n : d = m - 1 \/ d \in m..n
      OBVIOUS
    <3>2. \A d \in (m - 1)..n : g[d] \in Nat \ {0}
      BY <2>3, <2>4, <2>5, <3>1
    <3>3. g = [d \in (m - 1)..n |-> g[d]]
      OBVIOUS
    <3> HIDE DEF g
    <3> QED BY <3>2, <3>3
  <2>7. g[n] = 1
    BY <1>0, <2>1, <2>4
  <2>8. ASSUME NEW d \in ((m - 1) + 1)..n PROVE g[d - 1] = g[d] * s[d]
    <3>1. d \in m..n
      BY <1>0
    <3>2. CASE d = m
      BY <2>4, <2>5, <3>1, <3>2
    <3>3. CASE d # m
      <4>1. d - 1 \in m..n /\ d \in (m + 1)..n
        BY <1>0, <3>1, <3>3
      <4> QED BY <2>1, <2>4, <3>1, <4>1
    <3> QED BY <3>2, <3>3
  <2> HIDE DEF g
  <2>9. From(m - 1, g)
    BY <2>6, <2>7, <2>8
  <2> HIDE DEF From
  <2>10. m - 1 \in 0..n
    BY <1>0
  <2> QED BY <2>9, <2>10
<1>3. 0 \in U
  <2>1. 0 \in 0..n
    BY <1>0
  <2> HIDE DEF U
  <2>2. 0..n \subseteq U
    BY <1>0, <1>1, <1>2, Downwards
  <2> QED BY <2>1, <2>2
<1>4. PICK f : From(0, f)
  BY <1>3
<1>5. IsSpans(f, s, n)
  BY <1>4 DEF IsSpans
<1> HIDE DEF From
<1> QED BY <1>5

LEMMA SpansAlike ==
  ASSUME NEW n \in Nat, NEW f, NEW g, f[n] = g[n],
         \A d \in 1..n : f[d] = g[d] => f[d - 1] = g[d - 1]
  PROVE  \A d \in 0..n : f[d] = g[d]
<1> DEFINE U == {d \in 0..n : f[d] = g[d]}
<1>1. n \in U
  OBVIOUS
<1>2. \A d \in 1..n : d \in U => d - 1 \in U
  OBVIOUS
<1> HIDE DEF U
<1>3. 0..n \subseteq U
  BY <1>1, <1>2, Downwards
<1> QED BY <1>3 DEF U

LEMMA SpansAre ==
  ASSUME NEW s, NEW n, IsDims(s, n)
  PROVE  IsSpans(Spans(s), s, n)
<1> DEFINE loop(f) == [d \in 0..n |-> IF d = n THEN 1 ELSE f[d + 1] * s[d + 1]]
           res == CHOOSE f : f = loop(f)
<1>0. n \in Nat /\ Len(s) = n
  BY DimsLen DEF IsDims
<1>1. Spans(s) = res
  BY <1>0 DEF Spans
<1>2. PICK g : IsSpans(g, s, n)
  BY SpansExist
<1>3. g = loop(g)
  <2>1. \A d \in 0..n : g[d] = loop(g)[d]
    <3> TAKE d \in 0..n
    <3>1. CASE d = n
      BY <1>2, <3>1 DEF IsSpans
    <3>2. CASE d # n
      <4>1. d + 1 \in 1..n /\ (d + 1) - 1 = d
        BY <1>0, <3>2
      <4>2. g[(d + 1) - 1] = g[d + 1] * s[d + 1]
        BY <1>2, <4>1 DEF IsSpans
      <4> QED BY <3>2, <4>1, <4>2
    <3> QED BY <3>1, <3>2
  <2>2. g = [d \in 0..n |-> g[d]]
    BY <1>2 DEF IsSpans
  <2> QED BY <2>1, <2>2
<1>4. res = loop(res)
  <2> HIDE DEF loop
  <2> QED BY <1>3
<1> HIDE DEF res
<1>5. res[n] = 1 /\ \A d \in 1..n : res[d - 1] = res[d] * s[d]
  <2>1. res[n] = 1
    BY <1>0, <1>4
  <2>2. ASSUME NEW d \in 1..n PROVE res[d - 1] = res[d] * s[d]
    <3>1. d - 1 \in 0..n /\ d - 1 # n /\ (d - 1) + 1 = d
      BY <1>0
    <3> QED BY <1>4, <3>1
  <2> QED BY <2>1, <2>2
<1>6. \A d \in 0..n : res[d] = g[d]
  <2>1. \A d \in 1..n : res[d] = g[d] => res[d - 1] = g[d - 1]
    BY <1>2, <1>5 DEF IsSpans
  <2>2. res[n] = g[n]
    BY <1>2, <1>5 DEF IsSpans
  <2>3. n \in Nat
    BY <1>0
  <2> QED BY <2>1, <2>2, <2>3, SpansAlike
<1>7. res \in [0..n -> Nat \ {0}]
  <2>1. res = [d \in 0..n |-> res[d]]
    BY <1>4
  <2>2. \A d \in 0..n : res[d] \in Nat \ {0}
    BY <1>2, <1>6 DEF IsSpans
  <2> QED BY <2>1, <2>2
<1> QED BY <1>1, <1>5, <1>7 DEF IsSpans

\* One dimension with its span is the span in front of it.
LEMMA SpanFacts ==
  ASSUME NEW s, NEW n, IsDims(s, n)
  PROVE  /\ n \in Nat \ {0} /\ Len(s) = n
         /\ \A d \in 1..n : s[d] \in Nat \ {0}
         /\ \A d \in 0..n : Spans(s)[d] \in Nat \ {0}
         /\ Spans(s)[n] = 1
         /\ \A d \in 1..n : Spans(s)[d - 1] = s[d] * Spans(s)[d]
         /\ NumElements(s) = Spans(s)[0] /\ NumElements(s) \in Nat \ {0}
<1>1. IsSpans(Spans(s), s, n)
  BY SpansAre
<1>2. Len(s) = n /\ n \in Nat \ {0} /\ \A d \in 1..n : s[d] \in Nat \ {0}
  BY DimsLen DEF IsDims
<1>3. \A d \in 0..n : Spans(s)[d] \in Nat \ {0}
  BY <1>1 DEF IsSpans
<1>4. ASSUME NEW d \in 1..n PROVE Spans(s)[d - 1] = s[d] * Spans(s)[d]
  <2>1. Spans(s)[d - 1] = Spans(s)[d] * s[d]
    BY <1>1 DEF IsSpans
  <2>2. d \in 0..n
    BY <1>2
  <2>3. s[d] \in Nat /\ Spans(s)[d] \in Nat
    BY <1>2, <1>3, <2>2
  <2> QED BY <2>1, <2>3
<1>5. Spans(s)[n] = 1
  BY <1>1 DEF IsSpans
<1>6. NumElements(s) = Spans(s)[0] /\ 0 \in 0..n
  BY <1>2 DEF NumElements
<1> QED BY <1>2, <1>3, <1>4, <1>5, <1>6

\* r are the dimensions of s from one on.
Behind(r, k, s, n, m) ==
  /\ IsDims(r, k) /\ IsDims(s, n) /\ m \in Nat /\ m + k = n
  /\ \A d \in 1..k : r[d] = s[m + d]

\* The spans of the dimensions from one on are those of all.
LEMMA SpansBehind ==
  ASSUME NEW r, NEW k, NEW s, NEW n, NEW m, Behind(r, k, s, n, m)
  PROVE  \A d \in 0..k : Spans(r)[d] = Spans(s)[m + d]
<1> DEFINE g == [d \in 0..k |-> Spans(s)[m + d]]
<1>0. /\ n \in Nat /\ k \in Nat /\ m \in Nat /\ m + k = n /\ IsDims(r, k) /\ IsDims(s, n)
      /\ \A d \in 1..k : r[d] = s[m + d]
  BY DEF Behind, IsDims
<1>1. g[k] = Spans(r)[k]
  BY <1>0, SpanFacts
<1>2. ASSUME NEW d \in 1..k, Spans(r)[d] = g[d] PROVE Spans(r)[d - 1] = g[d - 1]
  <2>1. m + d \in 1..n /\ m + (d - 1) = (m + d) - 1 /\ d - 1 \in 0..k /\ d \in 0..k
    BY <1>0
  <2>2. Spans(s)[(m + d) - 1] = s[m + d] * Spans(s)[m + d]
    BY <1>0, <2>1, SpanFacts
  <2>3. Spans(r)[d - 1] = r[d] * Spans(r)[d]
    BY <1>0, SpanFacts
  <2>4. r[d] = s[m + d]
    BY <1>0
  <2> QED BY <2>4, <1>2, <2>1, <2>2, <2>3
<1> HIDE DEF g
<1>3. k \in Nat
  BY <1>0
<1>4. \A d \in 0..k : Spans(r)[d] = g[d]
  BY <1>1, <1>2, <1>3, SpansAlike
<1> QED BY <1>4 DEF g

\* There is one way to sum up, and the sum of an index is its number.
LEMMA SumExists ==
  ASSUME NEW n \in Nat, NEW c, NEW x,
         \A d \in 1..n : x[d] \in Nat /\ c[d] \in Nat
  PROVE  \E f : IsSum(f, c, x, n)
<1> DEFINE Upto(m, f) ==
             /\ f \in [0..m -> Nat]
             /\ f[0] = 0
             /\ \A d \in 1..m : f[d] = f[d - 1] + x[d] * c[d]
           U == {m \in 0..n : \E f : Upto(m, f)}
<1>1. 0 \in U
  <2> DEFINE f == [d \in 0..0 |-> 0]
  <2>1. Upto(0, f)
    OBVIOUS
  <2> HIDE DEF f, Upto
  <2> QED BY <2>1
<1>2. ASSUME NEW m \in 1..n, m - 1 \in U PROVE m \in U
  <2>1. PICK f : Upto(m - 1, f)
    BY <1>2
  <2> DEFINE g == [d \in 0..m |-> IF d = m THEN f[m - 1] + x[m] * c[m] ELSE f[d]]
  <2>2. f[m - 1] \in Nat
    BY <2>1
  <2>3. x[m] * c[m] \in Nat
    OBVIOUS
  <2>4. \A d \in 0..(m - 1) : g[d] = f[d] /\ f[d] \in Nat
    BY <2>1
  <2>5. g[m] = f[m - 1] + x[m] * c[m] /\ g[m] \in Nat
    BY <2>2, <2>3
  <2>6. g \in [0..m -> Nat]
    <3>1. \A d \in 0..m : d = m \/ d \in 0..(m - 1)
      OBVIOUS
    <3>2. \A d \in 0..m : g[d] \in Nat
      BY <2>4, <2>5, <3>1
    <3>3. g = [d \in 0..m |-> g[d]]
      OBVIOUS
    <3> HIDE DEF g
    <3> QED BY <3>2, <3>3
  <2>7. g[0] = 0
    BY <2>1, <2>4
  <2>8. ASSUME NEW d \in 1..m PROVE g[d] = g[d - 1] + x[d] * c[d]
    <3>1. CASE d = m
      BY <2>4, <2>5, <3>1
    <3>2. CASE d # m
      <4>1. d \in 1..(m - 1) /\ d - 1 \in 0..(m - 1) /\ d \in 0..(m - 1)
        BY <3>2
      <4> QED BY <2>1, <2>4, <4>1
    <3> QED BY <3>1, <3>2
  <2> HIDE DEF g
  <2>9. Upto(m, g)
    BY <2>6, <2>7, <2>8
  <2> HIDE DEF Upto
  <2> QED BY <2>9
<1>3. n \in U
  <2> HIDE DEF U
  <2>2. 0..n \subseteq U
    BY <1>1, <1>2, Upwards
  <2> QED BY <2>2
<1>4. PICK f : Upto(n, f)
  BY <1>3
<1>5. IsSum(f, c, x, n)
  BY <1>4 DEF IsSum
<1> HIDE DEF Upto
<1> QED BY <1>5

LEMMA SumsAlike ==
  ASSUME NEW n \in Nat, NEW f, NEW g, f[0] = g[0],
         \A d \in 1..n : f[d - 1] = g[d - 1] => f[d] = g[d]
  PROVE  \A d \in 0..n : f[d] = g[d]
<1> DEFINE U == {d \in 0..n : f[d] = g[d]}
<1>1. 0 \in U
  OBVIOUS
<1>2. \A d \in 1..n : d - 1 \in U => d \in U
  OBVIOUS
<1> HIDE DEF U
<1>3. 0..n \subseteq U
  BY <1>1, <1>2, Upwards
<1> QED BY <1>3 DEF U

LEMMA NumberIs ==
  ASSUME NEW s, NEW n, IsDims(s, n), NEW x, NEW f, IsSum(f, Spans(s), x, n)
  PROVE  NumberOf(s, x) = f[n]
<1> DEFINE c == Spans(s)
           loop(g) == [d \in 0..n |-> IF d = 0 THEN 0 ELSE g[d - 1] + x[d] * c[d]]
           res == CHOOSE g : g = loop(g)
<1>0. n \in Nat /\ Len(s) = n
  BY DimsLen DEF IsDims
<1>1. NumberOf(s, x) = res[n]
  BY <1>0 DEF NumberOf
<1> HIDE DEF c
<1>2. f \in [0..n -> Nat] /\ f[0] = 0 /\ \A d \in 1..n : f[d] = f[d - 1] + x[d] * c[d]
  BY DEF IsSum, c
<1>3. f = loop(f)
  <2>1. \A d \in 0..n : f[d] = loop(f)[d]
    BY <1>0, <1>2
  <2>2. f = [d \in 0..n |-> f[d]]
    BY <1>2
  <2> QED BY <2>1, <2>2
<1>4. res = loop(res)
  <2> HIDE DEF loop
  <2> QED BY <1>3
<1> HIDE DEF res
<1>5. res[0] = f[0]
  BY <1>0, <1>2, <1>4
<1>6. \A d \in 1..n : res[d - 1] = f[d - 1] => res[d] = f[d]
  BY <1>0, <1>2, <1>4
<1> HIDE DEF loop
<1>7. \A d \in 0..n : res[d] = f[d]
  <2>1. n \in Nat
    BY <1>0
  <2> QED BY <1>5, <1>6, <2>1, SumsAlike
<1> QED BY <1>0, <1>1, <1>7

\* An index has a number, and a sum that comes to it.
LEMMA NumberSum ==
  ASSUME NEW s, NEW n, IsDims(s, n), NEW x, \A d \in 1..n : x[d] \in Nat
  PROVE  /\ \E f : IsSum(f, Spans(s), x, n) /\ NumberOf(s, x) = f[n]
         /\ NumberOf(s, x) \in Nat
<1>0. n \in Nat /\ \A d \in 1..n : Spans(s)[d] \in Nat
  <2>1. \A d \in 1..n : d \in 0..n
    BY SpanFacts
  <2> QED BY <2>1, SpanFacts
<1>1. PICK f : IsSum(f, Spans(s), x, n)
  BY <1>0, SumExists
<1>2. NumberOf(s, x) = f[n]
  BY <1>1, NumberIs
<1>3. f[n] \in Nat
  BY <1>0, <1>1 DEF IsSum
<1> QED BY <1>1, <1>2, <1>3

-----------------------------------------------------------------------------
(* Indices and their numbers.                                              *)

\* The digits of an index are below the dimensions.
IsIndex(x, s, n) == \A d \in 1..n : x[d] \in 0..(s[d] - 1)

\* What is left of the number behind a place is less than its span.
LEMMA NumberRest ==
  ASSUME NEW s, NEW n, IsDims(s, n), NEW x, IsIndex(x, s, n),
         NEW f, IsSum(f, Spans(s), x, n)
  PROVE  \A d \in 0..n : f[n] - f[d] \in 0..(Spans(s)[d] - 1)
<1> DEFINE c == Spans(s)
           U == {d \in 0..n : f[n] - f[d] \in 0..(c[d] - 1)}
<1>0. /\ n \in Nat \ {0} /\ c[n] = 1
      /\ \A d \in 0..n : f[d] \in Nat /\ c[d] \in Nat \ {0}
      /\ \A d \in 1..n : f[d] = f[d - 1] + x[d] * c[d] /\ c[d - 1] = s[d] * c[d]
      /\ \A d \in 1..n : s[d] \in Nat \ {0} /\ x[d] \in 0..(s[d] - 1)
  BY SpanFacts DEF IsSum, IsIndex
<1> HIDE DEF c
<1>1. n \in U
  BY <1>0
<1>2. ASSUME NEW d \in 1..n, d \in U PROVE d - 1 \in U
  <2> DEFINE xc == x[d] * c[d]
             sc == s[d] * c[d]
  <2>1. d - 1 \in 0..n /\ d \in 0..n
    BY <1>0
  <2>2. x[d] \in Nat /\ s[d] \in Nat /\ x[d] < s[d] /\ c[d] \in Nat \ {0}
    BY <1>0, <2>1
  <2>3. xc + c[d] <= sc
    BY <2>2, Multiples
  <2>4. xc \in Nat /\ sc \in Nat
    BY <2>2
  <2>5. f[d] = f[d - 1] + xc /\ c[d - 1] = sc
    BY <1>0
  <2> HIDE DEF xc, sc
  <2>6. f[d] \in Nat /\ f[d - 1] \in Nat /\ f[n] \in Nat
    BY <1>0, <2>1
  <2>7. f[n] - f[d] \in 0..(c[d] - 1)
    BY <1>2
  <2>8. f[n] - f[d - 1] \in 0..(c[d - 1] - 1)
    BY <2>2, <2>3, <2>4, <2>5, <2>6, <2>7
  <2> QED BY <2>1, <2>8
<1> HIDE DEF U
<1>3. 0..n \subseteq U
  BY <1>0, <1>1, <1>2, Downwards
<1> QED BY <1>3 DEF U, c

\* What is summed up before a place is a multiple of its span.
LEMMA NumberSoFar ==
  ASSUME NEW s, NEW n, IsDims(s, n), NEW x, \A d \in 1..n : x[d] \in Nat,
         NEW f, IsSum(f, Spans(s), x, n)
  PROVE  \A d \in 0..n : \E q \in Nat : f[d] = q * Spans(s)[d]
<1> DEFINE c == Spans(s)
           U == {d \in 0..n : \E q \in Nat : f[d] = q * c[d]}
<1>0. /\ n \in Nat \ {0} /\ f[0] = 0
      /\ \A d \in 0..n : c[d] \in Nat \ {0}
      /\ \A d \in 1..n : f[d] = f[d - 1] + x[d] * c[d] /\ c[d - 1] = s[d] * c[d]
      /\ \A d \in 1..n : s[d] \in Nat \ {0}
  BY SpanFacts DEF IsSum
<1> HIDE DEF c
<1>1. 0 \in U
  <2>1. 0 \in 0..n /\ f[0] = 0 * c[0]
    BY <1>0
  <2> QED BY <2>1
<1>2. ASSUME NEW d \in 1..n, d - 1 \in U PROVE d \in U
  <2>1. PICK q \in Nat : f[d - 1] = q * c[d - 1]
    BY <1>2
  <2>2. s[d] \in Nat /\ x[d] \in Nat /\ c[d] \in Nat /\ d \in 0..n
    BY <1>0
  <2>3. f[d] = q * (s[d] * c[d]) + x[d] * c[d]
    BY <1>0, <2>1
  <2>4. q * (s[d] * c[d]) + x[d] * c[d] = (q * s[d] + x[d]) * c[d]
    BY <2>2
  <2>5. q * s[d] + x[d] \in Nat
    BY <2>2
  <2> QED BY <2>2, <2>3, <2>4, <2>5
<1> HIDE DEF U
<1>3. 0..n \subseteq U
  BY <1>0, <1>1, <1>2, Upwards
<1> QED BY <1>3 DEF U, c

\* The number of an index is below the number of elements, and the index of
\* that number is the index.
LEMMA IndexOfNumber ==
  ASSUME NEW s, NEW n, IsDims(s, n), NEW x, IsIndex(x, s, n)
  PROVE  /\ NumberOf(s, x) \in 0..(NumElements(s) - 1)
         /\ \A d \in 1..n : IndexOf(s, NumberOf(s, x))[d] = x[d]
<1>0. \A d \in 1..n : x[d] \in Nat /\ s[d] \in Nat \ {0} /\ x[d] \in 0..(s[d] - 1)
  BY SpanFacts DEF IsIndex
<1>1. PICK f : IsSum(f, Spans(s), x, n) /\ NumberOf(s, x) = f[n]
  BY <1>0, NumberSum
<1> DEFINE c == Spans(s)
           i == NumberOf(s, x)
<1>2. /\ n \in Nat \ {0} /\ f[0] = 0 /\ Len(s) = n /\ NumElements(s) = c[0]
      /\ \A d \in 0..n : f[d] \in Nat /\ c[d] \in Nat \ {0}
      /\ \A d \in 1..n : f[d] = f[d - 1] + x[d] * c[d] /\ c[d - 1] = s[d] * c[d]
  <2>1. /\ n \in Nat \ {0} /\ Len(s) = n /\ NumElements(s) = c[0]
        /\ \A d \in 0..n : c[d] \in Nat \ {0}
        /\ \A d \in 1..n : c[d - 1] = s[d] * c[d]
    BY SpanFacts
  <2>2. /\ f[0] = 0 /\ \A d \in 0..n : f[d] \in Nat
        /\ \A d \in 1..n : f[d] = f[d - 1] + x[d] * c[d]
    <3> HIDE DEF c
    <3> QED BY <1>1 DEF IsSum, c
  <2> HIDE DEF c
  <2> QED BY <2>1, <2>2
<1>3. \A d \in 0..n : i - f[d] \in 0..(c[d] - 1)
  BY <1>1, NumberRest
<1>4. \A d \in 0..n : \E q \in Nat : f[d] = q * c[d]
  <2>1. \A d \in 1..n : x[d] \in Nat
    BY <1>0
  <2>2. IsSum(f, Spans(s), x, n)
    BY <1>1
  <2> HIDE DEF i
  <2>3. \A d \in 0..n : \E q \in Nat : f[d] = q * Spans(s)[d]
    BY <2>1, <2>2, NumberSoFar
  <2> QED BY <2>3, Zenon
<1>5. i \in Nat /\ 0 \in 0..n
  BY <1>0, <1>2, NumberSum
<1>6. i \in 0..(NumElements(s) - 1)
  <2>1. i - f[0] \in 0..(c[0] - 1)
    BY <1>3, <1>5
  <2> HIDE DEF i, c
  <2> QED BY <1>2, <1>5, <2>1
<1>7. ASSUME NEW d \in 1..n PROVE IndexOf(s, i)[d] = x[d]
  <2>0. d - 1 \in 0..n /\ d \in 0..n
    BY <1>2
  <2>1. PICK q \in Nat : f[d - 1] = q * c[d - 1]
    BY <1>4, <2>0
  <2>2. IndexOf(s, i)[d] = (i \div c[d]) % s[d]
    BY <1>2 DEF IndexOf
  <2> HIDE DEF c, i
  <2> DEFINE sd == s[d]
             xd == x[d]
             cd == c[d]
             r == i - f[d]
  <2>3. /\ r \in 0..(cd - 1) /\ cd \in Nat \ {0} /\ sd \in Nat \ {0} /\ xd \in 0..(sd - 1)
        /\ i = f[d] + r
    <3>1. r \in 0..(cd - 1)
      BY <1>3, <2>0
    <3>2. cd \in Nat \ {0} /\ f[d] \in Nat
      BY <1>2, <2>0
    <3>3. i = f[d] + r
      BY <1>5, <3>2
    <3>4. sd \in Nat \ {0} /\ xd \in 0..(sd - 1)
      BY <1>0
    <3> QED BY <3>1, <3>2, <3>3, <3>4
  <2>4. f[d] = q * (sd * cd) + xd * cd
    BY <1>2, <2>1
  <2> HIDE DEF sd, xd, cd, r
  <2>5. q * (sd * cd) + xd * cd = (q * sd + xd) * cd
    BY <2>3
  <2>6. q * sd + xd \in Nat
    BY <2>3
  <2>7. i = (q * sd + xd) * cd + r
    BY <2>3, <2>4, <2>5
  <2>8. i \div cd = q * sd + xd
    BY <2>3, <2>6, <2>7, Remainder
  <2>9. (q * sd + xd) % sd = xd
    BY <2>3, <2>6, Remainder
  <2> QED BY <2>2, <2>8, <2>9 DEF sd, cd, xd
<1> QED BY <1>6, <1>7

\* An index of a shape has its digits below the dimensions, and its number is
\* the number it is the index of.
LEMMA NumberOfIndex ==
  ASSUME NEW s, NEW n, IsDims(s, n), NEW i \in 0..(NumElements(s) - 1)
  PROVE  /\ IsIndex(IndexOf(s, i), s, n)
         /\ NumberOf(s, IndexOf(s, i)) = i
         /\ DOMAIN IndexOf(s, i) = 1..n /\ Len(IndexOf(s, i)) = n
<1> DEFINE c == Spans(s)
           x == IndexOf(s, i)
           f == [d \in 0..n |-> (i \div c[d]) * c[d]]
<1>1. /\ n \in Nat \ {0} /\ Len(s) = n /\ NumElements(s) = c[0] /\ c[n] = 1
      /\ \A d \in 0..n : c[d] \in Nat \ {0}
      /\ \A d \in 1..n : c[d - 1] = s[d] * c[d] /\ s[d] \in Nat \ {0}
  BY SpanFacts
<1>2. i \in Nat /\ i < c[0]
  BY <1>1
<1>3. \A d \in 0..n : i \div c[d] \in Nat
  BY <1>1, <1>2, Division
<1>4. \A d \in 1..n : x[d] = (i \div c[d]) % s[d]
  BY <1>1 DEF IndexOf
<1>5. DOMAIN x = 1..n /\ Len(x) = n
  <2>1. x = [d \in 1..n |-> (i \div c[d]) % s[d]]
    BY <1>1 DEF IndexOf
  <2> HIDE DEF c
  <2> QED BY <1>1, <2>1
<1> HIDE DEF c, x
<1>6. IsIndex(x, s, n)
  <2> SUFFICES ASSUME NEW d \in 1..n PROVE x[d] \in 0..(s[d] - 1)
    BY DEF IsIndex
  <2>1. d \in 0..n
    BY <1>1
  <2>2. i \div c[d] \in Nat /\ s[d] \in Nat \ {0}
    BY <1>1, <1>3, <2>1
  <2> QED BY <1>4, <2>2, Division
<1>7. IsSum(f, c, x, n)
  <2>1. f \in [0..n -> Nat]
    <3>1. \A d \in 0..n : (i \div c[d]) * c[d] \in Nat
      BY SMTT(30), <1>1, <1>3
    <3> QED BY <3>1
  <2>2. f[0] = 0
    <3>1. i \div c[0] = 0 /\ c[0] \in Nat
      <4>1. c[0] \in Nat \ {0} /\ i \in 0..(c[0] - 1)
        BY <1>1, <1>2
      <4> QED BY <4>1, SmallRemainder
    <3>2. f[0] = 0 * c[0]
      BY <1>1, <3>1
    <3> QED BY <3>1, <3>2
  <2>3. ASSUME NEW d \in 1..n PROVE f[d] = f[d - 1] + x[d] * c[d]
    <3> DEFINE cd == c[d]
               sd == s[d]
               p == i \div cd
               q == p \div sd
    <3>1. d \in 0..n /\ d - 1 \in 0..n
      BY <1>1
    <3>2. cd \in Nat \ {0} /\ sd \in Nat \ {0} /\ p \in Nat
      BY <1>1, <1>3, <3>1
    <3>3. x[d] = p % sd
      BY <1>4
    <3>4. i \div (sd * cd) = q
      BY <1>2, <3>2, DivideTwice
    <3>5. p = q * sd + x[d] /\ q \in Nat /\ x[d] \in Nat
      <4> HIDE DEF p, sd
      <4>1. q \in Nat /\ p % sd \in 0..(sd - 1) /\ p = q * sd + (p % sd)
        BY <3>2, Division
      <4> QED BY <3>2, <3>3, <4>1
    <3>6. f[d] = p * cd /\ f[d - 1] = q * (sd * cd)
      <4>1. f[d] = p * cd
        BY <3>1
      <4>2. f[d - 1] = (i \div c[d - 1]) * c[d - 1] /\ c[d - 1] = sd * cd
        BY <1>1, <3>1
      <4> QED BY <3>4, <4>1, <4>2
    <3> HIDE DEF p, q, sd, f
    <3>7. (q * sd + x[d]) * cd = q * (sd * cd) + x[d] * cd
      BY <3>2, <3>5
    <3>8. f[d] = f[d - 1] + x[d] * cd
      BY <3>5, <3>6, <3>7
    <3> QED BY <3>8
  <2> HIDE DEF f
  <2> QED BY <2>1, <2>2, <2>3 DEF IsSum
<1>8. NumberOf(s, x) = f[n]
  <2> HIDE DEF f
  <2> QED BY <1>7, NumberIs DEF c
<1>9. f[n] = i
  <2>1. i \div 1 = i
    BY <1>2
  <2>2. n \in 0..n /\ c[n] = 1
    BY <1>1
  <2>3. f[n] = (i \div c[n]) * c[n]
    BY <2>2
  <2> HIDE DEF f
  <2> QED BY <1>2, <2>1, <2>2, <2>3
<1> QED BY <1>5, <1>6, <1>8, <1>9 DEF x

\* Two indices with the same number are the same.
LEMMA NumbersDiffer ==
  ASSUME NEW s, NEW n, IsDims(s, n), NEW x, IsIndex(x, s, n), NEW y, IsIndex(y, s, n),
         NumberOf(s, x) = NumberOf(s, y)
  PROVE  \A d \in 1..n : x[d] = y[d]
<1>1. \A d \in 1..n : IndexOf(s, NumberOf(s, x))[d] = x[d]
  BY IndexOfNumber
<1>2. \A d \in 1..n : IndexOf(s, NumberOf(s, y))[d] = y[d]
  BY IndexOfNumber
<1> QED BY <1>1, <1>2

\* The same digits make the same number, and greater ones a greater.
LEMMA NumbersSame ==
  ASSUME NEW s, NEW n, IsDims(s, n), NEW x, NEW y,
         \A d \in 1..n : x[d] \in Nat /\ y[d] = x[d]
  PROVE  NumberOf(s, y) = NumberOf(s, x)
<1>1. PICK f : IsSum(f, Spans(s), x, n) /\ NumberOf(s, x) = f[n]
  BY NumberSum
<1>2. IsSum(f, Spans(s), y, n)
  BY <1>1 DEF IsSum
<1> QED BY <1>1, <1>2, NumberIs

LEMMA NumbersGrow ==
  ASSUME NEW s, NEW n, IsDims(s, n), NEW x, NEW y,
         \A d \in 1..n : x[d] \in Nat /\ y[d] \in Nat /\ x[d] <= y[d],
         NEW e \in 1..n, x[e] < y[e]
  PROVE  NumberOf(s, x) < NumberOf(s, y)
<1> DEFINE c == Spans(s)
<1>1. PICK f : IsSum(f, c, x, n) /\ NumberOf(s, x) = f[n]
  BY NumberSum
<1>2. PICK g : IsSum(g, c, y, n) /\ NumberOf(s, y) = g[n]
  BY NumberSum
<1>3. n \in Nat /\ \A d \in 1..n : c[d] \in Nat \ {0}
  <2>1. \A d \in 1..n : d \in 0..n
    BY SpanFacts
  <2> QED BY <2>1, SpanFacts
<1> HIDE DEF c
<1> DEFINE U == {d \in 0..n : f[d] <= g[d] /\ (e <= d => f[d] < g[d])}
<1>4. 0 \in U
  BY <1>1, <1>2, <1>3 DEF IsSum
<1>5. ASSUME NEW d \in 1..n, d - 1 \in U PROVE d \in U
  <2> DEFINE xc == x[d] * c[d]
             yc == y[d] * c[d]
  <2>1. f[d] = f[d - 1] + xc /\ g[d] = g[d - 1] + yc
    BY <1>1, <1>2 DEF IsSum
  <2>2. d - 1 \in 0..n /\ d \in 0..n /\ c[d] \in Nat \ {0} /\ x[d] \in Nat /\ y[d] \in Nat
    BY <1>3
  <2>3. f[d - 1] \in Nat /\ g[d - 1] \in Nat
    BY <1>1, <1>2, <2>2 DEF IsSum
  <2>4. xc \in Nat /\ yc \in Nat
    BY <2>2
  <2>5. x[d] < y[d] => xc + c[d] <= yc
    BY <2>2, Multiples
  <2>6. x[d] = y[d] => xc = yc
    OBVIOUS
  <2> HIDE DEF xc, yc
  <2>7. f[d - 1] <= g[d - 1] /\ (e <= d - 1 => f[d - 1] < g[d - 1])
    BY <1>5
  <2>8. x[d] < y[d] \/ x[d] = y[d]
    BY <2>2
  <2>9. e = d => x[d] < y[d]
    OBVIOUS
  <2>10. f[d] <= g[d]
    BY <2>1, <2>2, <2>3, <2>4, <2>5, <2>6, <2>7, <2>8
  <2>11. ASSUME e <= d PROVE f[d] < g[d]
    <3>1. CASE e = d
      BY <2>1, <2>2, <2>3, <2>4, <2>5, <2>7, <2>9, <3>1
    <3>2. CASE e # d
      <4>1. e <= d - 1
        BY <2>2, <2>11, <3>2
      <4> QED BY <2>1, <2>2, <2>3, <2>4, <2>5, <2>6, <2>7, <2>8, <4>1
    <3> QED BY <3>1, <3>2
  <2> QED BY <2>2, <2>10, <2>11
<1> HIDE DEF U
<1>6. 0..n \subseteq U
  BY <1>3, <1>4, <1>5, Upwards
<1>7. n \in U /\ e <= n
  BY <1>3, <1>6
<1>8. f[n] < g[n]
  BY <1>7 DEF U
<1> QED BY <1>1, <1>2, <1>8

-----------------------------------------------------------------------------
(* Views.                                                                  *)

\* A view's dimensions are positive, each a multiple of how often it repeats, and
\* its part of the storage holds the elements it really has.
ViewOK(v) ==
  /\ v \in [shape : Seq(Nat \ {0}), degree : Seq(Nat \ {0}),
            start : Nat, end : Nat, store : Nat]
  /\ v.shape # <<>> /\ Len(v.degree) = Len(v.shape)
  /\ \A d \in 1..Len(v.shape) : v.shape[d] % v.degree[d] = 0
  /\ v.end = v.start + NumElements(Real(v)) /\ v.end <= v.store

\* An index without the repetitions, and where its element is.
Residues(r, x) == [d \in DOMAIN r |-> x[d] % r[d]]
PlaceAt(v, x) == v.start + NumberOf(Real(v), Residues(Real(v), x))

\* Where each element of a view is.
PlacesOf(v) == [i \in 1..NumElements(v.shape) |-> PlaceAt(v, IndexOf(v.shape, i - 1))]

\* What the shapes of a view say.
LEMMA ViewDims ==
  ASSUME NEW v, ViewOK(v), NEW n, n = Len(v.shape)
  PROVE  /\ IsDims(v.shape, n) /\ IsDims(v.degree, n) /\ IsDims(Real(v), n)
         /\ \A d \in 1..n :
              /\ v.shape[d] \in Nat \ {0} /\ v.degree[d] \in Nat \ {0}
              /\ Real(v)[d] \in Nat \ {0}
              /\ Real(v)[d] = v.shape[d] \div v.degree[d]
              /\ v.shape[d] = v.degree[d] * Real(v)[d]
         /\ v.start \in Nat /\ v.end \in Nat /\ v.store \in Nat
         /\ v.end = v.start + NumElements(Real(v)) /\ v.end <= v.store
         /\ DOMAIN Real(v) = 1..n /\ DOMAIN v.shape = 1..n /\ DOMAIN v.degree = 1..n
<1>1. v.shape \in Seq(Nat \ {0}) /\ v.degree \in Seq(Nat \ {0})
  BY DEF ViewOK
<1>2. IsDims(v.shape, n)
  BY <1>1, SeqIsDims DEF ViewOK
<1>3. n \in Nat \ {0}
  BY <1>2 DEF IsDims
<1>4. v.degree # <<>>
  BY <1>3, EmptySeq DEF ViewOK
<1>5. IsDims(v.degree, n)
  BY <1>1, <1>4, SeqIsDims DEF ViewOK
<1>6. \A d \in 1..n : v.shape[d] \in Nat \ {0} /\ v.degree[d] \in Nat \ {0}
  BY <1>2, <1>5 DEF IsDims
<1>7. ASSUME NEW d \in 1..n
      PROVE  /\ v.shape[d] \div v.degree[d] \in Nat \ {0}
             /\ v.shape[d] = v.degree[d] * (v.shape[d] \div v.degree[d])
  <2> DEFINE a == v.shape[d]
             b == v.degree[d]
             q == a \div b
  <2>1. a \in Nat \ {0} /\ b \in Nat \ {0} /\ a % b = 0
    BY <1>6 DEF ViewOK
  <2> HIDE DEF a, b
  <2>2. q \in Nat /\ a = q * b + 0
    BY <2>1, Division
  <2> HIDE DEF q
  <2>3. q \in Nat \ {0} /\ a = b * q
    <3>1. q = 0 => q * b = 0
      BY <2>1
    <3>2. q * b = b * q /\ q * b \in Nat
      BY <2>1, <2>2
    <3> QED BY <2>1, <2>2, <3>1, <3>2
  <2> QED BY <2>3 DEF a, b, q
<1>8. Real(v) = [d \in 1..n |-> v.shape[d] \div v.degree[d]]
  BY DEF Real
<1>9. \A d \in 1..n : Real(v)[d] = v.shape[d] \div v.degree[d]
  BY <1>8
<1>10. IsDims(Real(v), n)
  BY <1>3, <1>7, <1>8 DEF IsDims
<1>11. ASSUME NEW d \in 1..n
       PROVE  Real(v)[d] \in Nat \ {0} /\ v.shape[d] = v.degree[d] * Real(v)[d]
  BY <1>7, <1>9
<1>12. DOMAIN Real(v) = 1..n /\ DOMAIN v.shape = 1..n /\ DOMAIN v.degree = 1..n
  BY <1>2, <1>5, <1>10, DimsLen
<1>13. /\ v.start \in Nat /\ v.end \in Nat /\ v.store \in Nat
       /\ v.end = v.start + NumElements(Real(v)) /\ v.end <= v.store
  BY DEF ViewOK
<1> QED BY <1>2, <1>5, <1>6, <1>9, <1>10, <1>11, <1>12, <1>13

\* The index without repetitions is one of the elements that are there.
LEMMA ResidueNumber ==
  ASSUME NEW r, NEW n, IsDims(r, n), NEW x, \A d \in 1..n : x[d] \in Nat
  PROVE  /\ IsIndex(Residues(r, x), r, n)
         /\ NumberOf(r, Residues(r, x)) \in 0..(NumElements(r) - 1)
         /\ \A d \in 1..n : Residues(r, x)[d] = x[d] % r[d] /\ Residues(r, x)[d] \in Nat
<1>1. DOMAIN r = 1..n /\ \A d \in 1..n : r[d] \in Nat \ {0}
  BY DimsLen
<1>2. \A d \in 1..n : Residues(r, x)[d] = x[d] % r[d]
  BY <1>1 DEF Residues
<1>3. IsIndex(Residues(r, x), r, n)
  <2> SUFFICES ASSUME NEW d \in 1..n PROVE Residues(r, x)[d] \in 0..(r[d] - 1)
    BY DEF IsIndex
  <2> QED BY <1>1, <1>2, Division
<1>4. NumberOf(r, Residues(r, x)) \in 0..(NumElements(r) - 1)
  BY <1>3, IndexOfNumber
<1>5. \A d \in 1..n : Residues(r, x)[d] \in Nat
  BY <1>1, <1>3 DEF IsIndex
<1> QED BY <1>2, <1>3, <1>4, <1>5

\* A stride within the view leads to its place in the storage; any other to a
\* place behind it or nowhere.
LEMMA Positions ==
  ASSUME NEW v, ViewOK(v), NEW p \in Nat
  PROVE  /\ p < NumElements(Real(v)) => Position(v, p) = v.start + p
         /\ \A q \in Nat : Position(v, p) = v.start + q => p = q
<1>1. /\ v.start \in Nat /\ v.end \in Nat /\ v.store \in Nat
      /\ v.end = v.start + NumElements(Real(v)) /\ v.end <= v.store
  BY ViewDims
<1>2. NumElements(Real(v)) \in Nat
  <2>1. IsDims(Real(v), Len(v.shape))
    BY ViewDims
  <2> QED BY <2>1, SpanFacts
<1>3. ASSUME p < NumElements(Real(v)) PROVE Position(v, p) = v.start + p
  BY <1>1, <1>2, <1>3 DEF Position
<1>4. ASSUME NEW q \in Nat, Position(v, p) = v.start + q PROVE p = q
  <2>1. Position(v, p) # Nowhere
    BY <1>1, <1>4, NowhereAssumption
  <2>2. Position(v, p) = v.start + p
    BY <2>1 DEF Position
  <2> QED BY <1>1, <1>4, <2>2
<1> QED BY <1>3, <1>4

\* The place of the element with an index.
LEMMA PlaceOfIndex ==
  ASSUME NEW v, ViewOK(v), NEW n, n = Len(v.shape), NEW x, IsIndex(x, v.shape, n)
  PROVE  /\ NumberOf(v.shape, x) + 1 \in 1..NumElements(v.shape)
         /\ PlacesOf(v)[NumberOf(v.shape, x) + 1] = PlaceAt(v, x)
<1> DEFINE i == NumberOf(v.shape, x)
           y == IndexOf(v.shape, i)
           r == Real(v)
<1>1. IsDims(v.shape, n) /\ IsDims(r, n) /\ DOMAIN r = 1..n
  BY ViewDims
<1>2. i \in 0..(NumElements(v.shape) - 1) /\ \A d \in 1..n : y[d] = x[d]
  BY <1>1, IndexOfNumber
<1>3. i + 1 \in 1..NumElements(v.shape) /\ (i + 1) - 1 = i
  <2>1. NumElements(v.shape) \in Nat
    BY <1>1, SpanFacts
  <2> QED BY <1>2, <2>1
<1>4. PlacesOf(v)[i + 1] = PlaceAt(v, y)
  <2>1. PlacesOf(v)[i + 1] = PlaceAt(v, IndexOf(v.shape, (i + 1) - 1))
    BY <1>3 DEF PlacesOf
  <2> QED BY <1>3, <2>1
<1>5. Residues(r, y) = Residues(r, x)
  BY <1>1, <1>2 DEF Residues
<1> QED BY <1>3, <1>4, <1>5 DEF PlaceAt

\* An iterator that steps: the offset after k steps.
LEMMA StepRowIs ==
  ASSUME NEW v, Real(v)[1] \in Nat \ {0}, Strides(v)[1] \in Nat, NEW k \in Nat
  PROVE  StepRow(v, k) = IF k < Real(v)[1] THEN k * Strides(v)[1] ELSE 0
<1> DEFINE rows == Real(v)[1]
           stride == Strides(v)[1]
           loop(f) == [i \in 0..k |-> IF i = 0 \/ i >= rows THEN 0 ELSE f[i - 1] + stride]
           g == [i \in 0..k |-> IF i < rows THEN i * stride ELSE 0]
           res == CHOOSE f : f = loop(f)
<1>1. StepRow(v, k) = res[k]
  BY DEF StepRow
<1>2. rows \in Nat \ {0} /\ stride \in Nat
  OBVIOUS
<1> HIDE DEF rows, stride
<1>3. g = loop(g)
  <2>1. ASSUME NEW i \in 0..k PROVE g[i] = loop(g)[i]
    <3>1. CASE i = 0
      <4>1. g[0] = 0 * stride
        BY <1>2
      <4> QED BY <1>2, <3>1, <4>1
    <3>2. CASE i # 0 /\ i < rows
      <4>1. i - 1 \in 0..k /\ i - 1 < rows /\ ~ (i >= rows)
        BY <1>2, <3>2
      <4>2. loop(g)[i] = (i - 1) * stride + stride
        BY <3>2, <4>1
      <4>3. g[i] = i * stride
        BY <3>2
      <4>4. i * stride = (i - 1) * stride + stride
        BY <1>2
      <4> QED BY <4>2, <4>3, <4>4
    <3>3. CASE i # 0 /\ i >= rows
      BY <1>2, <3>3
    <3> QED BY <1>2, <3>1, <3>2, <3>3
  <2> QED BY <2>1
<1>4. res = loop(res)
  <2> HIDE DEF loop, g
  <2> QED BY <1>3
<1> HIDE DEF res
<1>5. res[0] = g[0]
  <2>1. 0 \in 0..k /\ 0 * stride = 0
    BY <1>2
  <2>2. res[0] = loop(res)[0] /\ loop(res)[0] = 0
    BY <1>4, <2>1
  <2>3. g[0] = 0
    BY <1>2, <2>1
  <2> QED BY <2>2, <2>3
<1>6. \A i \in 1..k : res[i - 1] = g[i - 1] => res[i] = g[i]
  <2> TAKE i \in 1..k
  <2>1. res[i] = loop(res)[i] /\ g[i] = loop(g)[i]
    BY <1>3, <1>4
  <2> HIDE DEF g
  <2> QED BY <2>1
<1> HIDE DEF g, loop
<1>7. \A i \in 0..k : res[i] = g[i]
  BY <1>5, <1>6, SumsAlike
<1>8. g[k] = IF k < rows THEN k * stride ELSE 0
  BY DEF g
<1> QED BY <1>1, <1>7, <1>8 DEF rows, stride

\* The rows of a dimension: the last ones of a view.
LEMMA RowsBehind ==
  ASSUME NEW v, ViewOK(v), NEW n, n = Len(v.shape), NEW d \in 1..n, NEW u,
         u.shape = SubSeq(v.shape, d, n), u.degree = SubSeq(v.degree, d, n)
  PROVE  /\ IsDims(u.shape, n - d + 1) /\ IsDims(Real(u), n - d + 1)
         /\ \A e \in 1..(n - d + 1) : Real(u)[e] = Real(v)[d - 1 + e]
         /\ \A e \in 0..(n - d + 1) : Strides(u)[e] = Strides(v)[d - 1 + e]
         /\ Real(u)[1] = Real(v)[d] /\ Strides(u)[1] = Strides(v)[d]
<1> DEFINE k == n - d + 1
<1>1. /\ n \in Nat \ {0} /\ IsDims(v.shape, n) /\ IsDims(v.degree, n) /\ IsDims(Real(v), n)
      /\ \A e \in 1..n : Real(v)[e] = v.shape[e] \div v.degree[e]
  BY ViewDims DEF IsDims
<1>2. k \in Nat \ {0} /\ k = n - d + 1 /\ d \in Nat /\ d - 1 + 1 = d /\ 1 \in 0..k /\ 1 \in 1..k
      /\ d - 1 \in Nat /\ (d - 1) + k = n
  BY <1>1
<1>3. /\ Len(u.shape) = k /\ \A e \in 1..k : u.shape[e] = v.shape[d - 1 + e]
      /\ \A e \in 1..k : u.degree[e] = v.degree[d - 1 + e]
      /\ u.shape = [e \in 1..k |-> u.shape[e]]
  <2>1. v.shape \in Seq(Nat \ {0}) /\ v.degree \in Seq(Nat \ {0})
    BY <1>1, DimsLen
  <2>2. u.shape = [e \in 1..k |-> v.shape[d + e - 1]]
    BY SMTT(30), <1>2, <2>1
  <2>3. u.degree = [e \in 1..k |-> v.degree[d + e - 1]]
    BY SMTT(30), <1>2, <2>1
  <2>4. \A e \in 1..k : d + e - 1 = d - 1 + e
    BY <1>2
  <2>5. Len(u.shape) = k
    BY <1>2, <2>2
  <2>6. \A e \in 1..k : u.shape[e] = v.shape[d - 1 + e]
    BY <2>2, <2>4
  <2>7. \A e \in 1..k : u.degree[e] = v.degree[d - 1 + e]
    BY <2>3, <2>4
  <2>8. u.shape = [e \in 1..k |-> u.shape[e]]
    BY <2>2
  <2> HIDE DEF k
  <2> QED BY <2>5, <2>6, <2>7, <2>8
<1> HIDE DEF k
<1>4. \A e \in 1..k : d - 1 + e \in 1..n
  BY <1>1, <1>2
<1>5. IsDims(u.shape, k)
  <2>1. \A e \in 1..n : v.shape[e] \in Nat \ {0}
    BY <1>1 DEF IsDims
  <2>2. \A e \in 1..k : u.shape[e] \in Nat \ {0}
    BY <1>3, <1>4, <2>1
  <2> QED BY <1>2, <1>3, <2>2 DEF IsDims
<1>6. Real(u) = [e \in 1..k |-> u.shape[e] \div u.degree[e]]
  BY <1>3 DEF Real
<1>7. \A e \in 1..k : Real(u)[e] = Real(v)[d - 1 + e]
  BY <1>1, <1>3, <1>4, <1>6
<1>8. IsDims(Real(u), k)
  <2>1. \A e \in 1..k : Real(u)[e] \in Nat \ {0}
    BY <1>1, <1>4, <1>7 DEF IsDims
  <2>2. Real(u) = [e \in 1..k |-> Real(u)[e]]
    BY <1>6
  <2> QED BY <1>2, <2>1, <2>2 DEF IsDims
<1>9. \A e \in 0..k : Spans(Real(u))[e] = Spans(Real(v))[d - 1 + e]
  <2> DEFINE m == d - 1
             r == Real(u)
             s == Real(v)
  <2>1. m \in Nat
    BY <1>2
  <2>2. m + k = n
    BY <1>2
  <2>3. IsDims(s, n)
    BY <1>1
  <2>4. IsDims(r, k)
    BY <1>8
  <2>5. \A e \in 1..k : r[e] = s[m + e]
    BY <1>7
  <2> HIDE DEF m, r, s
  <2>6. Behind(r, k, s, n, m)
    BY <2>1, <2>2, <2>3, <2>4, <2>5 DEF Behind
  <2>7. \A e \in 0..k : Spans(r)[e] = Spans(s)[m + e]
    BY <2>6, SpansBehind
  <2> QED BY <2>7 DEF m, r, s
<1>10. \A e \in 0..k : Strides(u)[e] = Strides(v)[d - 1 + e]
  BY <1>9 DEF Strides
<1>11. Real(u)[1] = Real(v)[d] /\ Strides(u)[1] = Strides(v)[d]
  BY <1>2, <1>7, <1>10
<1> QED BY <1>5, <1>7, <1>8, <1>10, <1>11 DEF k

\* The element a walk visits at an index: it repeats those of the last dimension,
\* and falls back to the first row in the others.
Walked(v, x) ==
  [d \in 1..Len(v.shape) |->
     IF d = Len(v.shape) THEN x[d] % Real(v)[d]
     ELSE IF x[d] < Real(v)[d] THEN x[d] ELSE 0]

LEMMA WalkedIndex ==
  ASSUME NEW v, ViewOK(v), NEW n, n = Len(v.shape), NEW x, \A d \in 1..n : x[d] \in Nat
  PROVE  /\ IsIndex(Walked(v, x), Real(v), n)
         /\ NumberOf(Real(v), Walked(v, x)) \in 0..(NumElements(Real(v)) - 1)
         /\ \A d \in 1..n : Walked(v, x)[d] \in Nat
<1>1. IsDims(Real(v), n) /\ \A d \in 1..n : Real(v)[d] \in Nat \ {0}
  BY ViewDims
<1>2. ASSUME NEW d \in 1..n
      PROVE  Walked(v, x)[d] \in 0..(Real(v)[d] - 1) /\ Walked(v, x)[d] \in Nat
  <2> DEFINE rd == Real(v)[d]
             xd == x[d]
  <2>1. rd \in Nat \ {0} /\ xd \in Nat
    BY <1>1
  <2>2. Walked(v, x)[d] = IF d = n THEN xd % rd ELSE IF xd < rd THEN xd ELSE 0
    BY DEF Walked
  <2> HIDE DEF rd, xd
  <2>3. xd % rd \in 0..(rd - 1)
    BY <2>1, Division
  <2>4. Walked(v, x)[d] \in 0..(rd - 1)
    <3>1. CASE d = n
      BY <2>2, <2>3, <3>1
    <3>2. CASE d # n /\ xd < rd
      BY <2>1, <2>2, <3>2
    <3>3. CASE d # n /\ ~ (xd < rd)
      BY <2>1, <2>2, <3>3
    <3> QED BY <3>1, <3>2, <3>3
  <2> QED BY <2>1, <2>4 DEF rd
<1>3. IsIndex(Walked(v, x), Real(v), n)
  BY <1>2 DEF IsIndex
<1> QED BY <1>1, <1>2, <1>3, IndexOfNumber

LEMMA WalkIs ==
  ASSUME NEW v, ViewOK(v)
  PROVE  WalkOrder(v) =
           [i \in 1..NumElements(v.shape) |->
              v.start + NumberOf(Real(v), Walked(v, IndexOf(v.shape, i - 1)))]
<1> DEFINE n == Len(v.shape)
           Rows(d) == [v EXCEPT !.shape = SubSeq(@, d, n), !.degree = SubSeq(@, d, n)]
           steps == [d \in 1..n |-> [k \in 0..(v.shape[d] - 1) |->
                      IF d = n THEN k % Real(v)[n] ELSE StepRow(Rows(d), k)]]
           loop(index, f) == [d \in 0..n |->
                      IF d = 0 THEN 0 ELSE f[d - 1] + steps[d][index[d]]]
           Offset(index) == (CHOOSE f : f = loop(index, f))[n]
<1>1. WalkOrder(v) =
        [i \in 1..NumElements(v.shape) |-> Position(v, Offset(IndexOf(v.shape, i - 1)))]
  BY DEF WalkOrder
<1>2. /\ n \in Nat \ {0} /\ IsDims(v.shape, n) /\ IsDims(Real(v), n)
      /\ \A d \in 1..n : Real(v)[d] \in Nat \ {0} /\ v.shape[d] \in Nat \ {0}
      /\ \A d \in 1..n : Strides(v)[d] \in Nat
      /\ Strides(v)[n] = 1
  <2>1. IsDims(v.shape, n) /\ IsDims(Real(v), n)
        /\ \A d \in 1..n : Real(v)[d] \in Nat \ {0} /\ v.shape[d] \in Nat \ {0}
    BY ViewDims
  <2>2. \A d \in 0..n : Strides(v)[d] \in Nat
    BY <2>1, SpanFacts DEF Strides
  <2>3. Strides(v)[n] = 1 /\ n \in Nat \ {0}
    BY <2>1, SpanFacts DEF Strides
  <2> HIDE DEF n
  <2> QED BY <2>1, <2>2, <2>3
<1>3. ASSUME NEW x, IsIndex(x, v.shape, n), NEW d \in 1..n
      PROVE  steps[d][x[d]] = Walked(v, x)[d] * Strides(v)[d]
  <2>1. x[d] \in 0..(v.shape[d] - 1) /\ x[d] \in Nat
    BY <1>2, <1>3 DEF IsIndex
  <2>2. CASE d = n
    <3>1. steps[d][x[d]] = x[d] % Real(v)[n]
      BY <2>1, <2>2
    <3>2. Walked(v, x)[d] = x[d] % Real(v)[n]
      BY <2>2 DEF Walked
    <3>3. x[d] % Real(v)[n] \in Nat
      <4> DEFINE rd == Real(v)[d]
                 xd == x[d]
      <4>1. rd \in Nat \ {0} /\ xd \in Nat
        BY <1>2, <2>1
      <4> HIDE DEF rd, xd
      <4>2. xd % rd \in 0..(rd - 1)
        BY <4>1, Division
      <4>3. xd % rd \in Nat
        BY <4>1, <4>2
      <4> QED BY <2>2, <4>3 DEF rd, xd
    <3>4. Strides(v)[d] = 1
      BY <1>2, <2>2
    <3> HIDE DEF steps, n
    <3> QED BY <3>1, <3>2, <3>3, <3>4
  <2>3. CASE d # n
    <3>1. steps[d][x[d]] = StepRow(Rows(d), x[d])
      BY <2>1, <2>3
    <3> DEFINE u == Rows(d)
    <3>2. u.shape = SubSeq(v.shape, d, n) /\ u.degree = SubSeq(v.degree, d, n)
      BY DEF ViewOK
    <3>3. Real(u)[1] = Real(v)[d] /\ Strides(u)[1] = Strides(v)[d]
      <4>1. n = Len(v.shape)
        OBVIOUS
      <4> HIDE DEF n, u
      <4> QED BY <3>2, <4>1, RowsBehind
    <3>4. StepRow(u, x[d]) = IF x[d] < Real(u)[1] THEN x[d] * Strides(u)[1] ELSE 0
      <4>1. Real(u)[1] \in Nat \ {0} /\ Strides(u)[1] \in Nat
        BY <1>2, <3>3
      <4> HIDE DEF u
      <4> QED BY <2>1, <4>1, StepRowIs
    <3>5. Walked(v, x)[d] = IF x[d] < Real(v)[d] THEN x[d] ELSE 0
      BY <2>3 DEF Walked
    <3>6. 0 * Strides(v)[d] = 0
      BY <1>2
    <3> HIDE DEF steps
    <3> QED BY <3>1, <3>3, <3>4, <3>5, <3>6
  <2> QED BY <2>2, <2>3
<1> HIDE DEF steps
<1>4. ASSUME NEW x, IsIndex(x, v.shape, n)
      PROVE  Offset(x) = NumberOf(Real(v), Walked(v, x))
  <2>0. \A d \in 1..n : Walked(v, x)[d] \in Nat
    <3>1. \A d \in 1..n : x[d] \in Nat
      BY <1>2, <1>4 DEF IsIndex
    <3> QED BY <3>1, WalkedIndex
  <2>1. PICK f : IsSum(f, Spans(Real(v)), Walked(v, x), n)
                 /\ NumberOf(Real(v), Walked(v, x)) = f[n]
    <3> DEFINE r == Real(v)
               y == Walked(v, x)
    <3>1. IsDims(r, n)
      BY <1>2
    <3>2. \A d \in 1..n : y[d] \in Nat
      BY <2>0
    <3> HIDE DEF r, y, n
    <3>3. \E f : IsSum(f, Spans(r), y, n) /\ NumberOf(r, y) = f[n]
      BY <3>1, <3>2, NumberSum
    <3> QED BY <3>3 DEF r, y
  <2> DEFINE res == CHOOSE g : g = loop(x, g)
             w == Walked(v, x)
             c == Spans(Real(v))
  <2>2. f \in [0..n -> Nat] /\ f[0] = 0 /\ \A d \in 1..n : f[d] = f[d - 1] + w[d] * c[d]
    BY <2>1 DEF IsSum
  <2>3. \A d \in 1..n : steps[d][x[d]] = w[d] * c[d]
    BY <1>3, <1>4 DEF Strides
  <2>4. f = loop(x, f)
    <3> HIDE DEF w, c, n
    <3>1. \A d \in 0..n : f[d] = loop(x, f)[d]
      BY <1>2, <2>2, <2>3
    <3>2. f = [d \in 0..n |-> f[d]]
      BY <2>2
    <3> QED BY <3>1, <3>2
  <2>5. res = loop(x, res)
    <3> HIDE DEF loop
    <3> QED BY <2>4
  <2>6. Offset(x) = res[n]
    OBVIOUS
  <2> HIDE DEF res, w, c, n
  <2>7. res[0] = f[0]
    BY <1>2, <2>4, <2>5
  <2>8. \A d \in 1..n : res[d - 1] = f[d - 1] => res[d] = f[d]
    <3> TAKE d \in 1..n
    <3>1. d \in 0..n /\ d # 0
      BY <1>2
    <3>2. res[d] = res[d - 1] + steps[d][x[d]] /\ f[d] = f[d - 1] + steps[d][x[d]]
      BY <2>4, <2>5, <3>1
    <3> QED BY <3>2
  <2> HIDE DEF loop
  <2>9. \A d \in 0..n : res[d] = f[d]
    <3>1. n \in Nat
      BY <1>2
    <3> QED BY <2>7, <2>8, <3>1, SumsAlike
  <2> QED BY <1>2, <2>1, <2>6, <2>9
<1> HIDE DEF Offset
<1>5. ASSUME NEW i \in 1..NumElements(v.shape)
      PROVE  Position(v, Offset(IndexOf(v.shape, i - 1)))
               = v.start + NumberOf(Real(v), Walked(v, IndexOf(v.shape, i - 1)))
  <2> DEFINE x == IndexOf(v.shape, i - 1)
             p == NumberOf(Real(v), Walked(v, x))
  <2>1. i - 1 \in 0..(NumElements(v.shape) - 1)
    <3>1. NumElements(v.shape) \in Nat
      BY <1>2, SpanFacts
    <3> QED BY <3>1
  <2>2. IsIndex(x, v.shape, n)
    BY <1>2, <2>1, NumberOfIndex
  <2>3. Offset(x) = p
    BY <1>4, <2>2
  <2>4. p \in 0..(NumElements(Real(v)) - 1)
    <3>1. \A d \in 1..n : x[d] \in Nat
      BY <1>2, <2>2 DEF IsIndex
    <3> QED BY <3>1, WalkedIndex
  <2>5. p \in Nat /\ p < NumElements(Real(v))
    <3>1. NumElements(Real(v)) \in Nat
      BY <1>2, SpanFacts
    <3> QED BY <2>4, <3>1
  <2> HIDE DEF x, p
  <2>6. Position(v, p) = v.start + p
    BY <2>5, Positions
  <2> QED BY <2>3, <2>6 DEF x, p
<1> QED BY <1>1, <1>5

\* The element a walk visits for an index.
LEMMA WalkOfIndex ==
  ASSUME NEW v, ViewOK(v), NEW n, n = Len(v.shape), NEW x, IsIndex(x, v.shape, n)
  PROVE  WalkOrder(v)[NumberOf(v.shape, x) + 1] = v.start + NumberOf(Real(v), Walked(v, x))
<1> DEFINE i == NumberOf(v.shape, x)
           y == IndexOf(v.shape, i)
<1>1. IsDims(v.shape, n)
  BY ViewDims
<1>2. i \in 0..(NumElements(v.shape) - 1) /\ \A d \in 1..n : y[d] = x[d]
  BY <1>1, IndexOfNumber
<1>3. i + 1 \in 1..NumElements(v.shape) /\ (i + 1) - 1 = i
  <2>1. NumElements(v.shape) \in Nat
    BY <1>1, SpanFacts
  <2> QED BY <1>2, <2>1
<1>4. WalkOrder(v)[i + 1] = v.start + NumberOf(Real(v), Walked(v, y))
  <2>1. WalkOrder(v)[i + 1]
          = v.start + NumberOf(Real(v), Walked(v, IndexOf(v.shape, (i + 1) - 1)))
    <3> HIDE DEF i
    <3> QED BY <1>3, WalkIs
  <2> QED BY <1>3, <2>1
<1>5. Walked(v, y) = Walked(v, x)
  BY <1>2 DEF Walked
<1> QED BY <1>4, <1>5

\* A walk visits the elements where they are, unless it has to repeat the rows of
\* a dimension before the last.
LEMMA WalksFollow ==
  ASSUME NEW v, ViewOK(v)
  PROVE  WalkOrder(v) = PlacesOf(v) <=>
           \A d \in 1..(Len(v.shape) - 1) : v.degree[d] = 1 \/ Real(v)[d] = 1
<1> DEFINE n == Len(v.shape)
           s == v.shape
           r == Real(v)
<1>1. n \in Nat \ {0} /\ IsDims(s, n) /\ IsDims(r, n)
  BY ViewDims DEF IsDims
<1>2. ASSUME NEW d \in 1..n
      PROVE  /\ s[d] \in Nat \ {0} /\ r[d] \in Nat \ {0} /\ v.degree[d] \in Nat \ {0}
             /\ s[d] = v.degree[d] * r[d]
  BY ViewDims
<1>3. ASSUME \A d \in 1..(n - 1) : v.degree[d] = 1 \/ r[d] = 1
      PROVE  WalkOrder(v) = PlacesOf(v)
  <2>1. ASSUME NEW i \in 1..NumElements(s)
        PROVE  v.start + NumberOf(r, Walked(v, IndexOf(s, i - 1)))
                 = PlaceAt(v, IndexOf(s, i - 1))
    <3> DEFINE x == IndexOf(s, i - 1)
    <3>1. i - 1 \in 0..(NumElements(s) - 1)
      <4>1. NumElements(s) \in Nat
        BY <1>1, SpanFacts
      <4> QED BY <4>1
    <3>2. IsIndex(x, s, n)
      BY <1>1, <3>1, NumberOfIndex
    <3> HIDE DEF x
    <3>3. \A d \in 1..n : x[d] \in Nat /\ x[d] \in 0..(s[d] - 1)
      BY <1>2, <3>2 DEF IsIndex
    <3>4. ASSUME NEW d \in 1..n PROVE Walked(v, x)[d] = Residues(r, x)[d]
      <4>1. Residues(r, x)[d] = x[d] % r[d]
        BY <1>1, <3>3, ResidueNumber
      <4> DEFINE rd == r[d]
                 xd == x[d]
                 sd == s[d]
                 gd == v.degree[d]
      <4>2. rd \in Nat \ {0} /\ xd \in Nat /\ sd = gd * rd /\ xd \in 0..(sd - 1)
        BY <1>2, <3>3
      <4>3. Walked(v, x)[d] = IF d = n THEN xd % rd ELSE IF xd < rd THEN xd ELSE 0
        BY DEF Walked
      <4>4. d # n => gd = 1 \/ rd = 1
        BY <1>1, <1>3
      <4> HIDE DEF rd, xd, sd, gd
      <4>5. CASE d = n
        BY <4>1, <4>3, <4>5 DEF rd, xd
      <4>6. CASE d # n /\ gd = 1
        <5>1. sd = rd /\ xd \in 0..(rd - 1) /\ xd < rd
          BY <4>2, <4>6
        <5>2. xd % rd = xd
          BY <4>2, <5>1, SmallRemainder
        <5> QED BY <4>1, <4>3, <4>6, <5>1, <5>2 DEF rd, xd
      <4>7. CASE d # n /\ rd = 1
        <5>1. xd % rd = 0
          BY <4>2, <4>7
        <5>2. xd < rd => xd = 0
          BY <4>2, <4>7
        <5> QED BY <4>1, <4>3, <4>7, <5>1, <5>2 DEF rd, xd
      <4> QED BY <4>4, <4>5, <4>6, <4>7
    <3>5. NumberOf(r, Walked(v, x)) = NumberOf(r, Residues(r, x))
      <4>1. \A d \in 1..n : Residues(r, x)[d] \in Nat /\ Walked(v, x)[d] = Residues(r, x)[d]
        <5>1. \A d \in 1..n : Walked(v, x)[d] \in Nat
          BY <3>3, WalkedIndex
        <5> QED BY <3>4, <5>1
      <4> QED BY <1>1, <4>1, NumbersSame
    <3> QED BY <3>5 DEF PlaceAt, x
  <2>2. WalkOrder(v) = [i \in 1..NumElements(s) |->
                          v.start + NumberOf(r, Walked(v, IndexOf(s, i - 1)))]
    BY WalkIs
  <2>3. PlacesOf(v) = [i \in 1..NumElements(s) |-> PlaceAt(v, IndexOf(s, i - 1))]
    BY DEF PlacesOf
  <2> HIDE DEF s, r
  <2> QED BY <2>1, <2>2, <2>3
<1>4. ASSUME NEW d \in 1..(n - 1), v.degree[d] # 1, r[d] # 1
      PROVE  WalkOrder(v) # PlacesOf(v)
  <2> DEFINE x == [e \in 1..n |-> IF e = d THEN r[d] + 1 ELSE 0]
  <2>0. d \in 1..n /\ d # n
    BY <1>1
  <2>1. r[d] + 1 \in 0..(s[d] - 1) /\ r[d] \in Nat \ {0, 1}
    <3> DEFINE rd == r[d]
               gd == v.degree[d]
               sd == s[d]
    <3>1. rd \in Nat \ {0, 1} /\ gd \in Nat \ {0, 1} /\ sd = gd * rd /\ sd \in Nat
      BY <1>2, <1>4, <2>0
    <3> HIDE DEF rd, gd, sd
    <3>2. 1 * rd + rd <= gd * rd
      <4>1. 1 < gd /\ 1 \in Nat /\ gd \in Nat /\ rd \in Nat \ {0}
        BY <3>1
      <4> QED BY <4>1, Multiples
    <3>3. rd + 1 \in 0..(sd - 1)
      BY <3>1, <3>2
    <3> QED BY <3>1, <3>3 DEF rd, sd
  <2>2. \A e \in 1..n : x[e] = IF e = d THEN r[d] + 1 ELSE 0
    OBVIOUS
  <2> HIDE DEF x
  <2>3. IsIndex(x, s, n)
    <3> SUFFICES ASSUME NEW e \in 1..n PROVE x[e] \in 0..(s[e] - 1)
      BY DEF IsIndex
    <3>1. CASE e = d
      BY <2>1, <2>2, <3>1
    <3>2. CASE e # d
      BY <1>2, <2>2, <3>2
    <3> QED BY <3>1, <3>2
  <2>4. \A e \in 1..n : x[e] \in Nat
    BY <2>1, <2>2
  <2>5. Walked(v, x)[d] = 0
    <3>1. ~ (x[d] < r[d])
      BY <2>0, <2>1, <2>2
    <3>2. Walked(v, x)[d] = IF x[d] < r[d] THEN x[d] ELSE 0
      BY <2>0 DEF Walked
    <3> QED BY <3>1, <3>2
  <2>6. Residues(r, x)[d] = 1
    <3> DEFINE rd == r[d]
               xd == x[d]
               one == 1
    <3>1. Residues(r, x)[d] = xd % rd
      BY <1>1, <2>0, <2>4, ResidueNumber
    <3>2. rd \in Nat \ {0} /\ one \in Nat /\ one \in 0..(rd - 1)
      BY <2>1
    <3>3. xd = one * rd + one
      BY <2>0, <2>1, <2>2
    <3> HIDE DEF rd, xd, one
    <3>4. xd % rd = one
      BY <3>2, <3>3, Remainder
    <3> QED BY <3>1, <3>4 DEF one
  <2>7. NumberOf(r, Walked(v, x)) # NumberOf(r, Residues(r, x))
    <3>1. IsIndex(Walked(v, x), r, n)
      BY <2>4, WalkedIndex
    <3>2. IsIndex(Residues(r, x), r, n)
      BY <1>1, <2>4, ResidueNumber
    <3>3. Walked(v, x)[d] # Residues(r, x)[d]
      BY <2>5, <2>6
    <3> QED BY <1>1, <2>0, <3>1, <3>2, <3>3, NumbersDiffer
  <2>8. WalkOrder(v)[NumberOf(s, x) + 1] = v.start + NumberOf(r, Walked(v, x))
    BY <2>3, WalkOfIndex
  <2>9. PlacesOf(v)[NumberOf(s, x) + 1] = v.start + NumberOf(r, Residues(r, x))
    BY <2>3, PlaceOfIndex DEF PlaceAt
  <2>10. /\ v.start \in Nat
         /\ NumberOf(r, Walked(v, x)) \in Nat /\ NumberOf(r, Residues(r, x)) \in Nat
    <3>1. \A e \in 1..n : Walked(v, x)[e] \in Nat
      BY <2>4, WalkedIndex
    <3>2. \A e \in 1..n : Residues(r, x)[e] \in Nat
      BY <1>1, <2>4, ResidueNumber
    <3>3. NumberOf(r, Walked(v, x)) \in Nat
      BY <1>1, <3>1, NumberSum
    <3>4. NumberOf(r, Residues(r, x)) \in Nat
      BY <1>1, <3>2, NumberSum
    <3>5. v.start \in Nat
      BY ViewDims
    <3> QED BY <3>3, <3>4, <3>5
  <2> HIDE DEF r, s
  <2> QED BY <2>7, <2>8, <2>9, <2>10
<1> QED BY <1>3, <1>4

\* An index whose digits are all stored has no repetitions to take off.
LEMMA StoredIndex ==
  ASSUME NEW r, NEW n, IsDims(r, n), NEW x,
         \A d \in 1..n : x[d] \in Nat /\ x[d] < r[d]
  PROVE  /\ NumberOf(r, Residues(r, x)) = NumberOf(r, x)
         /\ NumberOf(r, x) \in 0..(NumElements(r) - 1)
<1>1. \A d \in 1..n : r[d] \in Nat \ {0}
  BY DimsLen
<1>2. \A d \in 1..n : Residues(r, x)[d] = x[d]
  <2> TAKE d \in 1..n
  <2> DEFINE rd == r[d]
             xd == x[d]
  <2>1. Residues(r, x)[d] = xd % rd
    BY ResidueNumber
  <2>2. rd \in Nat \ {0} /\ xd \in 0..(rd - 1)
    BY <1>1
  <2> HIDE DEF rd, xd
  <2>3. xd % rd = xd
    BY <2>2, SmallRemainder
  <2> QED BY <2>1, <2>3 DEF xd
<1>3. NumberOf(r, Residues(r, x)) = NumberOf(r, x)
  BY <1>2, NumbersSame
<1>4. IsIndex(x, r, n)
  BY <1>1 DEF IsIndex
<1> QED BY <1>3, <1>4, IndexOfNumber

\* at() of an index.
LEMMA ReadsFollow ==
  ASSUME NEW v, ViewOK(v), NEW n, n = Len(v.shape), NEW x, IsIndex(x, v.shape, n)
  PROVE  /\ AtIndex(v, x) = PlaceAt(v, x) <=> \A d \in 1..n : x[d] < Real(v)[d]
         /\ n = 1 => At1(v, x[1]) = PlaceAt(v, x)
         /\ n = 2 => At2(v, x[1], x[2]) = AtIndex(v, x)
<1> DEFINE r == Real(v)
           c == Spans(r)
           p == NumberOf(r, x)
           q == NumberOf(r, Residues(r, x))
<1>1. /\ n \in Nat \ {0} /\ IsDims(r, n) /\ v.start \in Nat
      /\ \A d \in 1..n : r[d] \in Nat \ {0} /\ v.shape[d] \in Nat \ {0}
  BY ViewDims DEF IsDims
<1>2. \A d \in 1..n : x[d] \in Nat
  BY <1>1 DEF IsIndex
<1>3. AtIndex(v, x) = Position(v, p) /\ PlaceAt(v, x) = v.start + q
  BY DEF AtIndex, PlaceAt
<1>4. \A d \in 1..n : Residues(r, x)[d] = x[d] % r[d] /\ Residues(r, x)[d] \in Nat
  <2> TAKE d \in 1..n
  <2> DEFINE rd == r[d]
             xd == x[d]
  <2>1. Residues(r, x)[d] = xd % rd
    BY <1>1, <1>2, ResidueNumber
  <2>2. xd \in Nat /\ rd \in Nat \ {0}
    BY <1>1, <1>2
  <2> HIDE DEF rd, xd
  <2>3. xd % rd \in Nat
    BY <2>2
  <2> QED BY <2>1, <2>3 DEF rd, xd
<1>5. p \in Nat /\ q \in Nat /\ q < NumElements(r)
  <2>1. p \in Nat
    BY <1>1, <1>2, NumberSum
  <2>2. q \in 0..(NumElements(r) - 1)
    BY <1>1, <1>2, ResidueNumber
  <2>3. NumElements(r) \in Nat
    BY <1>1, SpanFacts
  <2> HIDE DEF q
  <2> QED BY <2>1, <2>2, <2>3
<1>6. ASSUME \A d \in 1..n : x[d] < r[d] PROVE AtIndex(v, x) = PlaceAt(v, x)
  <2>1. q = p
    BY <1>1, <1>2, <1>6, StoredIndex
  <2> HIDE DEF p, q
  <2>2. Position(v, q) = v.start + q
    BY <1>5, Positions
  <2> QED BY <1>3, <2>1, <2>2
<1>7. ASSUME NEW e \in 1..n, ~ (x[e] < r[e]) PROVE AtIndex(v, x) # PlaceAt(v, x)
  <2>1. ASSUME NEW d \in 1..n
        PROVE  /\ Residues(r, x)[d] <= x[d]
               /\ Residues(r, x)[d] < r[d]
    <3> DEFINE rd == r[d]
               xd == x[d]
    <3>1. Residues(r, x)[d] = xd % rd /\ xd \in Nat /\ rd \in Nat \ {0}
      BY <1>1, <1>2, <1>4
    <3> HIDE DEF rd, xd
    <3>2. xd % rd \in 0..(rd - 1)
      BY <3>1, Division
    <3>3. xd < rd => xd % rd = xd
      <4> SUFFICES ASSUME xd < rd PROVE xd % rd = xd
        OBVIOUS
      <4>1. xd \in 0..(rd - 1)
        BY <3>1
      <4> QED BY <3>1, <4>1, SmallRemainder
    <3>4. xd % rd <= xd /\ xd % rd < rd
      BY <3>1, <3>2, <3>3
    <3> QED BY <3>1, <3>4 DEF rd, xd
  <2>2. Residues(r, x)[e] < x[e]
    <3>1. Residues(r, x)[e] < r[e] /\ Residues(r, x)[e] \in Nat
      BY <1>4, <2>1
    <3>2. r[e] \in Nat /\ x[e] \in Nat
      BY <1>1, <1>2
    <3> HIDE DEF r
    <3> QED BY <1>7, <3>1, <3>2
  <2>3. q < p
    <3> DEFINE y == Residues(r, x)
    <3>1. \A d \in 1..n : y[d] \in Nat /\ x[d] \in Nat /\ y[d] <= x[d]
      BY <1>2, <1>4, <2>1
    <3>2. y[e] < x[e]
      BY <2>2
    <3>3. IsDims(r, n)
      BY <1>1
    <3> HIDE DEF y, r
    <3>4. NumberOf(r, y) < NumberOf(r, x)
      BY <3>1, <3>2, <3>3, NumbersGrow
    <3> QED BY <3>4 DEF y
  <2> HIDE DEF p, q
  <2>4. Position(v, p) = v.start + q => p = q
    BY <1>5, Positions
  <2>5. p # q
    BY <1>5, <2>3
  <2> QED BY <1>3, <2>4, <2>5
<1>8. ASSUME NEW y, \A d \in 1..n : y[d] \in Nat
      PROVE  /\ n = 1 => NumberOf(r, y) = y[1]
             /\ n = 2 => NumberOf(r, y) = y[1] * c[1] + y[2]
  <2>1. PICK f : IsSum(f, c, y, n) /\ NumberOf(r, y) = f[n]
    BY <1>1, <1>8, NumberSum
  <2>2. f[0] = 0 /\ \A d \in 1..n : f[d] = f[d - 1] + y[d] * c[d]
    BY <2>1 DEF IsSum
  <2>3. c[n] = 1 /\ \A d \in 0..n : c[d] \in Nat \ {0}
    BY <1>1, SpanFacts
  <2> HIDE DEF c, r
  <2>4. ASSUME n = 1 PROVE NumberOf(r, y) = y[1]
    <3>1. f[1] = f[0] + y[1] * c[1] /\ c[1] = 1 /\ y[1] \in Nat
      BY <1>8, <2>2, <2>3, <2>4
    <3> QED BY <2>1, <2>2, <2>4, <3>1
  <2>5. ASSUME n = 2 PROVE NumberOf(r, y) = y[1] * c[1] + y[2]
    <3>1. 1 \in 1..n /\ 2 \in 1..n /\ 1 \in 0..n
      BY <2>5
    <3>2. f[1] = f[0] + y[1] * c[1] /\ f[2] = f[1] + y[2] * c[2] /\ c[2] = 1
      <4>1. f[2] = f[2 - 1] + y[2] * c[2] /\ f[1] = f[1 - 1] + y[1] * c[1]
        BY <2>2, <3>1
      <4> QED BY <2>3, <2>5, <4>1
    <3>3. y[1] \in Nat /\ y[2] \in Nat /\ c[1] \in Nat
      BY <1>8, <2>3, <3>1
    <3>4. y[1] * c[1] \in Nat
      BY <3>3
    <3> DEFINE yc == y[1] * c[1]
    <3>5. f[1] = f[0] + yc /\ yc \in Nat
      BY <3>2, <3>4
    <3> HIDE DEF yc
    <3>6. f[2] = yc + y[2]
      BY <2>2, <3>2, <3>3, <3>5
    <3> QED BY <2>1, <2>5, <3>6 DEF yc
  <2> QED BY <2>4, <2>5
<1>9. ASSUME n = 1 PROVE At1(v, x[1]) = PlaceAt(v, x)
  <2>1. q = Residues(r, x)[1] /\ Residues(r, x)[1] = x[1] % r[1]
    <3>1. 1 \in 1..n
      BY <1>9
    <3> QED BY <1>4, <1>8, <1>9, <3>1
  <2>2. At1(v, x[1]) = Position(v, q)
    BY <2>1 DEF At1
  <2> HIDE DEF q
  <2>3. Position(v, q) = v.start + q
    BY <1>5, Positions
  <2> QED BY <1>3, <2>2, <2>3
<1>10. ASSUME n = 2 PROVE At2(v, x[1], x[2]) = AtIndex(v, x)
  <2>1. p = x[1] * c[1] + x[2]
    BY <1>2, <1>8, <1>10
  <2>2. At2(v, x[1], x[2]) = Position(v, x[1] * c[1] + x[2])
    BY DEF At2, Strides
  <2> HIDE DEF p, c
  <2> QED BY <1>3, <2>1, <2>2
<1> QED BY <1>6, <1>7, <1>9, <1>10

\* The number of an index that has a first digit only.
LEMMA FirstDigit ==
  ASSUME NEW r, NEW n, IsDims(r, n), NEW x,
         \A d \in 1..n : x[d] \in Nat /\ (d # 1 => x[d] = 0)
  PROVE  NumberOf(r, x) = x[1] * Spans(r)[1]
<1> DEFINE c == Spans(r)
           a == x[1] * c[1]
           f == [d \in 0..n |-> IF d = 0 THEN 0 ELSE a]
<1>1. n \in Nat \ {0} /\ \A d \in 0..n : c[d] \in Nat \ {0}
  BY SpanFacts
<1>2. a \in Nat
  <2>1. 1 \in 0..n /\ 1 \in 1..n
    BY <1>1
  <2> HIDE DEF c
  <2>2. x[1] \in Nat /\ c[1] \in Nat
    BY <1>1, <2>1
  <2> QED BY <2>2
<1>3. ASSUME NEW d \in 1..n PROVE f[d] = f[d - 1] + x[d] * c[d]
  <2>1. d \in 0..n /\ d - 1 \in 0..n /\ d # 0
    BY <1>1
  <2> HIDE DEF c
  <2>2. c[d] \in Nat
    BY <1>1, <2>1
  <2>3. CASE d = 1
    <3>1. f[1 - 1] = 0 /\ f[1] = a
      BY <1>1
    <3> HIDE DEF f
    <3> QED BY <1>2, <2>3, <3>1
  <2>4. CASE d # 1
    <3>1. f[d - 1] = a /\ f[d] = a
      BY <2>1, <2>4
    <3>2. x[d] * c[d] = 0
      BY <2>2, <2>4
    <3> HIDE DEF f, a
    <3> QED BY <1>2, <3>1, <3>2
  <2> QED BY <2>3, <2>4
<1>4. f \in [0..n -> Nat] /\ f[0] = 0 /\ f[n] = a
  <2> HIDE DEF a
  <2> QED BY <1>1, <1>2
<1> HIDE DEF f, a
<1>5. IsSum(f, c, x, n)
  BY <1>3, <1>4 DEF IsSum
<1>6. NumberOf(r, x) = f[n]
  BY <1>5, NumberIs
<1> QED BY <1>4, <1>6 DEF a

\* The rows an iterator reaches.
LEMMA RowsFollow ==
  ASSUME NEW v, ViewOK(v), NEW k \in 0..(v.shape[1] - 1), NEW x,
         \A d \in 1..Len(v.shape) : x[d] = IF d = 1 THEN k ELSE 0
  PROVE  /\ v.start + JumpRow(v, k) = PlaceAt(v, x)
         /\ v.start + StepRow(v, k) = PlaceAt(v, x)
              <=> k < Real(v)[1] \/ k % Real(v)[1] = 0
<1> DEFINE n == Len(v.shape)
           r == Real(v)
           st == Strides(v)[1]
           r1 == r[1]
           k1 == k % r1
           y == Residues(r, x)
<1>1. /\ n \in Nat \ {0} /\ IsDims(r, n) /\ v.start \in Nat
      /\ \A d \in 1..n : r[d] \in Nat \ {0} /\ v.shape[d] \in Nat \ {0}
  BY ViewDims DEF IsDims
<1>2. 1 \in 1..n /\ 1 \in 0..n
  BY <1>1
<1>3. st \in Nat \ {0} /\ st = Spans(r)[1]
  <2>1. Spans(r)[1] \in Nat \ {0}
    BY <1>1, <1>2, SpanFacts
  <2> QED BY <2>1 DEF Strides
<1>4. r1 \in Nat \ {0} /\ k \in Nat
  BY <1>1, <1>2
<1>5. k1 \in 0..(r1 - 1) /\ (k < r1 => k1 = k)
  <2> HIDE DEF r1
  <2>1. k1 \in 0..(r1 - 1)
    BY <1>4, Division
  <2>2. ASSUME k < r1 PROVE k1 = k
    <3>1. k \in 0..(r1 - 1)
      BY <1>4, <2>2
    <3> QED BY <1>4, <3>1, SmallRemainder
  <2> QED BY <2>1, <2>2
<1>6. NumberOf(r, y) = k1 * st
  <2>1. \A d \in 1..n : x[d] \in Nat
    BY <1>4
  <2>2. \A d \in 1..n : y[d] = x[d] % r[d] /\ y[d] \in Nat
    BY <1>1, <2>1, ResidueNumber
  <2>3. ASSUME NEW d \in 1..n, d # 1 PROVE y[d] = 0
    <3> DEFINE rd == r[d]
    <3>1. rd \in Nat \ {0} /\ y[d] = 0 % rd
      BY <1>1, <2>2, <2>3
    <3> HIDE DEF rd, y
    <3>2. 0 % rd = 0
      BY <3>1
    <3> QED BY <3>1, <3>2
  <2>4. y[1] = k1
    <3>1. x[1] = k /\ y[1] = x[1] % r[1]
      BY <1>2, <2>2
    <3> QED BY <3>1
  <2> HIDE DEF y
  <2>5. NumberOf(r, y) = y[1] * Spans(r)[1]
    BY <1>1, <2>2, <2>3, FirstDigit
  <2> QED BY <1>3, <2>4, <2>5
<1>7. PlaceAt(v, x) = v.start + k1 * st
  BY <1>6 DEF PlaceAt
<1>8. JumpRow(v, k) = k1 * st
  <2>1. JumpRow(v, k) = (IF k >= r1 THEN k1 ELSE k) * st
    BY DEF JumpRow
  <2>2. k >= r1 \/ k < r1
    BY <1>4
  <2>3. (IF k >= r1 THEN k1 ELSE k) = k1
    BY <1>5, <2>2
  <2> HIDE DEF k1, st, r1
  <2> QED BY <2>1, <2>3
<1>9. StepRow(v, k) = IF k < r1 THEN k * st ELSE 0
  BY <1>3, <1>4, StepRowIs
<1> HIDE DEF r1, st, k1, y, r
<1>10. v.start + StepRow(v, k) = v.start + k1 * st <=> k < r1 \/ k1 = 0
  <2> DEFINE p == k1 * st
  <2>1. p \in Nat /\ (k1 = 0 => p = 0) /\ (k1 # 0 => p # 0)
    BY <1>3, <1>4, <1>5
  <2>2. k < r1 => k * st = p
    BY <1>5
  <2> HIDE DEF p
  <2>3. k < r1 => StepRow(v, k) = p
    BY <1>9, <2>2
  <2>4. ~ (k < r1) => StepRow(v, k) = 0
    BY <1>9
  <2>5. v.start + StepRow(v, k) = v.start + p <=> k < r1 \/ k1 = 0
    <3>1. CASE k < r1
      BY <2>3, <3>1
    <3>2. CASE ~ (k < r1)
      BY <1>1, <2>1, <2>4, <3>2
    <3> QED BY <3>1, <3>2
  <2> QED BY <2>5 DEF p
<1> QED BY <1>7, <1>8, <1>10 DEF r1, k1, r

\* A view that repeats nothing has its elements one after the other.
LEMMA PlainPlaces ==
  ASSUME NEW v, ViewOK(v), ~ IsBroadcasted(v)
  PROVE  /\ Real(v) = v.shape
         /\ PlacesOf(v) = [i \in 1..NumElements(v.shape) |-> v.start + (i - 1)]
         /\ \A n, x : n = Len(v.shape) /\ IsIndex(x, v.shape, n)
                        => PlaceAt(v, x) = v.start + NumberOf(v.shape, x)
<1> DEFINE n == Len(v.shape)
           s == v.shape
<1>1. /\ n \in Nat \ {0} /\ IsDims(s, n) /\ IsDims(Real(v), n) /\ DOMAIN v.degree = 1..n
      /\ \A d \in 1..n : s[d] \in Nat \ {0} /\ s[d] = v.degree[d] * Real(v)[d]
                         /\ Real(v)[d] \in Nat \ {0}
  BY ViewDims DEF IsDims
<1>2. Real(v) = s
  <2>1. \A d \in 1..n : Real(v)[d] = s[d]
    <3> TAKE d \in 1..n
    <3>1. v.degree[d] = 1
      BY <1>1 DEF IsBroadcasted
    <3> QED BY <1>1, <3>1
  <2>2. Real(v) = [d \in 1..n |-> Real(v)[d]] /\ s = [d \in 1..n |-> s[d]]
    BY <1>1 DEF IsDims
  <2> HIDE DEF n, s
  <2> QED BY <2>1, <2>2
<1>3. ASSUME NEW x, IsIndex(x, s, n) PROVE PlaceAt(v, x) = v.start + NumberOf(s, x)
  <2>1. \A d \in 1..n : x[d] \in Nat /\ x[d] < s[d]
    BY <1>1, <1>3 DEF IsIndex
  <2>2. NumberOf(s, Residues(s, x)) = NumberOf(s, x)
    BY <1>1, <2>1, StoredIndex
  <2> QED BY <1>2, <2>2 DEF PlaceAt
<1>4. ASSUME NEW i \in 1..NumElements(s) PROVE PlaceAt(v, IndexOf(s, i - 1)) = v.start + (i - 1)
  <2>1. i - 1 \in 0..(NumElements(s) - 1)
    <3>1. NumElements(s) \in Nat
      BY <1>1, SpanFacts
    <3> QED BY <3>1
  <2>2. IsIndex(IndexOf(s, i - 1), s, n) /\ NumberOf(s, IndexOf(s, i - 1)) = i - 1
    BY <1>1, <2>1, NumberOfIndex
  <2> QED BY <1>3, <2>2
<1>5. PlacesOf(v) = [i \in 1..NumElements(s) |-> v.start + (i - 1)]
  BY <1>4 DEF PlacesOf
<1> QED BY <1>2, <1>3, <1>5

\* There is one way to multiply up.
IsProduct(f, y, n) ==
  /\ f \in [0..n -> Nat]
  /\ f[0] = 1
  /\ \A d \in 1..n : f[d] = f[d - 1] * y[d]

LEMMA ProductExists ==
  ASSUME NEW n \in Nat, NEW y, \A d \in 1..n : y[d] \in Nat
  PROVE  \E f : IsProduct(f, y, n)
<1> DEFINE Upto(m, f) ==
             /\ f \in [0..m -> Nat]
             /\ f[0] = 1
             /\ \A d \in 1..m : f[d] = f[d - 1] * y[d]
           U == {m \in 0..n : \E f : Upto(m, f)}
<1>1. 0 \in U
  <2> DEFINE f == [d \in 0..0 |-> 1]
  <2>1. Upto(0, f)
    OBVIOUS
  <2> HIDE DEF f, Upto
  <2> QED BY <2>1
<1>2. ASSUME NEW m \in 1..n, m - 1 \in U PROVE m \in U
  <2>1. PICK f : Upto(m - 1, f)
    BY <1>2
  <2> DEFINE g == [d \in 0..m |-> IF d = m THEN f[m - 1] * y[m] ELSE f[d]]
  <2>2. f[m - 1] \in Nat /\ y[m] \in Nat
    BY <2>1
  <2>3. f[m - 1] * y[m] \in Nat
    BY <2>2
  <2>4. \A d \in 0..(m - 1) : g[d] = f[d] /\ f[d] \in Nat
    BY <2>1
  <2>5. g[m] = f[m - 1] * y[m] /\ g[m] \in Nat
    BY <2>3
  <2>6. g \in [0..m -> Nat]
    <3>1. \A d \in 0..m : d = m \/ d \in 0..(m - 1)
      OBVIOUS
    <3>2. \A d \in 0..m : g[d] \in Nat
      BY <2>4, <2>5, <3>1
    <3>3. g = [d \in 0..m |-> g[d]]
      OBVIOUS
    <3> HIDE DEF g
    <3> QED BY <3>2, <3>3
  <2>7. g[0] = 1
    BY <2>1, <2>4
  <2>8. ASSUME NEW d \in 1..m PROVE g[d] = g[d - 1] * y[d]
    <3>1. CASE d = m
      BY <2>4, <2>5, <3>1
    <3>2. CASE d # m
      <4>1. d \in 1..(m - 1) /\ d - 1 \in 0..(m - 1) /\ d \in 0..(m - 1)
        BY <3>2
      <4> QED BY <2>1, <2>4, <4>1
    <3> QED BY <3>1, <3>2
  <2> HIDE DEF g
  <2>9. Upto(m, g)
    BY <2>6, <2>7, <2>8
  <2> HIDE DEF Upto
  <2> QED BY <2>9
<1>3. n \in U
  <2> HIDE DEF U
  <2>2. 0..n \subseteq U
    BY <1>1, <1>2, Upwards
  <2> QED BY <2>2
<1>4. PICK f : Upto(n, f)
  BY <1>3
<1>5. IsProduct(f, y, n)
  BY <1>4 DEF IsProduct
<1> HIDE DEF Upto
<1> QED BY <1>5

\* set(dim, value) writes where the product of an index's digits, each as often as
\* a stride, leads to.
LEMMA SetIndexIs ==
  ASSUME NEW v, ViewOK(v), NEW n, n = Len(v.shape), NEW x, Len(x) = n,
         NEW y, \A d \in 1..n : y[d] = x[d] * Strides(v)[d],
         NEW f, IsProduct(f, y, n)
  PROVE  SetIndex(v, x) = Position(v, f[n])
<1> DEFINE c == Strides(v)
           loop(g) == [d \in 0..n |-> IF d = 0 THEN 1 ELSE g[d - 1] * (x[d] * c[d])]
           res == CHOOSE g : g = loop(g)
<1>0. n \in Nat
  <2>1. IsDims(v.shape, n)
    BY ViewDims
  <2> QED BY <2>1 DEF IsDims
<1>1. SetIndex(v, x) = Position(v, res[n])
  BY DEF SetIndex
<1> HIDE DEF c
<1>2. f \in [0..n -> Nat] /\ f[0] = 1 /\ \A d \in 1..n : f[d] = f[d - 1] * (x[d] * c[d])
  BY DEF IsProduct, c
<1>3. f = loop(f)
  <2>1. \A d \in 0..n : f[d] = loop(f)[d]
    <3> TAKE d \in 0..n
    <3>1. d = 0 \/ d \in 1..n
      BY <1>0
    <3> QED BY <1>2, <3>1
  <2>2. f = [d \in 0..n |-> f[d]]
    BY <1>2
  <2> QED BY <2>1, <2>2
<1>4. res = loop(res)
  <2> HIDE DEF loop
  <2> QED BY <1>3
<1> HIDE DEF res
<1>5. res[0] = f[0]
  <2>1. 0 \in 0..n
    BY <1>0
  <2> QED BY <1>2, <1>4, <2>1
<1>6. \A d \in 1..n : res[d - 1] = f[d - 1] => res[d] = f[d]
  <2> TAKE d \in 1..n
  <2>1. d \in 0..n /\ d # 0
    BY <1>0
  <2>2. res[d] = res[d - 1] * (x[d] * c[d])
    BY <1>4, <2>1
  <2> QED BY <1>2, <2>2
<1> HIDE DEF loop
<1>7. n \in 0..n
  BY <1>0
<1>8. Position(v, res[n]) = SetIndex(v, x)
  BY <1>1
<1>9. \A d \in 0..n : res[d] = f[d]
  <2> DEFINE U == {d \in 0..n : res[d] = f[d]}
  <2>1. 0 \in U
    BY <1>0, <1>5
  <2>2. \A d \in 1..n : d - 1 \in U => d \in U
    BY <1>0, <1>6
  <2> HIDE DEF U
  <2>3. 0..n \subseteq U
    BY <1>0, <2>1, <2>2, Upwards
  <2> QED BY <2>3 DEF U
<1> QED BY <1>7, <1>8, <1>9

\* The product is the sum only for one dimension and at the origin.
LEMMA ProductIsNotSum ==
  ASSUME NEW s, NEW n, IsDims(s, n), NEW x, IsIndex(x, s, n),
         NEW y, \A d \in 1..n : y[d] = x[d] * Spans(s)[d],
         NEW f, IsProduct(f, y, n)
  PROVE  f[n] = NumberOf(s, x) <=> n = 1 \/ \A d \in 1..n : x[d] = 0
<1> DEFINE c == Spans(s)
           sum == NumberOf(s, x)
<1>1. /\ n \in Nat \ {0} /\ c[n] = 1
      /\ \A d \in 1..n : s[d] \in Nat \ {0} /\ x[d] \in Nat /\ c[d] \in Nat \ {0}
  <2>1. /\ n \in Nat \ {0} /\ c[n] = 1 /\ \A d \in 1..n : s[d] \in Nat \ {0}
        /\ \A d \in 0..n : c[d] \in Nat \ {0}
    BY SpanFacts
  <2>2. \A d \in 1..n : x[d] \in Nat
    BY <2>1 DEF IsIndex
  <2>3. \A d \in 1..n : d \in 0..n
    BY <2>1
  <2> QED BY <2>1, <2>2, <2>3
<1>2. PICK g : IsSum(g, c, x, n) /\ sum = g[n]
  BY <1>1, NumberSum
<1>3. /\ g \in [0..n -> Nat] /\ g[0] = 0
      /\ \A d \in 1..n : g[d] = g[d - 1] + x[d] * c[d]
  BY <1>2 DEF IsSum
<1>4. /\ f \in [0..n -> Nat] /\ f[0] = 1
      /\ \A d \in 1..n : f[d] = f[d - 1] * y[d]
  BY DEF IsProduct
<1>5. \A d \in 1..n : y[d] = x[d] * c[d]
  OBVIOUS
<1>6. g[n] - g[1] \in 0..(c[1] - 1)
  <2>1. \A d \in 0..n : g[n] - g[d] \in 0..(Spans(s)[d] - 1)
    BY <1>2, NumberRest
  <2>2. 1 \in 0..n
    BY <1>1
  <2> QED BY <2>1, <2>2
<1>7. 1 \in 1..n /\ n \in 1..n /\ n \in 0..n /\ 0 \in 0..n /\ 1 \in 0..n
  BY <1>1
<1>8. sum \in Nat
  BY <1>2, <1>3, <1>7
<1>9. ASSUME n = 1 PROVE f[n] = sum
  <2>1. f[1] = f[1 - 1] * y[1] /\ g[1] = g[1 - 1] + x[1] * c[1]
    BY <1>3, <1>4, <1>7
  <2>2. x[1] \in Nat /\ c[1] = 1 /\ y[1] = x[1] * c[1]
    BY <1>1, <1>5, <1>7, <1>9
  <2> HIDE DEF c, sum
  <2> QED BY <1>2, <1>3, <1>4, <1>9, <2>1, <2>2
<1>10. ASSUME NEW e \in 1..n, x[e] = 0 PROVE f[n] = 0
  <2> DEFINE U == {d \in 0..n : e <= d => f[d] = 0}
  <2>1. 0 \in U
    BY <1>7
  <2>2. ASSUME NEW d \in 1..n, d - 1 \in U PROVE d \in U
    <3>1. d \in 0..n /\ d - 1 \in 0..n /\ d \in Nat
      BY <1>1
    <3>2. f[d] = f[d - 1] * y[d] /\ f[d - 1] \in Nat
      BY <1>4, <3>1
    <3>3. y[d] = x[d] * c[d] /\ x[d] \in Nat /\ c[d] \in Nat
      BY <1>1, <1>5
    <3>4. y[d] \in Nat
      BY <3>3
    <3>5. d = e => y[d] = 0
      BY <1>10, <3>3
    <3>6. d = e => f[d] = 0
      BY <3>2, <3>4, <3>5
    <3>7. e < d => f[d] = 0
      <4>1. e < d => e <= d - 1
        BY <3>1
      <4>2. e < d => f[d - 1] = 0
        BY <2>2, <4>1
      <4> QED BY <3>2, <3>4, <4>2
    <3> QED BY <3>1, <3>6, <3>7
  <2> HIDE DEF U
  <2>3. n \in Nat
    BY <1>1
  <2>4. 0..n \subseteq U
    BY <2>1, <2>2, <2>3, Upwards
  <2>5. n \in U /\ e <= n
    BY <1>1, <1>7, <2>4
  <2> QED BY <2>5 DEF U
<1>11. ASSUME \A d \in 1..n : x[d] = 0 PROVE f[n] = sum
  <2>1. f[n] = 0
    BY <1>7, <1>10, <1>11
  <2>2. sum = x[1] * c[1]
    BY <1>1, <1>11, FirstDigit
  <2>3. x[1] = 0 /\ c[1] \in Nat
    BY <1>1, <1>7, <1>11
  <2> HIDE DEF c, sum
  <2> QED BY <2>1, <2>2, <2>3
<1> DEFINE z == [d \in 1..n |-> IF d = 1 THEN x[1] ELSE 0]
           zero == [d \in 1..n |-> 0]
<1>12. ASSUME NEW e \in 1..n, x[e] # 0 PROVE sum # 0
  <2>1. NumberOf(s, zero) < NumberOf(s, x)
    <3>1. \A d \in 1..n : zero[d] \in Nat /\ x[d] \in Nat /\ zero[d] <= x[d]
      BY <1>1
    <3>2. zero[e] < x[e]
      BY <1>1, <1>12
    <3> HIDE DEF zero
    <3> QED BY <3>1, <3>2, NumbersGrow
  <2>2. NumberOf(s, zero) \in Nat
    <3>1. \A d \in 1..n : zero[d] \in Nat
      OBVIOUS
    <3> HIDE DEF zero
    <3> QED BY <3>1, NumberSum
  <2> HIDE DEF zero
  <2> QED BY <1>8, <2>1, <2>2
<1>13. ASSUME n # 1, \A d \in 1..n : x[d] # 0 PROVE f[n] # sum
  <2> DEFINE a == x[1] * c[1]
  <2>1. a \in Nat \ {0} /\ c[1] <= a
    <3>1. x[1] \in Nat \ {0} /\ c[1] \in Nat \ {0}
      BY <1>1, <1>7, <1>13
    <3> HIDE DEF c
    <3>2. x[1] * c[1] \in Nat
      BY <3>1
    <3>3. 0 * c[1] + c[1] <= x[1] * c[1]
      <4>1. 0 \in Nat /\ 0 < x[1] /\ x[1] \in Nat
        BY <3>1
      <4> QED BY <3>1, <4>1, Multiples
    <3> DEFINE b == x[1] * c[1]
    <3>4. b \in Nat /\ 0 * c[1] + c[1] <= b
      BY <3>2, <3>3
    <3> HIDE DEF b
    <3>5. b \in Nat \ {0} /\ c[1] <= b
      BY <3>1, <3>4
    <3> QED BY <3>5 DEF b
  <2>2. g[1] = a
    <3>1. g[1] = g[1 - 1] + x[1] * c[1]
      BY <1>3, <1>7
    <3>2. g[1] = 0 + a
      BY <1>3, <3>1
    <3> HIDE DEF a
    <3> QED BY <2>1, <3>2
  <2>3. a < sum
    <3>1. \A d \in 1..n : z[d] \in Nat /\ x[d] \in Nat /\ z[d] <= x[d]
      BY <1>1, <1>7
    <3>2. z[n] < x[n]
      <4>1. z[n] = 0 /\ x[n] \in Nat \ {0}
        BY <1>1, <1>7, <1>13
      <4> QED BY <4>1
    <3>3. \A d \in 1..n : z[d] \in Nat /\ (d # 1 => z[d] = 0)
      BY <1>1, <1>7
    <3>4. z[1] = x[1]
      BY <1>7
    <3> HIDE DEF z
    <3>5. NumberOf(s, z) < NumberOf(s, x)
      BY <1>7, <3>1, <3>2, NumbersGrow
    <3>6. NumberOf(s, z) = z[1] * c[1]
      BY <3>3, FirstDigit
    <3> QED BY <3>4, <3>5, <3>6
  <2>4. sum - a \in 0..(c[1] - 1)
    BY <1>2, <1>6, <2>2
  <2>5. \A d \in 1..n : y[d] \in Nat \ {0}
    <3> TAKE d \in 1..n
    <3>1. x[d] \in Nat \ {0} /\ c[d] \in Nat \ {0} /\ y[d] = x[d] * c[d]
      BY <1>1, <1>5, <1>13
    <3> HIDE DEF c
    <3> QED BY <3>1
  <2> HIDE DEF a
  <2> DEFINE U == {d \in 0..n : d # 0 => \E q \in Nat \ {0} : f[d] = a * q}
  <2>6. 0 \in U
    BY <1>7
  <2>7. ASSUME NEW d \in 1..n, d - 1 \in U PROVE d \in U
    <3>1. d \in 0..n /\ d - 1 \in 0..n /\ f[d] = f[d - 1] * y[d] /\ y[d] \in Nat \ {0}
      BY <1>1, <1>4, <2>5
    <3>2. CASE d = 1
      <4>1. f[1] = f[0] * y[1] /\ y[1] = a
        <5>1. y[1] = a
          BY <1>5, <1>7 DEF a
        <5> QED BY <3>1, <3>2, <5>1
      <4>2. f[d] = a * 1
        BY <1>4, <2>1, <3>2, <4>1
      <4> QED BY <3>1, <4>2
    <3>3. CASE d # 1
      <4>1. PICK q \in Nat \ {0} : f[d - 1] = a * q
        BY <2>7, <3>3
      <4> DEFINE p == y[d]
      <4>2. p \in Nat \ {0} /\ f[d] = (a * q) * p
        BY <3>1, <4>1
      <4> HIDE DEF p
      <4>3. (a * q) * p = a * (q * p) /\ q * p \in Nat \ {0}
        BY <2>1, <4>1, <4>2
      <4>4. f[d] = a * (q * p)
        BY <4>2, <4>3
      <4> QED BY <3>1, <4>3, <4>4
    <3> QED BY <3>2, <3>3
  <2> HIDE DEF U
  <2>8. n \in U
    <3>1. n \in Nat
      BY <1>1
    <3>2. 0..n \subseteq U
      BY <2>6, <2>7, <3>1, Upwards
    <3> QED BY <1>7, <3>2
  <2>9. PICK q \in Nat \ {0} : f[n] = a * q
    BY <1>1, <2>8 DEF U
  <2>10. c[1] \in Nat
    BY <1>1, <1>7
  <2>11. q = 1 => a * q = a
    BY <2>1
  <2>12. q # 1 => a + a <= a * q
    <3> SUFFICES ASSUME q # 1 PROVE a + a <= a * q
      OBVIOUS
    <3>1. 1 \in Nat /\ q \in Nat /\ 1 < q
      BY <2>9
    <3>2. 1 * a + a <= q * a
      BY <2>1, <3>1, Multiples
    <3>3. q * a = a * q /\ 1 * a = a
      BY <2>1, <2>9
    <3> QED BY <3>2, <3>3
  <2> DEFINE aq == a * q
  <2>13. aq \in Nat
    BY <2>1, <2>9
  <2> HIDE DEF aq, sum, c
  <2>14. aq # sum
    <3>1. (q = 1 => aq = a) /\ (q # 1 => a + a <= aq)
      BY <2>11, <2>12 DEF aq
    <3> QED BY <1>8, <2>1, <2>3, <2>4, <2>10, <2>13, <3>1
  <2> QED BY <2>9, <2>14 DEF aq
<1> HIDE DEF sum, z, zero, c
<1>14. ASSUME n # 1, NEW e \in 1..n, x[e] # 0 PROVE f[n] # sum
  <2>1. CASE \A d \in 1..n : x[d] # 0
    BY <1>13, <1>14, <2>1
  <2>2. CASE \E d \in 1..n : x[d] = 0
    <3>1. f[n] = 0 /\ sum # 0
      BY <1>10, <1>12, <1>14, <2>2
    <3> QED BY <3>1
  <2> QED BY <2>1, <2>2
<1> QED BY <1>9, <1>11, <1>14 DEF sum

\* A view that repeats nothing.
LEMMA PlainFacts ==
  ASSUME NEW v, ViewOK(v), ~ IsBroadcasted(v), NEW n, n = Len(v.shape)
  PROVE  /\ n \in Nat \ {0} /\ IsDims(v.shape, n) /\ v.start \in Nat /\ Real(v) = v.shape
         /\ NumElements(v.shape) \in Nat \ {0}
         /\ PlacesOf(v) = [i \in 1..NumElements(v.shape) |-> v.start + (i - 1)]
<1>1. n \in Nat \ {0} /\ IsDims(v.shape, n) /\ v.start \in Nat
  BY ViewDims DEF IsDims
<1>2. Real(v) = v.shape /\ PlacesOf(v) = [i \in 1..NumElements(v.shape) |-> v.start + (i - 1)]
  BY PlainPlaces
<1>3. NumElements(v.shape) \in Nat \ {0}
  BY <1>1, SpanFacts
<1> QED BY <1>1, <1>2, <1>3

\* set() of a view that repeats nothing.
LEMMA SetFlatFollows ==
  ASSUME NEW v, ViewOK(v), ~ IsBroadcasted(v), NEW i \in 0..(NumElements(v.shape) - 1)
  PROVE  SetFlat(v, i) = PlacesOf(v)[i + 1]
<1> DEFINE s == v.shape
           n == Len(v.shape)
<1>1. /\ n \in Nat \ {0} /\ IsDims(s, n) /\ v.start \in Nat /\ Real(v) = s
      /\ NumElements(s) \in Nat \ {0}
      /\ PlacesOf(v) = [e \in 1..NumElements(s) |-> v.start + (e - 1)]
  BY PlainFacts
<1>2. i \in Nat /\ i < NumElements(Real(v)) /\ i + 1 \in 1..NumElements(s) /\ (i + 1) - 1 = i
  BY <1>1
<1>3. Position(v, i) = v.start + i
  BY <1>2, Positions
<1>4. PlacesOf(v)[i + 1] = v.start + i
  BY <1>1, <1>2
<1> QED BY <1>3, <1>4 DEF SetFlat

LEMMA SetIndexFollows ==
  ASSUME NEW v, ViewOK(v), ~ IsBroadcasted(v), NEW n, n = Len(v.shape),
         NEW x, IsIndex(x, v.shape, n), Len(x) = n
  PROVE  SetIndex(v, x) = PlaceAt(v, x) <=> n = 1 \/ \A d \in 1..n : x[d] = 0
<1> DEFINE s == v.shape
<1>1. /\ n \in Nat \ {0} /\ IsDims(s, n) /\ v.start \in Nat /\ Real(v) = s
      /\ NumElements(s) \in Nat \ {0}
      /\ PlacesOf(v) = [i \in 1..NumElements(s) |-> v.start + (i - 1)]
  BY PlainFacts
<1>2. IsIndex(x, s, n) /\ Len(x) = n
  OBVIOUS
<1> DEFINE y == [d \in 1..n |-> x[d] * Spans(s)[d]]
           q == NumberOf(s, x)
<1>3. \A d \in 1..n : y[d] = x[d] * Spans(s)[d] /\ y[d] \in Nat
  <2>1. \A d \in 1..n : x[d] \in Nat
    <3>1. \A d \in 1..n : s[d] \in Nat \ {0}
      BY <1>1, SpanFacts
    <3> QED BY <1>2, <3>1 DEF IsIndex
  <2>2. \A d \in 1..n : Spans(s)[d] \in Nat
    <3>1. \A d \in 1..n : d \in 0..n
      BY <1>1
    <3> QED BY <1>1, <3>1, SpanFacts
  <2> QED BY <2>1, <2>2
<1> HIDE DEF y, s
<1>4. n \in Nat
  BY <1>1
<1>5. \A d \in 1..n : y[d] \in Nat
  BY <1>3
<1>6. PICK f : IsProduct(f, y, n)
  BY <1>4, <1>5, ProductExists
<1>7. SetIndex(v, x) = Position(v, f[n])
  <2>1. \A d \in 1..n : y[d] = x[d] * Strides(v)[d]
    BY <1>1, <1>3 DEF Strides
  <2> QED BY <1>2, <1>6, <2>1, SetIndexIs
<1>8. f[n] = q <=> n = 1 \/ \A d \in 1..n : x[d] = 0
  <2> DEFINE m == n
  <2>1. \A d \in 1..m : y[d] = x[d] * Spans(s)[d]
    BY <1>3
  <2>2. IsDims(s, m)
    BY <1>1
  <2>3. IsIndex(x, s, m)
    BY <1>2
  <2>4. IsProduct(f, y, m)
    BY <1>6
  <2> HIDE DEF m
  <2>5. f[m] = NumberOf(s, x) <=> m = 1 \/ \A d \in 1..m : x[d] = 0
    BY <2>1, <2>2, <2>3, <2>4, ProductIsNotSum
  <2> QED BY <2>5 DEF m
<1>9. PlaceAt(v, x) = v.start + q
  BY <1>2, PlainPlaces DEF s
<1>10. q \in Nat /\ q < NumElements(Real(v))
  <2>1. q \in 0..(NumElements(s) - 1)
    BY <1>1, <1>2, IndexOfNumber
  <2> HIDE DEF q
  <2> QED BY <1>1, <2>1
<1>11. f[n] \in Nat
  BY <1>4, <1>6 DEF IsProduct
<1> DEFINE p == f[n]
<1> HIDE DEF p, q
<1>12. p \in Nat
  BY <1>11 DEF p
<1>13. Position(v, p) = v.start + q => p = q
  BY <1>10, <1>12, Positions
<1>14. Position(v, q) = v.start + q
  BY <1>10, Positions
<1>15. SetIndex(v, x) = PlaceAt(v, x) <=> p = q
  BY <1>7, <1>9, <1>13, <1>14 DEF p
<1> QED BY <1>8, <1>15 DEF p

-----------------------------------------------------------------------------
(* The views that operations make of others.                               *)

\* The number of an index behind some dimensions is the rest of the sum.
LEMMA NumberBehind ==
  ASSUME NEW r, NEW k, NEW s, NEW n, NEW m, Behind(r, k, s, n, m),
         NEW x, \A d \in 1..n : x[d] \in Nat,
         NEW f, IsSum(f, Spans(s), x, n),
         NEW y, \A d \in 1..k : y[d] = x[m + d]
  PROVE  f[n] = f[m] + NumberOf(r, y)
<1>0. /\ n \in Nat /\ k \in Nat /\ m \in Nat /\ m + k = n /\ IsDims(r, k) /\ IsDims(s, n)
  BY DEF Behind, IsDims
<1>1. \A d \in 0..k : Spans(r)[d] = Spans(s)[m + d]
  BY SpansBehind
<1>2. \A d \in 1..k : m + d \in 1..n
  BY <1>0
<1>3. \A d \in 1..k : y[d] \in Nat
  BY <1>2
<1>4. PICK g : IsSum(g, Spans(r), y, k) /\ NumberOf(r, y) = g[k]
  BY <1>0, <1>3, NumberSum
<1>5. g \in [0..k -> Nat] /\ g[0] = 0 /\ \A d \in 1..k : g[d] = g[d - 1] + y[d] * Spans(r)[d]
  BY <1>4 DEF IsSum
<1>6. f \in [0..n -> Nat] /\ \A d \in 1..n : f[d] = f[d - 1] + x[d] * Spans(s)[d]
  BY DEF IsSum
<1> DEFINE U == {d \in 0..k : f[m + d] = f[m] + g[d]}
<1>7. 0 \in U
  <2>1. m + 0 = m /\ m \in 0..n /\ 0 \in 0..k
    BY <1>0
  <2>2. f[m] \in Nat
    BY <1>6, <2>1
  <2> QED BY <1>5, <2>1, <2>2
<1>8. ASSUME NEW d \in 1..k, d - 1 \in U PROVE d \in U
  <2>1. d \in 0..k /\ d - 1 \in 0..k /\ m + d \in 1..n /\ (m + d) - 1 = m + (d - 1) /\ m \in 0..n
    BY <1>0
  <2>2. f[m + d] = f[(m + d) - 1] + x[m + d] * Spans(s)[m + d]
    BY <1>6, <2>1
  <2>3. y[d] = x[m + d] /\ Spans(r)[d] = Spans(s)[m + d]
    BY <1>1, <2>1
  <2> DEFINE t == y[d] * Spans(r)[d]
  <2>4. f[m + d] = f[m + (d - 1)] + t /\ g[d] = g[d - 1] + t
    BY <1>5, <2>1, <2>2, <2>3
  <2>5. t \in Nat
    <3>1. Spans(r)[d] \in Nat
      BY <1>0, <2>1, SpanFacts
    <3> QED BY <1>3, <3>1
  <2>6. f[m + (d - 1)] = f[m] + g[d - 1]
    BY <1>8
  <2>7. f[m] \in Nat /\ g[d - 1] \in Nat
    BY <1>5, <1>6, <2>1
  <2> HIDE DEF t
  <2>8. f[m + d] = f[m] + g[d]
    BY <2>4, <2>5, <2>6, <2>7
  <2> QED BY <2>1, <2>8
<1> HIDE DEF U
<1>9. 0..k \subseteq U
  BY <1>0, <1>7, <1>8, Upwards
<1>10. k \in U
  BY <1>0, <1>9
<1> QED BY <1>0, <1>4, <1>10 DEF U

\* Digits that are none in front change nothing; one digit in front counts as
\* often as its span.
LEMMA NoneBefore ==
  ASSUME NEW r, NEW k, NEW s, NEW n, NEW m, Behind(r, k, s, n, m),
         NEW x, \A d \in 1..n : x[d] \in Nat /\ (d <= m => x[d] = 0),
         NEW y, \A d \in 1..k : y[d] = x[m + d]
  PROVE  NumberOf(s, x) = NumberOf(r, y)
<1>0. /\ n \in Nat /\ k \in Nat /\ m \in Nat /\ m + k = n /\ IsDims(r, k) /\ IsDims(s, n)
  BY DEF Behind, IsDims
<1>1. PICK f : IsSum(f, Spans(s), x, n) /\ NumberOf(s, x) = f[n]
  BY <1>0, NumberSum
<1>2. f[n] = f[m] + NumberOf(r, y)
  BY <1>1, NumberBehind
<1>3. f \in [0..n -> Nat] /\ f[0] = 0 /\ \A d \in 1..n : f[d] = f[d - 1] + x[d] * Spans(s)[d]
  BY <1>1 DEF IsSum
<1> DEFINE U == {d \in 0..m : f[d] = 0}
<1>4. 0 \in U
  BY <1>0, <1>3
<1>5. ASSUME NEW d \in 1..m, d - 1 \in U PROVE d \in U
  <2>1. d \in 1..n /\ d \in 0..n /\ d \in 0..m /\ d <= m
    BY <1>0
  <2>2. Spans(s)[d] \in Nat /\ x[d] = 0
    BY <1>0, <2>1, SpanFacts
  <2>3. x[d] * Spans(s)[d] = 0
    BY <2>2
  <2>4. f[d] = f[d - 1] + x[d] * Spans(s)[d] /\ f[d - 1] = 0
    BY <1>3, <1>5, <2>1
  <2> QED BY <2>1, <2>3, <2>4
<1> HIDE DEF U
<1>6. 0..m \subseteq U
  BY <1>0, <1>4, <1>5, Upwards
<1>7. f[m] = 0
  <2>1. m \in U
    BY <1>0, <1>6
  <2> QED BY <2>1 DEF U
<1>8. NumberOf(r, y) \in Nat
  <2>1. \A d \in 1..k : m + d \in 1..n
    BY <1>0
  <2>2. \A d \in 1..k : y[d] \in Nat
    BY <2>1
  <2> QED BY <1>0, <2>2, NumberSum
<1> QED BY <1>1, <1>2, <1>7, <1>8

LEMMA OneBefore ==
  ASSUME NEW r, NEW k, NEW s, NEW n, Behind(r, k, s, n, 1),
         NEW x, \A d \in 1..n : x[d] \in Nat,
         NEW y, \A d \in 1..k : y[d] = x[1 + d]
  PROVE  /\ NumberOf(s, x) = x[1] * Spans(s)[1] + NumberOf(r, y)
         /\ Spans(s)[1] = NumElements(r)
<1>0. /\ n \in Nat /\ k \in Nat /\ 1 + k = n /\ IsDims(r, k) /\ IsDims(s, n)
  BY DEF Behind, IsDims
<1>1. PICK f : IsSum(f, Spans(s), x, n) /\ NumberOf(s, x) = f[n]
  BY <1>0, NumberSum
<1>2. f[n] = f[1] + NumberOf(r, y)
  <2> DEFINE m == 1
  <2>1. Behind(r, k, s, n, m) /\ \A d \in 1..k : y[d] = x[m + d]
    OBVIOUS
  <2> HIDE DEF m
  <2>2. f[n] = f[m] + NumberOf(r, y)
    BY <1>1, <2>1, NumberBehind
  <2> QED BY <2>2 DEF m
<1>3. f[1] = x[1] * Spans(s)[1]
  <2>1. f[0] = 0 /\ f[1] = f[1 - 1] + x[1] * Spans(s)[1] /\ 1 \in 0..n /\ 1 \in 1..n
    <3>1. 1 \in 1..n /\ 1 \in 0..n
      BY <1>0
    <3> QED BY <1>1, <3>1 DEF IsSum
  <2>2. x[1] \in Nat /\ Spans(s)[1] \in Nat
    BY <1>0, <2>1, SpanFacts
  <2>3. x[1] * Spans(s)[1] \in Nat
    BY <2>2
  <2> QED BY <2>1, <2>3
<1>4. Spans(s)[1] = NumElements(r)
  <2>1. \A d \in 0..k : Spans(r)[d] = Spans(s)[1 + d]
    <3> DEFINE m == 1
    <3>1. Behind(r, k, s, n, m)
      OBVIOUS
    <3> HIDE DEF m
    <3>2. \A d \in 0..k : Spans(r)[d] = Spans(s)[m + d]
      BY <3>1, SpansBehind
    <3> QED BY <3>2 DEF m
  <2>2. Spans(r)[0] = Spans(s)[1 + 0]
    BY <1>0, <2>1
  <2>3. NumElements(r) = Spans(r)[0]
    BY <1>0, SpanFacts
  <2> QED BY <2>2, <2>3
<1> QED BY <1>1, <1>2, <1>3, <1>4

\* A shape given a degree of one everywhere, over elements enough for it.
LEMMA OnesOK ==
  ASSUME NEW v, v.shape \in Seq(Nat \ {0}), v.shape # <<>>, v.degree = Ones(v.shape),
         v = [shape |-> v.shape, degree |-> v.degree, start |-> v.start,
              end |-> v.end, store |-> v.store],
         v.start \in Nat, v.store \in Nat, v.end \in Nat, v.end <= v.store,
         v.end = v.start + NumElements(v.shape)
  PROVE  /\ ViewOK(v) /\ ~ IsBroadcasted(v)
         /\ PlacesOf(v) = [i \in 1..NumElements(v.shape) |-> v.start + (i - 1)]
<1> DEFINE s == v.shape
           n == Len(s)
<1>1. n \in Nat \ {0} /\ IsDims(s, n) /\ DOMAIN s = 1..n /\ \A d \in 1..n : s[d] \in Nat \ {0}
  BY SeqIsDims, DimsLen DEF IsDims
<1> HIDE DEF s
<1>2. v.degree = [d \in 1..n |-> 1] /\ DOMAIN v.degree = 1..n /\ \A d \in 1..n : v.degree[d] = 1
  BY <1>1 DEF Ones, s
<1>3. v.degree \in Seq(Nat \ {0}) /\ Len(v.degree) = n
  <2> DEFINE one == [d \in 1..n |-> 1]
  <2>1. n \in Nat
    BY <1>1
  <2> HIDE DEF n
  <2>2. one \in Seq(Nat \ {0}) /\ Len(one) = n
    BY ONLY SMTT(30), <2>1
  <2>3. v.degree = one
    BY <1>2
  <2> HIDE DEF one
  <2> QED BY ONLY <2>2, <2>3
<1>4. Real(v) = s
  <2>1. \A d \in 1..n : s[d] \div v.degree[d] = s[d]
    <3> TAKE d \in 1..n
    <3>1. s[d] \in Nat /\ v.degree[d] = 1
      BY <1>1, <1>2
    <3> QED BY <3>1
  <2>2. Real(v) = [d \in 1..n |-> s[d] \div v.degree[d]]
    BY DEF Real, s
  <2>3. s = [d \in 1..n |-> s[d]]
    BY <1>1 DEF IsDims
  <2> HIDE DEF n
  <2> QED BY <2>1, <2>2, <2>3
<1>5. \A d \in 1..n : s[d] % v.degree[d] = 0
  <2> TAKE d \in 1..n
  <2>1. s[d] \in Nat /\ v.degree[d] = 1
    BY <1>1, <1>2
  <2> QED BY <2>1
<1>6. ViewOK(v)
  BY <1>3, <1>4, <1>5 DEF ViewOK, s
<1>7. ~ IsBroadcasted(v)
  BY <1>2 DEF IsBroadcasted
<1> QED BY <1>6, <1>7, PlainPlaces

\* A new tensor has its elements where its storage has them.
LEMMA ContiguousOK ==
  ASSUME NEW s \in Seq(Nat \ {0}), s # <<>>
  PROVE  /\ ViewOK(Contiguous(s)) /\ ~ IsBroadcasted(Contiguous(s))
         /\ PlacesOf(Contiguous(s)) = Identity(NumElements(s))
         /\ NumElements(s) \in Nat
<1> DEFINE v == Contiguous(s)
<1>1. NumElements(s) \in Nat
  <2>1. IsDims(s, Len(s))
    BY SeqIsDims
  <2> QED BY <2>1, SpanFacts
<1>2. /\ v.shape = s /\ v.degree = Ones(s) /\ v.start = 0
      /\ v.end = NumElements(s) /\ v.store = NumElements(s)
      /\ v = [shape |-> v.shape, degree |-> v.degree, start |-> v.start,
              end |-> v.end, store |-> v.store]
  BY DEF Contiguous
<1> HIDE DEF v
<1>3. /\ v.start \in Nat /\ v.store \in Nat /\ v.end \in Nat /\ v.end <= v.store
      /\ v.end = v.start + NumElements(v.shape)
  BY <1>1, <1>2
<1>4. /\ ViewOK(v) /\ ~ IsBroadcasted(v)
      /\ PlacesOf(v) = [i \in 1..NumElements(v.shape) |-> v.start + (i - 1)]
  BY <1>2, <1>3, OnesOK
<1>5. \A i \in 1..NumElements(s) : 0 + (i - 1) = i - 1
  BY <1>1
<1>6. PlacesOf(v) = Identity(NumElements(s))
  BY <1>2, <1>4, <1>5 DEF Identity
<1> QED BY <1>1, <1>4, <1>6 DEF v

\* A reshaped tensor has its elements where it had them.
LEMMA ReshapeOK ==
  ASSUME NEW v, ViewOK(v), ~ IsBroadcasted(v), NEW new \in Seq(Nat \ {0}), new # <<>>,
         NumElements(new) = NumElements(v.shape)
  PROVE  ViewOK(ReshapeView(v, new)) /\ PlacesOf(ReshapeView(v, new)) = PlacesOf(v)
<1> DEFINE w == ReshapeView(v, new)
<1>1. v \in [shape : Seq(Nat \ {0}), degree : Seq(Nat \ {0}), start : Nat, end : Nat, store : Nat]
  BY DEF ViewOK
<1>2. /\ w.shape = new /\ w.degree = Ones(new) /\ w.start = v.start
      /\ w.end = v.end /\ w.store = v.store
      /\ w = [shape |-> w.shape, degree |-> w.degree, start |-> w.start,
              end |-> w.end, store |-> w.store]
  <2>1. v = [shape |-> v.shape, degree |-> v.degree, start |-> v.start,
             end |-> v.end, store |-> v.store]
    BY <1>1
  <2>2. w = [v EXCEPT !.shape = new, !.degree = Ones(new)]
    BY DEF ReshapeView
  <2> HIDE DEF w
  <2>3. w = [shape |-> new, degree |-> Ones(new), start |-> v.start,
             end |-> v.end, store |-> v.store]
    BY <2>1, <2>2
  <2> QED BY <2>3
<1> HIDE DEF w
<1>3. Real(v) = v.shape /\ PlacesOf(v) = [i \in 1..NumElements(v.shape) |-> v.start + (i - 1)]
  BY PlainPlaces
<1>4. /\ w.start \in Nat /\ w.store \in Nat /\ w.end \in Nat /\ w.end <= w.store
      /\ w.end = w.start + NumElements(w.shape)
  BY <1>1, <1>2, <1>3 DEF ViewOK
<1>5. /\ ViewOK(w)
      /\ PlacesOf(w) = [i \in 1..NumElements(w.shape) |-> w.start + (i - 1)]
  BY <1>2, <1>4, OnesOK
<1>6. PlacesOf(w) = PlacesOf(v)
  BY <1>2, <1>3, <1>5
<1> QED BY <1>5, <1>6 DEF w

\* The shape of a flattened tensor.
LEMMA FlatShapeOK ==
  ASSUME NEW s \in Seq(Nat \ {0}), s # <<>>, NEW d \in 0..(Len(s) - 1)
  PROVE  FlatShape(s, d) \in Seq(Nat \ {0}) /\ FlatShape(s, d) # <<>>
<1>1. IsDims(s, Len(s)) /\ Len(s) \in Nat
  BY SeqIsDims
<1>2. d \in 0..Len(s) /\ d \in Nat
  BY <1>1
<1>3. Spans(s)[d] \in Nat \ {0}
  BY <1>1, <1>2, SpanFacts
<1> DEFINE front == SubSeq(s, 1, d)
<1>4. front \in Seq(Nat \ {0})
  <2>1. \A i \in 1..d : s[i] \in Nat \ {0}
    BY <1>1, <1>2 DEF IsDims
  <2>2. front = [i \in 1..d |-> s[1 + i - 1]]
    BY SMTT(30), <1>2
  <2>3. \A i \in 1..d : s[1 + i - 1] \in Nat \ {0}
    <3>1. \A i \in 1..d : 1 + i - 1 = i
      OBVIOUS
    <3> QED BY <2>1, <3>1
  <2> QED BY <1>2, <2>2, <2>3
<1> HIDE DEF front
<1>5. FlatShape(s, d) = Append(front, Spans(s)[d])
  BY DEF FlatShape, front
<1> QED BY <1>3, <1>4, <1>5, AppendProperties

\* A dimension that is repeated again.
Repeated(a, s, g, r) ==
  /\ a \in Nat \ {0} /\ g \in Nat \ {0} /\ r \in Nat \ {0}
  /\ s = g * r /\ a % s = 0

LEMMA RepeatedDim ==
  ASSUME NEW a, NEW s, NEW g, NEW r, Repeated(a, s, g, r)
  PROVE  /\ (a \div s) * g \in Nat \ {0}
         /\ a % ((a \div s) * g) = 0
         /\ a \div ((a \div s) * g) = r
<1> DEFINE m == a \div s
<1>0. a \in Nat \ {0} /\ g \in Nat \ {0} /\ r \in Nat \ {0} /\ s = g * r /\ a % s = 0
  BY DEF Repeated
<1>1. s \in Nat \ {0}
  BY <1>0
<1>2. m \in Nat /\ a = m * s
  <2> DEFINE b == a % s
  <2>0. a \in Nat
    BY <1>0
  <2>1. m \in Nat
    BY <1>1, <2>0, Division
  <2>2. a = m * s + b
    BY <1>1, <2>0, Division
  <2>3. b = 0
    BY <1>0
  <2> HIDE DEF m, b
  <2>4. m * s \in Nat
    BY <1>1, <2>1
  <2> QED BY <2>1, <2>2, <2>3, <2>4
<1> HIDE DEF m
<1>3. m \in Nat \ {0}
  <2>1. m = 0 => m * s = 0
    BY <1>1
  <2> QED BY <1>0, <1>2, <2>1
<1> DEFINE mg == m * g
           zero == 0
<1>4. mg \in Nat \ {0}
  BY <1>0, <1>3
<1>5. a = r * mg + 0
  <2>1. m * (g * r) = r * (m * g)
    BY <1>0, <1>3
  <2>2. r * (m * g) \in Nat
    BY <1>0, <1>3
  <2> QED BY <1>0, <1>2, <2>1, <2>2
<1>6. zero \in 0..(mg - 1) /\ a = r * mg + zero
  BY <1>4, <1>5
<1> HIDE DEF mg, zero
<1>7. a % mg = zero /\ a \div mg = r
  <2>1. r \in Nat
    BY <1>0
  <2> QED BY <1>4, <1>6, <2>1, Remainder
<1> QED BY <1>4, <1>7 DEF mg, m, zero

\* w is the broadcast of v to new; n, k and m are their dimensions and the new ones.
Repeats(v, new, n, k, m, w) ==
  /\ ViewOK(v) /\ new \in Seq(Nat \ {0}) /\ new # <<>> /\ IsBroadcastable(v.shape, new)
  /\ n = Len(v.shape) /\ k = Len(new) /\ m = k - n
  /\ w = BroadcastView(v, new)

\* A broadcast repeats what it is made from.
LEMMA BroadcastDims ==
  ASSUME NEW v, NEW new, NEW n, NEW k, NEW m, NEW w, Repeats(v, new, n, k, m, w)
  PROVE  /\ ViewOK(w) /\ w.shape = new /\ w.start = v.start
         /\ m \in Nat /\ m + n = k
         /\ Behind(Real(v), n, Real(w), k, m)
         /\ \A d \in 1..k : d <= m => Real(w)[d] = 1
<1>0. /\ ViewOK(v) /\ new \in Seq(Nat \ {0}) /\ new # <<>> /\ IsBroadcastable(v.shape, new)
      /\ n = Len(v.shape) /\ k = Len(new) /\ m = k - n
      /\ w = BroadcastView(v, new)
  BY DEF Repeats
<1>1. /\ n \in Nat \ {0} /\ IsDims(v.shape, n) /\ IsDims(Real(v), n)
      /\ DOMAIN v.shape = 1..n
      /\ \A d \in 1..n : /\ v.shape[d] \in Nat \ {0} /\ v.degree[d] \in Nat \ {0}
                         /\ Real(v)[d] \in Nat \ {0}
                         /\ v.shape[d] = v.degree[d] * Real(v)[d]
  BY <1>0, ViewDims DEF IsDims
<1>2. k \in Nat \ {0} /\ IsDims(new, k) /\ DOMAIN new = 1..k /\ \A d \in 1..k : new[d] \in Nat \ {0}
  <2>1. IsDims(new, Len(new))
    BY <1>0, SeqIsDims
  <2> QED BY <1>0, <2>1, DimsLen DEF IsDims
<1>3. m \in Nat /\ m + n = k /\ \A d \in 1..n : new[d + m] % v.shape[d] = 0
  <2>1. n <= k /\ \A d \in 1..n : new[d + m] % v.shape[d] = 0
    BY <1>0, <1>1 DEF IsBroadcastable
  <2>2. m \in Nat /\ m + n = k
    BY <1>0, <1>1, <1>2, <2>1
  <2> QED BY <2>1, <2>2
<1> DEFINE deg == [d \in 1..k |-> IF d <= m THEN new[d]
                                  ELSE (new[d] \div v.shape[d - m]) * v.degree[d - m]]
<1>4. w = [shape |-> new, degree |-> deg, start |-> v.start,
           end |-> v.end, store |-> v.store]
  <2>1. v = [shape |-> v.shape, degree |-> v.degree, start |-> v.start,
             end |-> v.end, store |-> v.store]
    BY <1>0 DEF ViewOK
  <2>2. w = [v EXCEPT !.shape = new, !.degree = deg]
    BY <1>0, <1>2 DEF BroadcastView
  <2> HIDE DEF deg
  <2> QED BY <2>1, <2>2
<1>5. ASSUME NEW d \in 1..k
      PROVE  /\ deg[d] \in Nat \ {0} /\ new[d] % deg[d] = 0
             /\ d <= m => new[d] \div deg[d] = 1
             /\ ~ (d <= m) => new[d] \div deg[d] = Real(v)[d - m]
  <2> DEFINE a == new[d]
  <2>1. a \in Nat \ {0}
    BY <1>2
  <2>2. CASE d <= m
    <3>1. deg[d] = a
      BY <2>2
    <3> HIDE DEF a, deg
    <3> DEFINE one == 1
               zero == 0
    <3>2. a = one * a + zero /\ one \in Nat /\ zero \in 0..(a - 1)
      BY <2>1
    <3> HIDE DEF one, zero
    <3>3. a % a = zero /\ a \div a = one
      BY <2>1, <3>2, Remainder
    <3> QED BY <2>1, <2>2, <3>1, <3>3 DEF a, one, zero
  <2>3. CASE ~ (d <= m)
    <3> DEFINE e == d - m
               g == v.degree[e]
               r == Real(v)[e]
               s == v.shape[e]
    <3>1. e \in 1..n /\ e + m = d
      BY <1>1, <1>2, <1>3, <2>3
    <3>2. deg[d] = (a \div s) * g
      BY <2>3
    <3>3. g \in Nat \ {0} /\ r \in Nat \ {0} /\ s = g * r
      BY <1>1, <3>1
    <3>4. a % s = 0
      BY <1>3, <3>1
    <3> HIDE DEF a, g, r, s, deg, e
    <3>5. /\ (a \div s) * g \in Nat \ {0}
          /\ a % ((a \div s) * g) = 0
          /\ a \div ((a \div s) * g) = r
      <4>1. Repeated(a, s, g, r)
        BY <2>1, <3>3, <3>4 DEF Repeated
      <4> QED BY <4>1, RepeatedDim
    <3> QED BY <2>3, <3>2, <3>5 DEF a, r, e
  <2> QED BY <2>2, <2>3
<1> HIDE DEF deg
<1>6. w.shape = new /\ w.degree = deg /\ w.start = v.start /\ w.end = v.end /\ w.store = v.store
  BY <1>4
<1>7. deg = [d \in 1..k |-> deg[d]]
  BY DEF deg
<1>8. deg \in Seq(Nat \ {0}) /\ Len(deg) = k
  <2>1. k \in Nat /\ \A d \in 1..k : deg[d] \in Nat \ {0}
    BY <1>2, <1>5
  <2> QED BY <1>7, <2>1
<1>9. Real(w) = [d \in 1..k |-> new[d] \div deg[d]]
  <2>1. Len(w.shape) = k
    BY <1>0, <1>6
  <2> QED BY <1>6, <2>1 DEF Real
<1>10. \A d \in 1..k : /\ d <= m => Real(w)[d] = 1
                       /\ ~ (d <= m) => Real(w)[d] = Real(v)[d - m]
  <2> TAKE d \in 1..k
  <2>1. Real(w)[d] = new[d] \div deg[d]
    BY <1>9
  <2> QED BY <1>5, <2>1
<1>11. IsDims(Real(w), k)
  <2>1. \A d \in 1..k : Real(w)[d] \in Nat \ {0}
    <3> TAKE d \in 1..k
    <3>1. ~ (d <= m) => d - m \in 1..n
      BY <1>1, <1>2, <1>3
    <3>2. CASE d <= m
      <4>1. Real(w)[d] = 1
        BY <1>10, <3>2
      <4> QED BY <4>1
    <3>3. CASE ~ (d <= m)
      <4>1. Real(w)[d] = Real(v)[d - m]
        BY <1>10, <3>3
      <4>2. Real(v)[d - m] \in Nat \ {0}
        BY <1>1, <3>1, <3>3
      <4> QED BY <4>1, <4>2
    <3> QED BY <3>2, <3>3
  <2>2. Real(w) = [d \in 1..k |-> Real(w)[d]]
    BY <1>9
  <2> HIDE DEF Real
  <2> QED BY <1>2, <2>1, <2>2 DEF IsDims
<1>12. Behind(Real(v), n, Real(w), k, m)
  <2>1. ASSUME NEW d \in 1..n PROVE Real(v)[d] = Real(w)[m + d]
    <3>1. m + d \in 1..k /\ ~ (m + d <= m) /\ (m + d) - m = d
      BY <1>1, <1>2, <1>3
    <3> QED BY <1>10, <3>1
  <2> QED BY <1>1, <1>3, <1>11, <2>1 DEF Behind
<1>13. NumElements(Real(w)) = NumElements(Real(v))
  <2> DEFINE c == Spans(Real(w))
  <2>1. c[m] = Spans(Real(v))[0]
    <3> DEFINE r == Real(v)
               s == Real(w)
    <3>0. Behind(r, n, s, k, m)
      BY <1>12
    <3> HIDE DEF r, s
    <3>1. \A d \in 0..n : Spans(r)[d] = Spans(s)[m + d]
      BY <3>0, SpansBehind
    <3>2. 0 \in 0..n /\ m + 0 = m
      BY <1>1, <1>3
    <3> QED BY <3>1, <3>2 DEF r, s
  <2> DEFINE U == {d \in 0..m : c[d] = c[m]}
  <2>2. m \in U
    BY <1>3
  <2>3. ASSUME NEW d \in 1..m, d \in U PROVE d - 1 \in U
    <3>1. d \in 1..k /\ d <= m /\ d - 1 \in 0..m /\ d \in 0..k
      BY <1>1, <1>2, <1>3
    <3>2. c[d - 1] = Real(w)[d] * c[d] /\ c[d] \in Nat
      BY <1>11, <3>1, SpanFacts
    <3>3. Real(w)[d] = 1
      BY <1>10, <3>1
    <3> HIDE DEF c
    <3>4. c[d - 1] = c[d]
      BY <3>2, <3>3
    <3> QED BY <2>3, <3>1, <3>4
  <2> HIDE DEF U
  <2>4. 0..m \subseteq U
    BY <1>3, <2>2, <2>3, Downwards
  <2>5. 0 \in U
    BY <1>3, <2>4
  <2>6. c[0] = c[m]
    BY <2>5 DEF U
  <2>7. NumElements(Real(w)) = c[0] /\ NumElements(Real(v)) = Spans(Real(v))[0]
    BY DEF NumElements
  <2> QED BY <2>1, <2>6, <2>7
<1>14. ViewOK(w)
  <2>1. /\ v.start \in Nat /\ v.end \in Nat /\ v.store \in Nat
        /\ v.end = v.start + NumElements(Real(w)) /\ v.end <= v.store
    BY <1>0, <1>13, ViewDims
  <2>2. Len(w.shape) = k /\ Len(w.degree) = k
    BY <1>0, <1>6, <1>8
  <2>3. \A d \in 1..Len(w.shape) : w.shape[d] % w.degree[d] = 0
    BY <1>5, <1>6, <2>2
  <2>4. w \in [shape : Seq(Nat \ {0}), degree : Seq(Nat \ {0}),
               start : Nat, end : Nat, store : Nat]
    BY <1>0, <1>4, <1>8, <2>1
  <2>5. w.shape # <<>>
    BY <1>0, <1>6
  <2> QED BY <1>6, <2>1, <2>2, <2>3, <2>4, <2>5 DEF ViewOK
<1>15. \A d \in 1..k : d <= m => Real(w)[d] = 1
  BY <1>10
<1> QED BY <1>3, <1>6, <1>12, <1>14, <1>15

LEMMA BroadcastOK ==
  ASSUME NEW v, ViewOK(v), NEW new \in Seq(Nat \ {0}), new # <<>>,
         IsBroadcastable(v.shape, new)
  PROVE  /\ ViewOK(BroadcastView(v, new))
         /\ PlacesOf(BroadcastView(v, new)) = BroadcastMeant(v, PlacesOf(v), new)
<1> SUFFICES ASSUME NEW n, NEW k, NEW m, NEW w, Repeats(v, new, n, k, m, w)
             PROVE  ViewOK(w) /\ PlacesOf(w) = BroadcastMeant(v, PlacesOf(v), new)
  BY DEF Repeats
<1> DEFINE s == v.shape
           Old(i) == [d \in DOMAIN s |-> IndexOf(new, i)[d + m] % s[d]]
<1>1. /\ ViewOK(w) /\ w.shape = new /\ w.start = v.start
      /\ m \in Nat /\ m + n = k
      /\ Behind(Real(v), n, Real(w), k, m)
      /\ \A d \in 1..k : d <= m => Real(w)[d] = 1
  BY BroadcastDims
<1>0. n = Len(s) /\ k = Len(new) /\ m = k - n
  BY DEF Repeats
<1>2. /\ n \in Nat \ {0} /\ IsDims(s, n) /\ DOMAIN s = 1..n /\ IsDims(Real(v), n)
      /\ \A d \in 1..n : /\ s[d] \in Nat \ {0} /\ Real(v)[d] \in Nat \ {0}
                         /\ v.degree[d] \in Nat \ {0}
                         /\ s[d] = v.degree[d] * Real(v)[d]
  BY <1>0, ViewDims DEF IsDims
<1>3. k \in Nat \ {0} /\ IsDims(new, k) /\ IsDims(Real(w), k) /\ NumElements(new) \in Nat
  <2>1. IsDims(new, k)
    BY <1>0, SeqIsDims
  <2> QED BY <1>1, <2>1, SpanFacts DEF Behind
<1>4. BroadcastMeant(v, PlacesOf(v), new)
        = [i \in 1..NumElements(new) |-> PlacesOf(v)[NumberOf(s, Old(i - 1)) + 1]]
  BY <1>0 DEF BroadcastMeant
<1>5. PlacesOf(w) = [i \in 1..NumElements(new) |-> PlaceAt(w, IndexOf(new, i - 1))]
  BY <1>1 DEF PlacesOf
<1>6. ASSUME NEW i \in 1..NumElements(new)
      PROVE  PlacesOf(v)[NumberOf(s, Old(i - 1)) + 1] = PlaceAt(w, IndexOf(new, i - 1))
  <2> DEFINE x == IndexOf(new, i - 1)
             y == Old(i - 1)
             rv == Real(v)
             rw == Real(w)
             xx == Residues(rw, x)
             yy == Residues(rv, y)
  <2>1. i - 1 \in 0..(NumElements(new) - 1)
    BY <1>3
  <2>2. IsIndex(x, new, k)
    BY <1>3, <2>1, NumberOfIndex
  <2>3. \A d \in 1..k : x[d] \in Nat
    <3>1. \A d \in 1..k : new[d] \in Nat \ {0}
      BY <1>3, DimsLen
    <3> QED BY <2>2, <3>1 DEF IsIndex
  <2>4. \A d \in 1..n : d + m \in 1..k /\ m + d \in 1..k /\ d + m = m + d
    BY <1>1, <1>2, <1>3
  <2>5. \A d \in 1..n : y[d] = x[m + d] % s[d]
    BY <1>2, <2>4
  <2> HIDE DEF x, y
  <2>6. ASSUME NEW d \in 1..n
        PROVE  y[d] \in 0..(s[d] - 1) /\ y[d] \in Nat /\ y[d] % rv[d] = x[m + d] % rv[d]
    <3> DEFINE a == x[m + d]
               g == v.degree[d]
               r == rv[d]
               sd == s[d]
    <3>1. a \in Nat /\ g \in Nat \ {0} /\ r \in Nat \ {0} /\ sd \in Nat \ {0} /\ sd = g * r
          /\ y[d] = a % sd
      BY <1>2, <2>3, <2>4, <2>5
    <3> HIDE DEF a, g, r, sd
    <3>2. a % sd \in 0..(sd - 1)
      BY <3>1, Division
    <3>3. (a % (g * r)) % r = a % r
      BY <3>1, RemainderTwice
    <3>4. y[d] \in Nat
      BY <3>1, <3>2
    <3> QED BY <3>1, <3>2, <3>3, <3>4 DEF a, r, sd
  <2>7. IsIndex(y, s, n)
    BY <2>6 DEF IsIndex
  <2>8. PlacesOf(v)[NumberOf(s, y) + 1] = PlaceAt(v, y)
    BY <1>0, <2>7, PlaceOfIndex
  <2>9. \A d \in 1..n : yy[d] = y[d] % rv[d]
    <3>1. \A d \in 1..n : y[d] \in Nat
      BY <2>6
    <3>2. IsDims(rv, n)
      BY <1>2
    <3> HIDE DEF rv
    <3> QED BY <3>1, <3>2, ResidueNumber
  <2>10. \A d \in 1..k : xx[d] = x[d] % rw[d] /\ xx[d] \in Nat
    BY <1>3, <2>3, ResidueNumber
  <2>11. \A d \in 1..n : yy[d] = xx[m + d]
    <3> TAKE d \in 1..n
    <3>1. rv[d] = rw[m + d]
      BY <1>1 DEF Behind
    <3>2. xx[m + d] = x[m + d] % rw[m + d]
      BY <2>4, <2>10
    <3> HIDE DEF xx, yy, rv, rw
    <3> QED BY <2>6, <2>9, <3>1, <3>2
  <2>12. ASSUME NEW d \in 1..k, d <= m PROVE xx[d] = 0
    <3> DEFINE a == x[d]
    <3>1. a \in Nat /\ rw[d] = 1 /\ xx[d] = a % 1
      BY <1>1, <2>3, <2>10, <2>12
    <3> HIDE DEF a, xx
    <3> QED BY <3>1
  <2>13. NumberOf(rw, xx) = NumberOf(rv, yy)
    <3> HIDE DEF xx, yy
    <3>1. Behind(rv, n, rw, k, m)
      BY <1>1
    <3>2. \A d \in 1..k : xx[d] \in Nat /\ (d <= m => xx[d] = 0)
      BY <2>10, <2>12
    <3> HIDE DEF rv, rw
    <3> QED BY <2>11, <3>1, <3>2, NoneBefore
  <2>14. PlaceAt(v, y) = PlaceAt(w, x)
    BY <1>1, <2>13 DEF PlaceAt
  <2> QED BY <2>8, <2>14 DEF x, y
<1> HIDE DEF Old
<1> QED BY <1>1, <1>4, <1>5, <1>6

\* w is row j of v; n, and k of the row, are their dimensions.
IsRow(v, j, n, k, w) ==
  /\ ViewOK(v) /\ n = Len(v.shape) /\ n > 1 /\ k = n - 1
  /\ j \in Nat /\ j < Real(v)[1]
  /\ w = Row(v, StepRow(v, j))

LEMMA RowDims ==
  ASSUME NEW v, NEW j, NEW n, NEW k, NEW w, IsRow(v, j, n, k, w)
  PROVE  /\ ViewOK(w) /\ Len(w.shape) = k /\ n \in Nat /\ k \in Nat \ {0} /\ 1 + k = n
         /\ w.start = v.start + j * Spans(Real(v))[1]
         /\ Behind(w.shape, k, v.shape, n, 1)
         /\ Behind(Real(w), k, Real(v), n, 1)
<1>0. /\ ViewOK(v) /\ n = Len(v.shape) /\ n > 1 /\ k = n - 1
      /\ j \in Nat /\ j < Real(v)[1] /\ w = Row(v, StepRow(v, j))
  BY DEF IsRow
<1>1. /\ IsDims(v.shape, n) /\ IsDims(v.degree, n) /\ IsDims(Real(v), n)
      /\ \A d \in 1..n : /\ v.shape[d] \in Nat \ {0} /\ v.degree[d] \in Nat \ {0}
                         /\ Real(v)[d] \in Nat \ {0}
                         /\ Real(v)[d] = v.shape[d] \div v.degree[d]
      /\ v.start \in Nat /\ v.end \in Nat /\ v.store \in Nat
      /\ v.end = v.start + NumElements(Real(v)) /\ v.end <= v.store
  BY <1>0, ViewDims
<1>2. /\ n \in Nat \ {0} /\ k \in Nat \ {0} /\ 1 + k = n /\ 1 \in 1..n /\ 1 \in 0..n
      /\ \A e \in 1..k : e + 1 \in 1..n /\ 1 + e \in 1..n /\ e + 1 = 1 + e
  <2>1. n \in Nat
    BY <1>1 DEF IsDims
  <2>2. k \in Nat \ {0} /\ 1 + k = n
    <3>1. k = n - 1 /\ n > 1
      BY <1>0
    <3> QED BY <2>1, <3>1
  <2>3. 1 \in 1..n /\ 1 \in 0..n /\ n # 0
    BY <2>1, <2>2
  <2>4. ASSUME NEW e \in 1..k PROVE e + 1 \in 1..n /\ 1 + e \in 1..n /\ e + 1 = 1 + e
    BY <2>1, <2>2
  <2> QED BY <2>1, <2>2, <2>3, <2>4
<1> DEFINE c == Spans(Real(v))
           off == StepRow(v, j)
           sh == Tail(v.shape)
           dg == Tail(v.degree)
<1>3. c[1] \in Nat \ {0} /\ c[0] = Real(v)[1] * c[1] /\ NumElements(Real(v)) = c[0]
  <2>1. c[1 - 1] = Real(v)[1] * c[1]
    BY <1>1, <1>2, SpanFacts
  <2>2. c[1] \in Nat \ {0} /\ NumElements(Real(v)) = c[0]
    BY <1>1, <1>2, SpanFacts
  <2> QED BY <2>1, <2>2
<1>4. off = j * c[1]
  <2>1. Real(v)[1] \in Nat \ {0} /\ Strides(v)[1] \in Nat /\ Strides(v)[1] = c[1]
    BY <1>1, <1>2, <1>3 DEF Strides
  <2>2. StepRow(v, j) = IF j < Real(v)[1] THEN j * Strides(v)[1] ELSE 0
    BY <1>0, <2>1, StepRowIs
  <2> QED BY <1>0, <2>1, <2>2
<1>5. /\ w = [shape |-> sh, degree |-> dg, start |-> v.start + off,
              end |-> v.start + off + c[1], store |-> v.store]
  <2>1. v = [shape |-> v.shape, degree |-> v.degree, start |-> v.start,
             end |-> v.end, store |-> v.store]
    BY <1>0 DEF ViewOK
  <2> DEFINE a == v.start + off
             b == v.start + off + c[1]
  <2>2. w = [v EXCEPT !.shape = Tail(@), !.degree = Tail(@), !.start = @ + off, !.end = b]
    BY <1>0 DEF Row, Strides
  <2>3. w = [v EXCEPT !.shape = sh, !.degree = dg, !.start = a, !.end = b]
    BY <2>2
  <2> HIDE DEF sh, dg, a, b
  <2>4. w = [shape |-> sh, degree |-> dg, start |-> a, end |-> b, store |-> v.store]
    BY <2>1, <2>3
  <2> QED BY <2>4 DEF a, b
<1>6. /\ sh \in Seq(Nat \ {0}) /\ Len(sh) = k /\ \A e \in 1..k : sh[e] = v.shape[e + 1]
      /\ dg \in Seq(Nat \ {0}) /\ Len(dg) = k /\ \A e \in 1..k : dg[e] = v.degree[e + 1]
  <2>1. v.shape \in Seq(Nat \ {0}) /\ v.degree \in Seq(Nat \ {0}) /\ Len(v.degree) = n
        /\ v.shape # <<>> /\ v.degree # <<>>
    BY <1>1, DimsLen
  <2>2. sh \in Seq(Nat \ {0}) /\ Len(sh) = k /\ \A e \in 1..k : sh[e] = v.shape[e + 1]
    BY <1>0, <1>2, <2>1, HeadTailProperties
  <2>3. dg \in Seq(Nat \ {0}) /\ Len(dg) = k /\ \A e \in 1..k : dg[e] = v.degree[e + 1]
    BY <1>0, <1>2, <2>1, HeadTailProperties
  <2> QED BY <2>2, <2>3
<1> HIDE DEF sh, dg, off, c
<1>7. /\ w.shape = sh /\ w.degree = dg /\ w.start = v.start + off
      /\ w.end = v.start + off + c[1] /\ w.store = v.store
  BY <1>5
<1>8. sh # <<>> /\ IsDims(sh, k)
  <2>1. sh # <<>>
    BY <1>2, <1>6
  <2>2. IsDims(sh, Len(sh))
    BY <1>6, <2>1, SeqIsDims
  <2> QED BY <1>6, <2>1, <2>2
<1>9. Real(w) = [e \in 1..k |-> sh[e] \div dg[e]]
  BY <1>6, <1>7 DEF Real
<1>10. \A e \in 1..k : Real(w)[e] = Real(v)[1 + e] /\ Real(w)[e] \in Nat \ {0}
  <2> TAKE e \in 1..k
  <2>1. Real(w)[e] = sh[e] \div dg[e]
    BY <1>9
  <2>2. sh[e] = v.shape[1 + e] /\ dg[e] = v.degree[1 + e]
    BY <1>2, <1>6
  <2> QED BY <1>1, <1>2, <2>1, <2>2
<1>11. IsDims(Real(w), k)
  <2>1. Real(w) = [e \in 1..k |-> Real(w)[e]]
    BY <1>9
  <2> QED BY <1>2, <1>10, <2>1 DEF IsDims
<1>12. Behind(sh, k, v.shape, n, 1)
  <2>1. \A e \in 1..k : sh[e] = v.shape[1 + e]
    BY <1>2, <1>6
  <2> QED BY <1>1, <1>2, <1>8, <2>1 DEF Behind
<1>13. Behind(Real(w), k, Real(v), n, 1)
  BY <1>1, <1>2, <1>10, <1>11 DEF Behind
<1>14. c[1] = NumElements(Real(w))
  <2> DEFINE zeros == [d \in 1..n |-> 0]
             y == [d \in 1..k |-> 0]
             r == Real(w)
             s == Real(v)
  <2>1. \A d \in 1..n : zeros[d] \in Nat
    OBVIOUS
  <2>2. \A d \in 1..k : y[d] = zeros[1 + d]
    BY <1>2
  <2>3. Behind(r, k, s, n, 1)
    BY <1>13
  <2> HIDE DEF zeros, y, r, s
  <2>4. Spans(s)[1] = NumElements(r)
    BY <2>1, <2>2, <2>3, OneBefore
  <2> QED BY <2>4 DEF r, s, c
<1>15. off \in Nat /\ off + c[1] <= NumElements(Real(v)) /\ NumElements(Real(v)) \in Nat
  <2> DEFINE rv == Real(v)[1]
             cc == c[1]
  <2>1. rv \in Nat \ {0} /\ cc \in Nat \ {0} /\ j < rv /\ c[0] = rv * cc /\ off = j * cc
    BY <1>0, <1>1, <1>2, <1>3, <1>4
  <2> HIDE DEF rv, cc
  <2>2. j * cc + cc <= rv * cc
    BY <1>0, <2>1, Multiples
  <2>3. off \in Nat /\ rv * cc \in Nat
    BY <1>0, <2>1
  <2> QED BY <1>3, <2>1, <2>2, <2>3 DEF cc
<1>16. ViewOK(w)
  <2>1. \A d \in 1..Len(w.shape) : w.shape[d] % w.degree[d] = 0
    <3>1. \A d \in 1..n : v.shape[d] % v.degree[d] = 0
      BY <1>0 DEF ViewOK
    <3>2. \A d \in 1..k : w.shape[d] = v.shape[d + 1] /\ w.degree[d] = v.degree[d + 1]
      BY <1>6, <1>7
    <3>3. Len(w.shape) = k
      BY <1>6, <1>7
    <3> QED BY <1>2, <3>1, <3>2, <3>3
  <2>2. w.start \in Nat /\ w.end \in Nat /\ w.store \in Nat
        /\ w.end = w.start + NumElements(Real(w)) /\ w.end <= w.store
    BY <1>1, <1>3, <1>7, <1>14, <1>15
  <2>3. w \in [shape : Seq(Nat \ {0}), degree : Seq(Nat \ {0}),
               start : Nat, end : Nat, store : Nat]
    BY <1>5, <1>6, <1>7, <2>2
  <2>4. w.shape # <<>> /\ Len(w.degree) = Len(w.shape)
    BY <1>6, <1>7, <1>8
  <2> QED BY <2>1, <2>2, <2>3, <2>4 DEF ViewOK
<1> QED BY <1>2, <1>4, <1>6, <1>7, <1>12, <1>13, <1>16 DEF c

LEMMA RowOK ==
  ASSUME NEW v, ViewOK(v), Len(v.shape) > 1, NEW j \in Nat, j < Real(v)[1],
         NEW p, p = NumElements(Tail(v.shape))
  PROVE  /\ ViewOK(Row(v, StepRow(v, j)))
         /\ PlacesOf(Row(v, StepRow(v, j))) = SubSeq(PlacesOf(v), j * p + 1, (j + 1) * p)
<1> SUFFICES ASSUME NEW n, NEW k, NEW w, IsRow(v, j, n, k, w), w.shape = Tail(v.shape)
             PROVE  ViewOK(w) /\ PlacesOf(w) = SubSeq(PlacesOf(v), j * p + 1, (j + 1) * p)
  <2> DEFINE w == Row(v, StepRow(v, j))
             n == Len(v.shape)
             k == n - 1
  <2>1. IsRow(v, j, n, k, w)
    BY DEF IsRow
  <2>2. w.shape = Tail(v.shape)
    <3>1. v = [shape |-> v.shape, degree |-> v.degree, start |-> v.start,
               end |-> v.end, store |-> v.store]
      BY DEF ViewOK
    <3>2. DOMAIN v = {"shape", "degree", "start", "end", "store"}
      BY <3>1
    <3> QED BY <3>2 DEF Row
  <2> HIDE DEF w, n, k
  <2> QED BY <2>1, <2>2 DEF w
<1>1. /\ ViewOK(w) /\ Len(w.shape) = k /\ n \in Nat /\ k \in Nat \ {0} /\ 1 + k = n
      /\ w.start = v.start + j * Spans(Real(v))[1]
      /\ Behind(w.shape, k, v.shape, n, 1)
      /\ Behind(Real(w), k, Real(v), n, 1)
  BY RowDims
<1>2. n = Len(v.shape) /\ p = NumElements(w.shape)
  BY DEF IsRow
<1>3. /\ IsDims(v.shape, n) /\ IsDims(Real(v), n) /\ v.start \in Nat
      /\ \A d \in 1..n : /\ v.shape[d] \in Nat \ {0} /\ v.degree[d] \in Nat \ {0}
                         /\ Real(v)[d] \in Nat \ {0}
                         /\ v.shape[d] = v.degree[d] * Real(v)[d]
  BY <1>2, ViewDims
<1>4. IsDims(w.shape, k) /\ IsDims(Real(w), k) /\ p \in Nat \ {0}
  <2>1. IsDims(w.shape, k) /\ IsDims(Real(w), k)
    BY <1>1 DEF Behind
  <2> QED BY <1>2, <2>1, SpanFacts
<1> DEFINE r1 == Real(v)[1]
           s1 == v.shape[1]
           x(i) == [d \in 1..n |-> IF d = 1 THEN j ELSE IndexOf(w.shape, i - 1)[d - 1]]
<1>5. r1 \in Nat \ {0} /\ s1 \in Nat \ {0} /\ j < r1 /\ r1 <= s1
  <2> DEFINE g == v.degree[1]
  <2>1. 1 \in 1..n
    BY <1>1
  <2>2. r1 \in Nat \ {0} /\ s1 \in Nat \ {0} /\ g \in Nat \ {0} /\ s1 = g * r1 /\ j < r1
    BY <1>3, <2>1
  <2> HIDE DEF r1, s1, g
  <2>3. 0 \in Nat /\ 0 < g /\ g \in Nat
    BY <2>2
  <2>4. 0 * r1 + r1 <= g * r1
    BY <2>2, <2>3, Multiples
  <2> QED BY <2>2, <2>4
<1> HIDE DEF r1, s1
<1>6. ASSUME NEW i \in 1..p
      PROVE  /\ PlacesOf(v)[j * p + i] = PlacesOf(w)[i]
             /\ j * p + i \in 1..NumElements(v.shape)
  <2> DEFINE y == IndexOf(w.shape, i - 1)
             xi == x(i)
  <2>1. i - 1 \in 0..(NumElements(w.shape) - 1)
    BY <1>2, <1>4
  <2>2. IsIndex(y, w.shape, k) /\ NumberOf(w.shape, y) = i - 1
    BY <1>4, <2>1, NumberOfIndex
  <2>3. xi[1] = j /\ \A d \in 1..k : 1 + d \in 1..n /\ xi[1 + d] = y[d]
    <3>1. 1 \in 1..n
      BY <1>1
    <3>2. ASSUME NEW d \in 1..k PROVE 1 + d \in 1..n /\ 1 + d # 1 /\ (1 + d) - 1 = d
      BY <1>1
    <3> HIDE DEF y
    <3>3. \A d \in 1..k : xi[1 + d] = IndexOf(w.shape, i - 1)[(1 + d) - 1]
      BY <3>2
    <3> QED BY <3>1, <3>2, <3>3 DEF y
  <2> HIDE DEF xi, x, y
  <2>4. \A d \in 1..n : d = 1 \/ (d - 1 \in 1..k /\ 1 + (d - 1) = d)
    BY <1>1
  <2>5. \A d \in 1..k : w.shape[d] = v.shape[1 + d] /\ Real(w)[d] = Real(v)[1 + d]
    BY <1>1 DEF Behind
  <2>6. \A d \in 1..k : y[d] \in Nat /\ y[d] \in 0..(w.shape[d] - 1)
    <3> TAKE d \in 1..k
    <3>1. w.shape[d] \in Nat \ {0}
      BY <1>4, DimsLen
    <3>2. y[d] \in 0..(w.shape[d] - 1)
      BY <2>2 DEF IsIndex
    <3> DEFINE b == w.shape[d]
    <3>3. b \in Nat /\ y[d] \in 0..(b - 1)
      BY <3>1, <3>2
    <3> HIDE DEF b
    <3>4. y[d] \in Nat
      BY <3>3
    <3> QED BY <3>2, <3>4
  <2>7. IsIndex(xi, v.shape, n)
    <3> SUFFICES ASSUME NEW d \in 1..n PROVE xi[d] \in 0..(v.shape[d] - 1)
      BY DEF IsIndex
    <3>1. CASE d = 1
      <4>1. j \in 0..(s1 - 1)
        BY <1>5
      <4> QED BY <2>3, <3>1, <4>1 DEF s1
    <3>2. CASE d # 1
      <4> DEFINE e == d - 1
      <4>1. e \in 1..k /\ 1 + e = d
        BY <2>4, <3>2
      <4> HIDE DEF e
      <4>2. xi[1 + e] = y[e] /\ w.shape[e] = v.shape[1 + e] /\ y[e] \in 0..(w.shape[e] - 1)
        BY <2>3, <2>5, <2>6, <4>1
      <4> QED BY <4>1, <4>2
    <3> QED BY <3>1, <3>2
  <2>8. \A d \in 1..n : xi[d] \in Nat
    BY <1>3, <2>7 DEF IsIndex
  <2>9. NumberOf(v.shape, xi) = j * p + (i - 1)
    <3> DEFINE s == v.shape
               r == w.shape
    <3>1. Behind(r, k, s, n, 1)
      BY <1>1
    <3>2. \A d \in 1..k : y[d] = xi[1 + d]
      BY <2>3
    <3>3. p = NumElements(r) /\ NumberOf(r, y) = i - 1
      BY <1>2, <2>2
    <3> HIDE DEF s, r
    <3>4. Spans(s)[1] = NumElements(r)
      BY SMTT(30), <2>8, <3>1, <3>2, OneBefore
    <3>5. NumberOf(s, xi) = xi[1] * Spans(s)[1] + NumberOf(r, y)
      BY <2>8, <3>1, <3>2, OneBefore
    <3>6. NumberOf(s, xi) = j * p + (i - 1)
      BY <2>3, <3>3, <3>4, <3>5
    <3> QED BY <3>6 DEF s
  <2>10. NumberOf(v.shape, xi) + 1 = j * p + i
    <3> DEFINE jp == j * p
    <3>1. jp \in Nat /\ NumberOf(v.shape, xi) = jp + (i - 1) /\ i \in Nat
      BY <1>4, <2>9
    <3> HIDE DEF jp
    <3>2. NumberOf(v.shape, xi) + 1 = jp + i
      BY <3>1
    <3> QED BY <3>2 DEF jp
  <2>11. /\ NumberOf(v.shape, xi) + 1 \in 1..NumElements(v.shape)
         /\ PlacesOf(v)[NumberOf(v.shape, xi) + 1] = PlaceAt(v, xi)
    BY <1>2, <2>7, PlaceOfIndex
  <2> DEFINE rv == Real(v)
             rw == Real(w)
             xx == Residues(rv, xi)
             yy == Residues(rw, y)
  <2>12. \A d \in 1..n : xx[d] = xi[d] % rv[d] /\ xx[d] \in Nat
    BY <1>3, <2>8, ResidueNumber
  <2>13. \A d \in 1..k : yy[d] = y[d] % rw[d] /\ yy[d] \in Nat
    BY <1>4, <2>6, ResidueNumber
  <2>14. xx[1] = j
    <3>1. 1 \in 1..n /\ xx[1] = j % r1
      <4>1. 1 \in 1..n
        BY <1>1
      <4>2. xx[1] = xi[1] % rv[1]
        BY <2>12, <4>1
      <4> HIDE DEF xx
      <4> QED BY <2>3, <4>1, <4>2 DEF r1
    <3>2. j \in 0..(r1 - 1)
      BY <1>5
    <3>3. j % r1 = j
      BY <1>5, <3>2, SmallRemainder
    <3> QED BY <3>1, <3>3
  <2>15. \A d \in 1..k : yy[d] = xx[1 + d]
    <3> TAKE d \in 1..k
    <3>1. 1 + d \in 1..n /\ xi[1 + d] = y[d] /\ rw[d] = rv[1 + d]
      BY <2>3, <2>5
    <3>2. xx[1 + d] = xi[1 + d] % rv[1 + d] /\ yy[d] = y[d] % rw[d]
      BY <2>12, <2>13, <3>1
    <3> HIDE DEF xx, yy, rv, rw
    <3> QED BY <3>1, <3>2
  <2>16. NumberOf(rv, xx) = j * Spans(rv)[1] + NumberOf(rw, yy)
    <3>1. Behind(rw, k, rv, n, 1)
      BY <1>1
    <3>2. \A d \in 1..n : xx[d] \in Nat
      BY <2>12
    <3> HIDE DEF rv, rw, xx, yy
    <3>3. NumberOf(rv, xx) = xx[1] * Spans(rv)[1] + NumberOf(rw, yy)
      BY <2>15, <3>1, <3>2, OneBefore
    <3> QED BY <2>14, <3>3
  <2>17. PlaceAt(v, xi) = PlaceAt(w, y)
    <3>1. PlaceAt(v, xi) = v.start + NumberOf(rv, xx) /\ PlaceAt(w, y) = w.start + NumberOf(rw, yy)
      BY DEF PlaceAt
    <3>2. w.start = v.start + j * Spans(rv)[1]
      BY <1>1
    <3>3. NumberOf(rw, yy) \in Nat /\ Spans(rv)[1] \in Nat
      <4>1. NumberOf(rw, yy) \in Nat
        BY <1>4, <2>13, NumberSum
      <4>2. 1 \in 0..n
        BY <1>1
      <4>3. Spans(rv)[1] \in Nat
        BY <1>3, <4>2, SpanFacts
      <4> QED BY <4>1, <4>3
    <3> DEFINE a == Spans(rv)[1]
               b == NumberOf(rw, yy)
               ja == j * a
    <3>4. ja \in Nat
      BY <3>3
    <3> HIDE DEF rv, rw, xx, yy
    <3> HIDE DEF a, b
    <3>5. b \in Nat /\ w.start = v.start + ja /\ PlaceAt(v, xi) = v.start + (ja + b)
          /\ PlaceAt(w, y) = w.start + b
      BY <2>16, <3>1, <3>2, <3>3 DEF a, b
    <3> HIDE DEF ja
    <3> QED BY <1>3, <3>4, <3>5
  <2>18. PlacesOf(w)[i] = PlaceAt(w, y)
    BY <1>2 DEF PlacesOf, y
  <2> QED BY <2>10, <2>11, <2>17, <2>18
<1>7. PlacesOf(w) = [i \in 1..p |-> PlacesOf(w)[i]]
  BY <1>2 DEF PlacesOf
<1>8. SubSeq(PlacesOf(v), j * p + 1, (j + 1) * p) = [i \in 1..p |-> PlacesOf(v)[j * p + i]]
  <2> DEFINE a == j * p
             b == (j + 1) * p
             f == PlacesOf(v)
             N == NumElements(v.shape)
             S == {f[i] : i \in 1..N}
  <2>1. a \in Nat /\ b = a + p /\ N \in Nat
    <3>1. N \in Nat
      BY <1>3, SpanFacts
    <3> QED BY <1>4, <3>1
  <2>2. f = [i \in 1..N |-> f[i]]
    BY DEF PlacesOf
  <2>3. \A i \in 1..p : a + i \in 1..N
    BY <1>6
  <2> HIDE DEF a, b, f, N
  <2>4. f \in Seq(S) /\ Len(f) = N
    BY <2>1, <2>2
  <2>5. b \in Nat /\ b <= N
    <3>1. p \in 1..p
      BY <1>4
    <3> QED BY <1>4, <2>1, <2>3, <3>1
  <2> HIDE DEF S
  <2>6. SubSeq(f, a + 1, b) = [i \in 1..((b - (a + 1)) + 1) |-> f[((a + 1) + i) - 1]]
    BY SMTT(30), <2>1, <2>4, <2>5
  <2>7. (b - (a + 1)) + 1 = p /\ \A i \in 1..p : ((a + 1) + i) - 1 = a + i
    BY <1>4, <2>1
  <2>8. SubSeq(f, a + 1, b) = [i \in 1..p |-> f[a + i]]
    BY <2>6, <2>7
  <2> QED BY <2>8 DEF a, b, f
<1> QED BY <1>1, <1>6, <1>7, <1>8

-----------------------------------------------------------------------------
(* Which pointers have a view.                                             *)

\* A release empties h, or moves from it; an assignment to h is about to take.
Moving(h) ==
  LET r == pc[Owner[h]] IN
  r # NoRelease /\ (r.of = h \/ (r.use = "move" /\ r.from = h))
Awaits(h) ==
  LET r == pc[Owner[h]] IN
  r # NoRelease /\ r.of = h /\ r.use # "drop" /\ block[r.from] # Null

\* Such a pointer has a view.
Needs(h) == (block[h] # Null /\ ~Moving(h)) \/ Awaits(h)

\* A pointer of an idle thread that is not null.
LEMMA IdleNeeds ==
  ASSUME NEW h \in Handles, block[h] # Null, Idle(Owner[h])
  PROVE  Needs(h)
  BY DEF Needs, Moving, Idle

\* What a release is for does not change while it goes on.
LEMMA NeedsAlike ==
  ASSUME NEW h \in Handles, pc'[Owner[h]] = pc[Owner[h]], block'[h] = block[h],
         pc[Owner[h]] # NoRelease => block'[pc[Owner[h]].from] = block[pc[Owner[h]].from]
  PROVE  Needs(h)' <=> Needs(h)
  BY DEF Needs, Moving, Awaits

LEMMA NeedsIdle ==
  ASSUME NEW h \in Handles, pc'[Owner[h]] = NoRelease
  PROVE  Needs(h)' <=> block'[h] # Null
  BY DEF Needs, Moving, Awaits

\* The sources of releases belong to threads that are not idle.
LEMMA BusySource ==
  ASSUME PInv, NEW h \in Pointers, pc[Owner[h]] # NoRelease
  PROVE  LET r == pc[Owner[h]] IN
         r.of \in Pointers /\ r.from \in Pointers
           /\ Owner[r.of] = Owner[h] /\ Owner[r.from] = Owner[h]
<1>1. Owner[h] \in Threads /\ PTypeOK /\ Protocol
  BY PointersAssumption DEF PInv
<1>2. pc[Owner[h]] \in Release
  BY <1>1 DEF PTypeOK
<1> QED BY <1>1, <1>2 DEF Protocol, Release

\* A step of thread t alone, or of no thread, leaves the other threads' needs alone.
LEMMA NeedsOfOthers ==
  ASSUME PInv, NEW h \in Handles, NEW T \in SUBSET Threads,
         \A s \in Threads \ T : pc'[s] = pc[s],
         \A p \in Pointers : Owner[p] \notin T => block'[p] = block[p],
         Owner[h] \notin T
  PROVE  Needs(h)' <=> Needs(h)
<1>1. h \in Pointers /\ Owner[h] \in Threads
  BY PointersAssumption DEF Pointers
<1>2. pc[Owner[h]] # NoRelease => block'[pc[Owner[h]].from] = block[pc[Owner[h]].from]
  BY <1>1, BusySource
<1> QED BY <1>1, <1>2, NeedsAlike

\* The second halves of releases.
LEMMA ContinueNeeds ==
  ASSUME PInv, NEW t \in Threads, Continue(t), NEW h \in Handles, Needs(h)'
  PROVE  Needs(h)
<1> DEFINE p == pc[t].of
           q == pc[t].from
           u == pc[t].use
<1>1. PTypeOK /\ Protocol
  BY DEF PInv
<1>2. pc[t] # NoRelease /\ pc[t] \in Release /\ (pc[t].at = "deleter" \/ pc[t].at = "take")
  BY <1>1 DEF Continue, CallDeleter, Take, PTypeOK
<1>3. /\ p \in Pointers /\ q \in Pointers /\ Owner[p] = t /\ Owner[q] = t
      /\ u \in {"drop", "copy", "move"} /\ (u # "drop" => p # q)
  BY <1>1, <1>2 DEF Protocol, Release
<1>4. h \in Pointers /\ Owner[h] \in Threads
  BY PointersAssumption DEF Pointers
<1>5. /\ \A s \in Threads \ {t} : pc'[s] = pc[s]
      /\ \A x \in Pointers : x # p /\ x # q => block'[x] = block[x]
  BY <1>1, <1>2, <1>3 DEF Continue, CallDeleter, Take, PTypeOK
<1>6. CASE Owner[h] # t
  <2>1. \A x \in Pointers : Owner[x] \notin {t} => block'[x] = block[x]
    BY <1>3, <1>5
  <2>2. {t} \in SUBSET Threads /\ Owner[h] \notin {t}
    BY <1>6
  <2> QED BY <1>5, <2>1, <2>2, NeedsOfOthers
<1>7. CASE Owner[h] = t /\ CallDeleter(t)
  <2>1. /\ pc'[t] = IF u = "drop" THEN NoRelease ELSE [pc[t] EXCEPT !.at = "take"]
        /\ block'[p] = Null /\ \A x \in Pointers \ {p} : block'[x] = block[x]
    BY <1>1, <1>3, <1>7 DEF CallDeleter, PTypeOK
  <2>2. CASE u = "drop"
    <3>1. block'[h] # Null
      BY <1>7, <2>1, <2>2, NeedsIdle
    <3>2. h # p /\ block[h] # Null
      BY <1>4, <2>1, <3>1
    <3> QED BY <1>7, <2>2, <3>2 DEF Needs, Moving
  <2>3. CASE u # "drop"
    <3>1. /\ pc'[t] # NoRelease /\ pc'[t].of = p /\ pc'[t].from = q /\ pc'[t].use = u
      BY <1>2, <2>1, <2>3 DEF Release, NoRelease
    <3>2. block'[q] = block[q]
      BY <1>3, <2>1, <2>3
    <3>3. Awaits(h)' => Awaits(h)
      BY <1>2, <1>7, <3>1, <3>2 DEF Awaits
    <3>4. Moving(h)' <=> Moving(h)
      BY <1>2, <1>7, <3>1 DEF Moving
    <3>5. block'[h] # Null => block[h] # Null
      BY <1>4, <2>1
    <3> QED BY <3>3, <3>4, <3>5 DEF Needs
  <2> QED BY <2>2, <2>3
<1>8. CASE Owner[h] = t /\ Take(t)
  <2>1. pc'[t] = NoRelease
    BY <1>1, <1>8 DEF Take, PTypeOK
  <2>2. block'[h] # Null
    BY <1>8, <2>1, NeedsIdle
  <2>3. pc[t].at = "take" /\ u # "drop" /\ p # q
    BY <1>1, <1>2, <1>3, <1>8 DEF Take, Protocol
  <2>4. /\ block'[p] = block[q] /\ \A x \in Pointers \ {p, q} : block'[x] = block[x]
        /\ u = "move" => block'[q] = Null
        /\ u # "move" => block'[q] = block[q]
    BY <1>1, <1>3, <1>8, <2>3 DEF Take, PTypeOK
  <2>5. CASE h = p
    BY <1>2, <1>8, <2>2, <2>3, <2>4, <2>5 DEF Needs, Awaits
  <2>6. CASE h = q /\ h # p
    <3>1. u # "move" /\ block[h] # Null
      BY <2>2, <2>4, <2>6
    <3> QED BY <1>8, <2>6, <3>1 DEF Needs, Moving
  <2>7. CASE h # p /\ h # q
    <3>1. block[h] # Null
      BY <1>4, <2>2, <2>4, <2>7
    <3> QED BY <1>8, <2>7, <3>1 DEF Needs, Moving
  <2> QED BY <2>5, <2>6, <2>7
<1> QED BY <1>6, <1>7, <1>8 DEF Continue

\* The beginnings of releases and assignments.  p is not needed any more, and x is
\* only if it was.
LEMMA StartNeeds ==
  ASSUME PInv, NEW p \in Pointers, NEW q \in Pointers, NEW use \in {"drop", "copy", "move"},
         NEW at \in {"deleter", "take"}, Owner[q] = Owner[p],
         Idle(Owner[p]), block' = block,
         pc' = [pc EXCEPT ![Owner[p]] = [at |-> at, of |-> p, use |-> use, from |-> q]],
         NEW h \in Handles, Needs(h)'
  PROVE  /\ h # p => Needs(h)
         /\ h = p => use # "drop" /\ block[q] # Null
         /\ h = q => use # "move" \/ h = p
<1> DEFINE r == [at |-> at, of |-> p, use |-> use, from |-> q]
           t == Owner[p]
<1>1. /\ r # NoRelease /\ r.of = p /\ r.use = use /\ r.from = q /\ t \in Threads
  BY PointersAssumption DEF NoRelease
<1>2. h \in Pointers /\ Owner[h] \in Threads
  BY PointersAssumption DEF Pointers
<1> HIDE DEF r
<1>3. \A s \in Threads : pc'[s] = IF s = t THEN r ELSE pc[s]
  BY <1>1 DEF PInv, PTypeOK, r
<1>4. CASE Owner[h] # t
  <2>1. h # p /\ h # q
    BY <1>4
  <2>2. {t} \in SUBSET Threads /\ Owner[h] \notin {t} /\ \A s \in Threads \ {t} : pc'[s] = pc[s]
    BY <1>1, <1>3, <1>4
  <2>3. \A x \in Pointers : Owner[x] \notin {t} => block'[x] = block[x]
    OBVIOUS
  <2>4. Needs(h)
    BY <2>2, <2>3, NeedsOfOthers
  <2> QED BY <2>1, <2>4
<1>5. CASE Owner[h] = t
  <2>1. pc'[Owner[h]] = r /\ block'[h] = block[h] /\ block'[q] = block[q]
    BY <1>1, <1>3, <1>5
  <2>2. Awaits(h)' <=> h = p /\ use # "drop" /\ block[q] # Null
    BY <1>1, <2>1 DEF Awaits
  <2>3. Moving(h)' <=> h = p \/ (use = "move" /\ h = q)
    BY <1>1, <2>1 DEF Moving
  <2>4. CASE h = p
    BY <2>2, <2>3, <2>4 DEF Needs
  <2>5. CASE h # p
    <3>1. block[h] # Null /\ ~ (use = "move" /\ h = q)
      BY <2>1, <2>2, <2>3, <2>5 DEF Needs
    <3>2. Needs(h)
      BY <1>5, <3>1, IdleNeeds
    <3> QED BY <2>5, <3>1, <3>2
  <2> QED BY <2>4, <2>5
<1> QED BY <1>4, <1>5

\* What WeakPtrs do does not concern tensors.
LEMMA WeakNeeds ==
  ASSUME PInv, WeakNext, NEW h \in Handles, Needs(h)'
  PROVE  Needs(h)
<1>0. /\ h \in Pointers /\ h \notin WeakHandles
      /\ \A x \in WeakHandles : x \in Pointers /\ x # h
  BY PointersAssumption DEF Pointers
<1>1. PICK w \in WeakHandles :
        \/ Drop(w)
        \/ \E q \in Pointers : Watch(q, w) \/ WeakCopy(q, w) \/ AssignCopy(q, w)
        \/ \E q \in WeakHandles : Move(q, w) \/ AssignMove(q, w)
  BY DEF WeakNext
<1>2. w \in Pointers /\ w # h
  BY <1>0
<1>3. ASSUME NEW q \in Pointers, NEW use \in {"drop", "copy", "move"}, StartRelease(w, use, q),
             Owner[q] = Owner[w]
      PROVE  Needs(h)
  <2>1. /\ Idle(Owner[w]) /\ block' = block
        /\ pc' = [pc EXCEPT ![Owner[w]] =
                    [at |-> "deleter", of |-> w, use |-> use, from |-> q]]
    BY <1>3 DEF StartRelease
  <2> QED BY <1>2, <1>3, <2>1, StartNeeds
<1>4. ASSUME NEW q \in Pointers, NEW use \in {"copy", "move"}, Assign(q, w, use)
      PROVE  Needs(h)
  <2>1. Owner[q] = Owner[w]
    BY <1>4 DEF Assign
  <2>2. CASE block[w] # Null
    <3>1. StartRelease(w, use, q)
      BY <1>4, <2>2 DEF Assign
    <3> QED BY <1>3, <2>1, <3>1
  <2>3. CASE block[w] = Null
    <3>1. /\ Idle(Owner[w]) /\ block' = block
          /\ pc' = [pc EXCEPT ![Owner[w]] =
                      [at |-> "take", of |-> w, use |-> use, from |-> q]]
      BY <1>4, <2>3 DEF Assign
    <3> QED BY <1>2, <1>4, <2>1, <3>1, StartNeeds
  <2> QED BY <2>2, <2>3
<1>5. ASSUME pc' = pc, \A x \in Handles : block'[x] = block[x],
             \A x \in Pointers : pc[Owner[x]] # NoRelease => block'[x] = block[x]
      PROVE  Needs(h)
  <2>1. pc[Owner[h]] # NoRelease => block'[pc[Owner[h]].from] = block[pc[Owner[h]].from]
    BY <1>0, <1>5, BusySource
  <2> QED BY <1>5, <2>1, NeedsAlike
<1>6. CASE Drop(w)
  BY <1>2, <1>3, <1>6 DEF Drop
<1>7. ASSUME NEW q \in Pointers, Watch(q, w) \/ WeakCopy(q, w) PROVE Needs(h)
  <2>1. /\ Idle(Owner[w]) /\ pc' = pc /\ block' = [block EXCEPT ![w] = block[q]]
    BY <1>7 DEF Watch, WeakCopy, CopyInto
  <2>2. \A x \in Pointers : x # w => block'[x] = block[x]
    BY <2>1 DEF PInv, PTypeOK
  <2>3. \A x \in Handles : x \in Pointers /\ x # w
    BY PointersAssumption DEF Pointers
  <2>4. \A x \in Pointers : pc[Owner[x]] # NoRelease => x # w
    BY <2>1 DEF Idle
  <2> QED BY <1>5, <2>1, <2>2, <2>3, <2>4
<1>8. ASSUME NEW q \in Pointers, AssignCopy(q, w) PROVE Needs(h)
  BY <1>4, <1>8 DEF AssignCopy
<1>9. ASSUME NEW q \in WeakHandles, Move(q, w) PROVE Needs(h)
  <2>1. /\ Idle(Owner[w]) /\ Idle(Owner[q]) /\ pc' = pc
        /\ block' = [block EXCEPT ![w] = block[q], ![q] = Null]
    BY <1>9 DEF Move
  <2>2. \A x \in Pointers : x # w /\ x # q => block'[x] = block[x]
    BY <2>1 DEF PInv, PTypeOK
  <2>3. \A x \in Handles : x \in Pointers /\ x # w /\ x # q
    BY PointersAssumption DEF Pointers
  <2>4. \A x \in Pointers : pc[Owner[x]] # NoRelease => x # w /\ x # q
    BY <2>1 DEF Idle
  <2> QED BY <1>5, <2>1, <2>2, <2>3, <2>4
<1>10. ASSUME NEW q \in WeakHandles, AssignMove(q, w) PROVE Needs(h)
  BY <1>0, <1>4, <1>10 DEF AssignMove
<1> QED BY <1>1, <1>6, <1>7, <1>8, <1>9, <1>10

\* Making, copying and moving: what h gets, it needs.
LEMMA GainNeeds ==
  ASSUME PInv, NEW h \in Handles, Idle(Owner[h]), pc' = pc,
         \A x \in Pointers : x # h => block'[x] = block[x] \/ (block'[x] = Null /\ Idle(Owner[x])),
         NEW x \in Handles, x # h, Needs(x)'
  PROVE  Needs(x)
<1>1. x \in Pointers
  BY DEF Pointers
<1>2. CASE pc[Owner[x]] = NoRelease
  <2>1. block'[x] # Null
    BY <1>2, NeedsIdle
  <2>2. block[x] # Null
    BY <1>1, <2>1
  <2> QED BY <1>2, <2>2, IdleNeeds DEF Idle
<1>3. CASE pc[Owner[x]] # NoRelease
  <2>1. block'[x] = block[x]
    BY <1>1, <1>3 DEF Idle
  <2> DEFINE q == pc[Owner[x]].from
  <2>2. q \in Pointers /\ Owner[q] = Owner[x]
    BY <1>1, <1>3, BusySource
  <2>3. q # h /\ ~Idle(Owner[q])
    BY <1>3, <2>2 DEF Idle
  <2>4. block'[q] = block[q]
    BY <2>2, <2>3
  <2> QED BY <2>1, <2>4, NeedsAlike
<1> QED BY <1>2, <1>3

LEMMA CopyNeeds ==
  ASSUME PInv, NEW g \in Handles, NEW h \in Handles, Copy(g, h)
  PROVE  /\ Needs(g)
         /\ \A x \in Handles : x # h /\ Needs(x)' => Needs(x)
<1>1. /\ Idle(Owner[g]) /\ Idle(Owner[h]) /\ pc' = pc /\ block[g] # Null
      /\ block' = [block EXCEPT ![h] = block[g]]
  BY DEF Copy, CopyInto
<1>2. \A x \in Pointers : x # h => block'[x] = block[x]
  BY <1>1 DEF PInv, PTypeOK
<1> QED BY <1>1, <1>2, GainNeeds, IdleNeeds

LEMMA MakeNeeds ==
  ASSUME PInv, NEW h \in Handles, NEW b \in Blocks, Make(h, b)
  PROVE  \A x \in Handles : x # h /\ Needs(x)' => Needs(x)
<1>1. Idle(Owner[h]) /\ pc' = pc /\ block' = [block EXCEPT ![h] = b]
  BY DEF Make
<1>2. \A x \in Pointers : x # h => block'[x] = block[x]
  BY <1>1 DEF PInv, PTypeOK
<1> QED BY <1>1, <1>2, GainNeeds

LEMMA MoveNeeds ==
  ASSUME PInv, NEW g \in Handles, NEW h \in Handles, Move(g, h)
  PROVE  /\ Needs(g) /\ ~Needs(g)'
         /\ \A x \in Handles : x # h /\ Needs(x)' => Needs(x)
<1>1. /\ Idle(Owner[g]) /\ Idle(Owner[h]) /\ pc' = pc /\ block[g] # Null
      /\ block' = [block EXCEPT ![h] = block[g], ![g] = Null]
  BY DEF Move
<1>2. /\ \A x \in Pointers : x # h => block'[x] = block[x]
                                      \/ (block'[x] = Null /\ Idle(Owner[x]))
      /\ block'[g] = Null
  <2>1. g \in Pointers
    BY DEF Pointers
  <2> QED BY <1>1, <2>1 DEF PInv, PTypeOK
<1>3. ~Needs(g)'
  <2>1. pc'[Owner[g]] = NoRelease
    BY <1>1 DEF Idle
  <2> QED BY <1>2, <2>1, NeedsIdle
<1> QED BY <1>1, <1>2, <1>3, GainNeeds, IdleNeeds

\* Dropping and assigning.
LEMMA DropNeeds ==
  ASSUME PInv, NEW h \in Handles, Drop(h)
  PROVE  /\ ~Needs(h)'
         /\ \A x \in Handles : x # h /\ Needs(x)' => Needs(x)
<1>1. /\ h \in Pointers /\ Idle(Owner[h]) /\ block' = block
      /\ pc' = [pc EXCEPT ![Owner[h]] =
                  [at |-> "deleter", of |-> h, use |-> "drop", from |-> h]]
  BY DEF Drop, StartRelease, Pointers
<1> QED BY <1>1, StartNeeds

LEMMA AssignNeeds ==
  ASSUME PInv, NEW g \in Handles, NEW h \in Handles, NEW use \in {"copy", "move"},
         Assign(g, h, use)
  PROVE  /\ g # h
         /\ \A x \in Handles : x # h /\ Needs(x)' => Needs(x)
         /\ Needs(h)' => Needs(g)
         /\ use = "move" => ~Needs(g)'
<1>1. g \in Pointers /\ h \in Pointers /\ Owner[g] = Owner[h] /\ g # h
  BY DEF Assign, Pointers
<1>2. PICK at \in {"deleter", "take"} :
        /\ Idle(Owner[h]) /\ block' = block
        /\ pc' = [pc EXCEPT ![Owner[h]] = [at |-> at, of |-> h, use |-> use, from |-> g]]
  BY DEF Assign, StartRelease
<1>3. \A x \in Handles : Needs(x)' =>
        /\ x # h => Needs(x)
        /\ x = h => block[g] # Null
        /\ x = g => use # "move" \/ x = h
  BY <1>1, <1>2, StartNeeds
<1>4. Needs(h)' => Needs(g)
  <2>1. Needs(h)' => block[g] # Null
    BY <1>3
  <2> QED BY <1>1, <1>2, <2>1, IdleNeeds
<1> QED BY <1>1, <1>3, <1>4

\* *this = copy().
LEMMA ReplaceNeeds ==
  ASSUME PInv, NEW h \in Handles, NEW temp \in Handles, NEW b \in Blocks,
         Replace(h, temp, b)
  PROVE  /\ Needs(h)
         /\ \A x \in Handles : x # h /\ Needs(x)' => Needs(x)
<1> DEFINE r == [at |-> "deleter", of |-> h, use |-> "move", from |-> temp]
           t == Owner[h]
<1>1. /\ Owner[temp] = t /\ Idle(t) /\ block[h] # Null
      /\ block' = [block EXCEPT ![temp] = b] /\ pc' = [pc EXCEPT ![t] = r]
  BY DEF Replace
<1>2. /\ r # NoRelease /\ r.of = h /\ r.use = "move" /\ r.from = temp /\ t \in Threads
      /\ h \in Pointers /\ temp \in Pointers
  BY PointersAssumption DEF NoRelease, Pointers
<1> HIDE DEF r
<1>3. /\ \A s \in Threads : pc'[s] = IF s = t THEN r ELSE pc[s]
      /\ \A x \in Pointers : x # temp => block'[x] = block[x]
  BY <1>1, <1>2 DEF PInv, PTypeOK
<1>4. ASSUME NEW x \in Handles, x # h, Needs(x)' PROVE Needs(x)
  <2>0. x \in Pointers /\ Owner[x] \in Threads
    BY PointersAssumption DEF Pointers
  <2>1. CASE Owner[x] # t
    <3>1. {t} \in SUBSET Threads /\ Owner[x] \notin {t} /\ \A s \in Threads \ {t} : pc'[s] = pc[s]
      BY <1>2, <1>3, <2>1
    <3>2. \A y \in Pointers : Owner[y] \notin {t} => block'[y] = block[y]
      BY <1>1, <1>3
    <3> QED BY <1>4, <3>1, <3>2, NeedsOfOthers
  <2>2. CASE Owner[x] = t
    <3>1. pc'[Owner[x]] = r
      BY <1>2, <1>3, <2>2
    <3>2. ~Awaits(x)' /\ (Moving(x)' <=> x = temp)
      BY <1>2, <1>4, <3>1 DEF Awaits, Moving
    <3>3. x # temp /\ block'[x] # Null
      BY <1>4, <3>2 DEF Needs
    <3>4. block[x] # Null
      BY <1>3, <2>0, <3>3
    <3> QED BY <1>1, <2>2, <3>4, IdleNeeds
  <2> QED BY <2>1, <2>2
<1> QED BY <1>1, <1>4, IdleNeeds

-----------------------------------------------------------------------------
(* The views the tensors have.                                             *)

\* What view[h] and meant[h] may be: none, or a view that is well made and the
\* places where its elements are.
Viewed(v, m) == v = NoView \/ (ViewOK(v) /\ m = PlacesOf(v))

\* The inductive invariant: a pointer that needs a view has one, every view is well
\* made, and what is meant is where its elements are, repetitions and all.
VInv ==
  /\ view = [h \in Handles |-> view[h]]
  /\ meant = [h \in Handles |-> meant[h]]
  /\ \A h \in Handles : Viewed(view[h], meant[h])
  /\ \A h \in Handles : Needs(h) => view[h] # NoView

LEMMA NoViewIsNone == ASSUME NEW v, ViewOK(v) PROVE v # NoView
<1>1. v.shape # <<>>
  BY DEF ViewOK
<1> QED BY <1>1 DEF NoView

\* A pointer that needs a view has one that is well made.
LEMMA NeededView ==
  ASSUME VInv, NEW h \in Handles, view[h] # NoView
  PROVE  ViewOK(view[h]) /\ meant[h] = PlacesOf(view[h])
  BY DEF VInv, Viewed

LEMMA InitViews == ASSUME Init PROVE VInv
<1>1. \A h \in Handles : view[h] = NoView
  BY DEF Init
<1>2. \A h \in Handles : ~Needs(h)
  <2> SUFFICES ASSUME NEW h \in Handles PROVE ~Needs(h)
    OBVIOUS
  <2>1. h \in Pointers /\ Owner[h] \in Threads
    BY PointersAssumption DEF Pointers
  <2>2. block[h] = Null /\ pc[Owner[h]] = NoRelease
    BY <2>1 DEF Init, PInit
  <2> QED BY <2>2 DEF Needs, Awaits
<1>3. view = [h \in Handles |-> view[h]] /\ meant = [h \in Handles |-> meant[h]]
  BY DEF Init
<1> QED BY <1>1, <1>2, <1>3 DEF VInv, Viewed

\* One view is given.
LEMMA GiveViews ==
  ASSUME VInv, NEW h \in Handles, NEW v, NEW m, Viewed(v, m),
         view' = [view EXCEPT ![h] = v], meant' = [meant EXCEPT ![h] = m],
         \A x \in Handles : x # h /\ Needs(x)' => Needs(x),
         v = NoView => ~Needs(h)'
  PROVE  VInv'
<1>1. /\ view = [x \in Handles |-> view[x]] /\ meant = [x \in Handles |-> meant[x]]
      /\ \A x \in Handles : Viewed(view[x], meant[x])
      /\ \A x \in Handles : Needs(x) => view[x] # NoView
  BY DEF VInv
<1>2. /\ \A x \in Handles : view'[x] = IF x = h THEN v ELSE view[x]
      /\ \A x \in Handles : meant'[x] = IF x = h THEN m ELSE meant[x]
  BY <1>1
<1>3. view' = [x \in Handles |-> view'[x]] /\ meant' = [x \in Handles |-> meant'[x]]
  BY <1>1
<1>4. \A x \in Handles : Viewed(view'[x], meant'[x])
  BY <1>1, <1>2
<1>5. \A x \in Handles : Needs(x)' => view'[x] # NoView
  BY <1>1, <1>2
<1>6. \A x \in Handles : Viewed(view[x], meant[x])'
  BY <1>4 DEF Viewed
<1> QED BY <1>3, <1>5, <1>6 DEF VInv

\* A view passes from g to h.
LEMMA PassViews ==
  ASSUME VInv, NEW g \in Handles, NEW h \in Handles, Pass(g, h),
         view[g] # NoView \/ ~Needs(h)',
         \A x \in Handles : x # h /\ Needs(x)' => Needs(x),
         ~Needs(g)'
  PROVE  VInv'
<1>1. /\ view = [x \in Handles |-> view[x]] /\ meant = [x \in Handles |-> meant[x]]
      /\ \A x \in Handles : Viewed(view[x], meant[x])
      /\ \A x \in Handles : Needs(x) => view[x] # NoView
  BY DEF VInv
<1>2. /\ view' = [view EXCEPT ![h] = view[g], ![g] = NoView]
      /\ meant' = [meant EXCEPT ![h] = meant[g], ![g] = <<>>]
  BY DEF Pass
<1>3. /\ \A x \in Handles :
           view'[x] = IF x = g THEN NoView ELSE IF x = h THEN view[g] ELSE view[x]
      /\ \A x \in Handles :
           meant'[x] = IF x = g THEN <<>> ELSE IF x = h THEN meant[g] ELSE meant[x]
  BY <1>1, <1>2
<1>4. view' = [x \in Handles |-> view'[x]] /\ meant' = [x \in Handles |-> meant'[x]]
  BY <1>1, <1>2
<1>5. \A x \in Handles : Viewed(view'[x], meant'[x])
  <2> SUFFICES ASSUME NEW x \in Handles PROVE Viewed(view'[x], meant'[x])
    OBVIOUS
  <2>1. CASE x = g
    BY <1>3, <2>1 DEF Viewed
  <2>2. CASE x # g
    BY <1>1, <1>3, <2>2
  <2> QED BY <2>1, <2>2
<1>6. \A x \in Handles : Needs(x)' => view'[x] # NoView
  BY <1>1, <1>3
<1>7. \A x \in Handles : Viewed(view[x], meant[x])'
  BY <1>5 DEF Viewed
<1> QED BY <1>4, <1>6, <1>7 DEF VInv

\* No view changes.
LEMMA KeepViews ==
  ASSUME VInv, UNCHANGED <<view, meant>>, \A x \in Handles : Needs(x)' => Needs(x)
  PROVE  VInv'
<1>1. view' = view /\ meant' = meant
  OBVIOUS
<1>2. /\ view = [x \in Handles |-> view[x]] /\ meant = [x \in Handles |-> meant[x]]
      /\ \A x \in Handles : Viewed(view[x], meant[x])
      /\ \A x \in Handles : Needs(x) => view[x] # NoView
  BY DEF VInv
<1>3. \A x \in Handles : Viewed(view[x], meant[x])'
  BY <1>1, <1>2 DEF Viewed
<1>4. view' = [x \in Handles |-> view'[x]] /\ meant' = [x \in Handles |-> meant'[x]]
  BY <1>1, <1>2
<1>5. \A x \in Handles : Needs(x)' => view'[x] # NoView
  BY <1>1, <1>2
<1> QED BY <1>3, <1>4, <1>5 DEF VInv

LEMMA ShapesOK ==
  /\ \A s \in Shapes \cup Broadcasts \cup Reshapes : s \in Seq(Nat \ {0}) /\ s # <<>>
  /\ MaxElements \in Nat
  BY TensorsAssumption

-----------------------------------------------------------------------------
(* What the operations do to the views.                                    *)

LEMMA DropViews ==
  ASSUME PInv, VInv, NEW h \in Handles, DropTensor(h)
  PROVE  VInv'
<1>1. /\ Drop(h) /\ view' = [view EXCEPT ![h] = NoView]
      /\ meant' = [meant EXCEPT ![h] = <<>>]
  BY DEF DropTensor, Give
<1>2. ~Needs(h)' /\ \A x \in Handles : x # h /\ Needs(x)' => Needs(x)
  BY <1>1, DropNeeds
<1>3. Viewed(NoView, <<>>)
  BY DEF Viewed
<1> QED BY <1>1, <1>2, <1>3, GiveViews

LEMMA NewViews ==
  ASSUME PInv, VInv, NEW h \in Handles, NEW b \in Blocks, NEW shape \in Shapes,
         NewTensor(h, b, shape)
  PROVE  VInv'
<1> DEFINE v == Contiguous(shape)
           m == Identity(NumElements(shape))
<1>1. Make(h, b) /\ view' = [view EXCEPT ![h] = v] /\ meant' = [meant EXCEPT ![h] = m]
  BY DEF NewTensor, Give
<1>2. \A x \in Handles : x # h /\ Needs(x)' => Needs(x)
  BY <1>1, MakeNeeds
<1>3. shape \in Seq(Nat \ {0}) /\ shape # <<>>
  BY ShapesOK
<1>4. ViewOK(v) /\ PlacesOf(v) = m
  BY <1>3, ContiguousOK
<1> HIDE DEF v, m
<1>5. Viewed(v, m) /\ v # NoView
  BY <1>4, NoViewIsNone DEF Viewed
<1> QED BY <1>1, <1>2, <1>5, GiveViews

LEMMA CopyViews ==
  ASSUME PInv, VInv, NEW g \in Handles, NEW h \in Handles,
         CopyTensor(g, h) \/ AssignTensor(g, h)
  PROVE  VInv'
<1>1. view' = [view EXCEPT ![h] = view[g]] /\ meant' = [meant EXCEPT ![h] = meant[g]]
  BY DEF CopyTensor, AssignTensor, Give
<1>2. /\ \A x \in Handles : x # h /\ Needs(x)' => Needs(x)
      /\ Needs(h)' => Needs(g)
  <2>1. CASE CopyTensor(g, h)
    <3>1. Copy(g, h)
      BY <2>1 DEF CopyTensor
    <3> QED BY <3>1, CopyNeeds
  <2>2. CASE AssignTensor(g, h)
    <3>1. Assign(g, h, "copy")
      BY <2>2 DEF AssignTensor, AssignCopy
    <3> QED BY <3>1, AssignNeeds
  <2> QED BY <2>1, <2>2
<1>3. Viewed(view[g], meant[g]) /\ (view[g] = NoView => ~Needs(h)')
  BY <1>2 DEF VInv
<1> QED BY <1>1, <1>2, <1>3, GiveViews

LEMMA MoveViews ==
  ASSUME PInv, VInv, NEW g \in Handles, NEW h \in Handles,
         MoveTensor(g, h) \/ AssignMoved(g, h)
  PROVE  VInv'
<1>1. Pass(g, h)
  BY DEF MoveTensor, AssignMoved
<1>2. /\ \A x \in Handles : x # h /\ Needs(x)' => Needs(x)
      /\ Needs(h)' => Needs(g)
      /\ ~Needs(g)'
  <2>1. CASE MoveTensor(g, h)
    <3>1. Move(g, h)
      BY <2>1 DEF MoveTensor
    <3> QED BY <3>1, MoveNeeds
  <2>2. CASE AssignMoved(g, h)
    <3>1. Assign(g, h, "move")
      BY <2>2 DEF AssignMoved, AssignMove
    <3> QED BY <3>1, AssignNeeds
  <2> QED BY <2>1, <2>2
<1>3. view[g] # NoView \/ ~Needs(h)'
  BY <1>2 DEF VInv
<1> QED BY <1>1, <1>2, <1>3, PassViews

LEMMA BroadcastViews ==
  ASSUME PInv, VInv, NEW g \in Handles, NEW h \in Handles, NEW new \in Broadcasts,
         BroadcastTensor(g, h, new)
  PROVE  VInv'
<1> DEFINE v == BroadcastView(view[g], new)
           m == BroadcastMeant(view[g], meant[g], new)
<1>1. /\ Copy(g, h) /\ IsBroadcastable(view[g].shape, new)
      /\ view' = [view EXCEPT ![h] = v] /\ meant' = [meant EXCEPT ![h] = m]
  BY DEF BroadcastTensor, Derive
<1>2. Needs(g) /\ \A x \in Handles : x # h /\ Needs(x)' => Needs(x)
  BY <1>1, CopyNeeds
<1>3. ViewOK(view[g]) /\ meant[g] = PlacesOf(view[g])
  <2>1. view[g] # NoView
    BY <1>2 DEF VInv
  <2> QED BY <2>1, NeededView
<1>4. new \in Seq(Nat \ {0}) /\ new # <<>>
  BY ShapesOK
<1>5. ViewOK(v) /\ PlacesOf(v) = m
  <2>1. /\ ViewOK(v)
        /\ PlacesOf(v) = BroadcastMeant(view[g], PlacesOf(view[g]), new)
    BY <1>1, <1>3, <1>4, BroadcastOK
  <2> QED BY <1>3, <2>1
<1> HIDE DEF v, m
<1>6. Viewed(v, m) /\ v # NoView
  BY <1>5, NoViewIsNone DEF Viewed
<1> QED BY <1>1, <1>2, <1>6, GiveViews

LEMMA RowViews ==
  ASSUME PInv, VInv, NEW g \in Handles, NEW h \in Handles,
         NEW k \in 0..(MaxElements - 1), TakeRow(g, h, k)
  PROVE  VInv'
<1> DEFINE p == NumElements(Tail(view[g].shape))
           v == Row(view[g], StepRow(view[g], k))
           m == SubSeq(meant[g], k * p + 1, (k + 1) * p)
<1>1. /\ Copy(g, h) /\ Len(view[g].shape) > 1 /\ k < Real(view[g])[1]
      /\ view' = [view EXCEPT ![h] = v] /\ meant' = [meant EXCEPT ![h] = m]
  BY DEF TakeRow, Derive
<1>2. Needs(g) /\ \A x \in Handles : x # h /\ Needs(x)' => Needs(x)
  BY <1>1, CopyNeeds
<1>3. ViewOK(view[g]) /\ meant[g] = PlacesOf(view[g])
  <2>1. view[g] # NoView
    BY <1>2 DEF VInv
  <2> QED BY <2>1, NeededView
<1>4. k \in Nat
  BY ShapesOK
<1>5. ViewOK(v) /\ PlacesOf(v) = m
  <2> SUFFICES ASSUME NEW n, n = p
               PROVE  /\ ViewOK(v)
                      /\ PlacesOf(v) = SubSeq(meant[g], k * n + 1, (k + 1) * n)
    OBVIOUS
  <2>1. /\ ViewOK(v)
        /\ PlacesOf(v) = SubSeq(PlacesOf(view[g]), k * n + 1, (k + 1) * n)
    BY <1>1, <1>3, <1>4, RowOK
  <2> QED BY <1>3, <2>1
<1> HIDE DEF v, m
<1>6. Viewed(v, m) /\ v # NoView
  BY <1>5, NoViewIsNone DEF Viewed
<1> QED BY <1>1, <1>2, <1>6, GiveViews

\* The shapes a tensor may be reshaped to.
LEMMA NewShapesOK ==
  ASSUME NEW h \in Handles, ViewOK(view[h]), NEW new \in NewShapes(h) \cup {view[h].shape}
  PROVE  new \in Seq(Nat \ {0}) /\ new # <<>>
<1>1. view[h].shape \in Seq(Nat \ {0}) /\ view[h].shape # <<>>
  BY DEF ViewOK
<1>2. \A d \in 0..(Len(view[h].shape) - 1) :
        /\ FlatShape(view[h].shape, d) \in Seq(Nat \ {0})
        /\ FlatShape(view[h].shape, d) # <<>>
  BY <1>1, FlatShapeOK
<1>3. \A s \in Reshapes : s \in Seq(Nat \ {0}) /\ s # <<>>
  BY ShapesOK
<1> QED BY <1>1, <1>2, <1>3 DEF NewShapes

LEMMA ReshapeViews ==
  ASSUME PInv, VInv, NEW h \in Handles, NEW new \in NewShapes(h), ReshapeTensor(h, new)
  PROVE  VInv'
<1> DEFINE v == ReshapeView(view[h], new)
<1>1. /\ block[h] # Null /\ Idle(Owner[h])
      /\ NumElements(new) = NumElements(view[h].shape) /\ ~IsBroadcasted(view[h])
      /\ view' = [view EXCEPT ![h] = v] /\ meant' = [meant EXCEPT ![h] = meant[h]]
      /\ UNCHANGED pvars
  BY DEF ReshapeTensor, Derive
<1>2. \A x \in Handles : Needs(x)' => Needs(x)
  BY <1>1 DEF Needs, Moving, Awaits, pvars
<1>3. ViewOK(view[h]) /\ meant[h] = PlacesOf(view[h])
  <2>1. Needs(h)
    BY <1>1, IdleNeeds
  <2>2. view[h] # NoView
    BY <2>1 DEF VInv
  <2> QED BY <2>2, NeededView
<1>4. new \in Seq(Nat \ {0}) /\ new # <<>>
  BY <1>3, NewShapesOK
<1>5. ViewOK(v) /\ PlacesOf(v) = PlacesOf(view[h])
  BY <1>1, <1>3, <1>4, ReshapeOK
<1> HIDE DEF v
<1>6. Viewed(v, meant[h]) /\ v # NoView
  BY <1>3, <1>5, NoViewIsNone DEF Viewed
<1> QED BY <1>1, <1>2, <1>6, GiveViews

LEMMA DetachViews ==
  ASSUME PInv, VInv, NEW h \in Handles, NEW temp \in Handles, NEW b \in Blocks,
         NEW new \in NewShapes(h) \cup {view[h].shape}, DetachTensor(h, temp, b, new)
  PROVE  VInv'
<1> DEFINE s == view[h].shape
           c == Contiguous(s)
           v == ReshapeView(c, new)
           m == Identity(NumElements(new))
<1>1. /\ Replace(h, temp, b) /\ NumElements(new) = NumElements(s)
      /\ view' = [view EXCEPT ![h] = v] /\ meant' = [meant EXCEPT ![h] = m]
  BY DEF DetachTensor, Derive
<1>2. Needs(h) /\ \A x \in Handles : x # h /\ Needs(x)' => Needs(x)
  BY <1>1, ReplaceNeeds
<1>3. ViewOK(view[h])
  <2>1. view[h] # NoView
    BY <1>2 DEF VInv
  <2> QED BY <2>1, NeededView
<1>4. s \in Seq(Nat \ {0}) /\ s # <<>>
  BY <1>3 DEF ViewOK
<1>5. new \in Seq(Nat \ {0}) /\ new # <<>>
  BY <1>3, NewShapesOK
<1>6. /\ ViewOK(c) /\ ~IsBroadcasted(c) /\ PlacesOf(c) = Identity(NumElements(s))
      /\ c.shape = s
  <2>1. c.shape = s
    BY DEF Contiguous
  <2> QED BY <1>4, <2>1, ContiguousOK
<1>7. ViewOK(v) /\ PlacesOf(v) = m
  <2> HIDE DEF c
  <2>1. ViewOK(v) /\ PlacesOf(v) = PlacesOf(c)
    BY <1>1, <1>5, <1>6, ReshapeOK
  <2> QED BY <1>1, <1>6, <2>1
<1> HIDE DEF v, m
<1>8. Viewed(v, m) /\ v # NoView
  BY <1>7, NoViewIsNone DEF Viewed
<1> QED BY <1>1, <1>2, <1>8, GiveViews

LEMMA NextViews ==
  ASSUME PInv, VInv, [Next]_vars
  PROVE  VInv'
<1>1. CASE UNCHANGED vars
  <2>1. \A x \in Handles : Needs(x)' => Needs(x)
    BY <1>1 DEF Needs, Moving, Awaits, vars, pvars
  <2>2. UNCHANGED <<view, meant>>
    BY <1>1 DEF vars
  <2> QED BY <2>1, <2>2, KeepViews
<1>2. ASSUME NEW t \in Threads, Continue(t), UNCHANGED <<view, meant, derived>>
      PROVE  VInv'
  <2>1. \A x \in Handles : Needs(x)' => Needs(x)
    BY <1>2, ContinueNeeds
  <2> QED BY <1>2, <2>1, KeepViews
<1>3. ASSUME WeakNext, UNCHANGED <<view, meant, derived>>
      PROVE  VInv'
  <2>1. \A x \in Handles : Needs(x)' => Needs(x)
    BY <1>3, WeakNeeds
  <2> QED BY <1>3, <2>1, KeepViews
<1>4. ASSUME NEW h \in Handles, NEW g \in Handles,
             \/ CopyTensor(g, h) \/ MoveTensor(g, h)
             \/ AssignTensor(g, h) \/ AssignMoved(g, h)
             \/ \E new \in Broadcasts : BroadcastTensor(g, h, new)
             \/ \E k \in 0..(MaxElements - 1) : TakeRow(g, h, k)
      PROVE  VInv'
  BY <1>4, CopyViews, MoveViews, BroadcastViews, RowViews
<1>5. ASSUME NEW h \in Handles, DropTensor(h) PROVE VInv'
  BY <1>5, DropViews
<1>6. ASSUME NEW h \in Handles, NEW b \in Blocks, NEW shape \in Shapes, NewTensor(h, b, shape)
      PROVE  VInv'
  BY <1>6, NewViews
<1>7. ASSUME NEW h \in Handles, NEW new \in NewShapes(h), ReshapeTensor(h, new)
      PROVE  VInv'
  BY <1>7, ReshapeViews
<1>8. ASSUME NEW h \in Handles, NEW temp \in Handles, NEW b \in Blocks,
             NEW new \in NewShapes(h) \cup {view[h].shape}, DetachTensor(h, temp, b, new)
      PROVE  VInv'
  BY <1>8, DetachViews
<1> QED BY <1>1, <1>2, <1>3, <1>4, <1>5, <1>6, <1>7, <1>8 DEF Next

\* The views always are well made, and mean what their tensors mean.
THEOREM ViewsInvariant == Spec => []VInv
<1>1. Init => VInv
  BY InitViews
<1>2. PInv /\ VInv /\ [Next]_vars => VInv'
  BY NextViews
<1>3. Spec => []PInv
  BY TensorsUsePointers, PointersInvariant, PTL
<1> QED BY <1>1, <1>2, <1>3, PTL DEF Spec

-----------------------------------------------------------------------------
(* What the program reads and writes through the views.                    *)

\* An index of a view, and where its element is meant to be.
LEMMA MeantPlace ==
  ASSUME VInv, NEW h \in Views, NEW n, n = Len(view[h].shape), NEW x, IsIndex(x, view[h].shape, n)
  PROVE  MeantAt(h, x) = PlaceAt(view[h], x)
<1>1. ViewOK(view[h]) /\ meant[h] = PlacesOf(view[h])
  BY NeededView DEF Views
<1> QED BY <1>1, PlaceOfIndex DEF MeantAt

LEMMA IndexOfView ==
  ASSUME NEW v, ViewOK(v), NEW n, n = Len(v.shape), NEW x \in Indices(v)
  PROVE  IsIndex(x, v.shape, n) /\ DOMAIN x = 1..n /\ Len(x) = n
<1>1. IsDims(v.shape, n)
  BY ViewDims
<1>2. PICK i \in 0..(NumElements(v.shape) - 1) : x = IndexOf(v.shape, i)
  BY DEF Indices
<1> QED BY <1>1, <1>2, NumberOfIndex

\* Walking, copying and flattening visit each element where it is meant, unless a
\* dimension before the last repeats two rows or more.
THEOREM WalksFollowMeaning == Spec => []WalksMeant
<1>1. VInv => WalksMeant
  <2> SUFFICES ASSUME VInv, NEW h \in Views
               PROVE  WalkOrder(view[h]) = meant[h] <=>
                        \A d \in 1..(Len(view[h].shape) - 1) :
                          view[h].degree[d] = 1 \/ Real(view[h])[d] = 1
    BY DEF WalksMeant
  <2>1. ViewOK(view[h]) /\ meant[h] = PlacesOf(view[h])
    BY NeededView DEF Views
  <2> QED BY <2>1, WalksFollow
<1> QED BY <1>1, ViewsInvariant, PTL

\* at() of one dimension finds every element; the ones by index and by row and
\* column find exactly those before the repetitions begin.
THEOREM ReadsFollowMeaning == Spec => []ReadsMeant
<1>1. VInv => ReadsMeant
  <2> SUFFICES ASSUME VInv, NEW h \in Views, NEW x \in Indices(view[h])
               PROVE  /\ AtIndex(view[h], x) = MeantAt(h, x)
                           <=> \A d \in DOMAIN x : x[d] < Real(view[h])[d]
                      /\ Len(x) = 1 => At1(view[h], x[1]) = MeantAt(h, x)
                      /\ Len(x) = 2 => At2(view[h], x[1], x[2]) = AtIndex(view[h], x)
    BY DEF ReadsMeant
  <2> DEFINE n == Len(view[h].shape)
  <2>1. ViewOK(view[h])
    BY NeededView DEF Views
  <2>2. IsIndex(x, view[h].shape, n) /\ DOMAIN x = 1..n /\ Len(x) = n
    BY <2>1, IndexOfView
  <2>3. MeantAt(h, x) = PlaceAt(view[h], x)
    BY <2>2, MeantPlace
  <2> QED BY <2>1, <2>2, <2>3, ReadsFollow
<1> QED BY <1>1, ViewsInvariant, PTL

\* An iterator that jumps reaches the row that is meant; one that steps there only
\* before the repetitions begin, or where the first row repeats.
THEOREM RowsFollowMeaning == Spec => []RowsMeant
<1>1. VInv => RowsMeant
  <2> SUFFICES ASSUME VInv, NEW h \in Views, NEW k \in 0..(view[h].shape[1] - 1),
                      NEW x, x = [d \in DOMAIN view[h].shape |-> IF d = 1 THEN k ELSE 0]
               PROVE  /\ view[h].start + JumpRow(view[h], k) = MeantAt(h, x)
                      /\ view[h].start + StepRow(view[h], k) = MeantAt(h, x)
                           <=> k < Real(view[h])[1] \/ k % Real(view[h])[1] = 0
    BY DEF RowsMeant
  <2> DEFINE n == Len(view[h].shape)
  <2>1. ViewOK(view[h])
    BY NeededView DEF Views
  <2>2. IsDims(view[h].shape, n)
    BY <2>1, ViewDims
  <2>3. \A d \in 1..n : x[d] = IF d = 1 THEN k ELSE 0
    BY <2>2 DEF IsDims
  <2>4. IsIndex(x, view[h].shape, n)
    BY <2>2, <2>3 DEF IsDims, IsIndex
  <2>5. MeantAt(h, x) = PlaceAt(view[h], x)
    BY <2>4, MeantPlace
  <2> QED BY <2>1, <2>3, <2>5, RowsFollow
<1> QED BY <1>1, ViewsInvariant, PTL

\* set(i, value) writes element i of a tensor that is not broadcasted; set(dim,
\* value), of two dimensions or more, the element that is meant only at the origin.
THEOREM SetsFollowMeaning == Spec => []SetsMeant
<1>1. VInv => SetsMeant
  <2> SUFFICES ASSUME VInv, NEW h \in Views, ~IsBroadcasted(view[h])
               PROVE  /\ \A i \in 0..(NumElements(view[h].shape) - 1) :
                           SetFlat(view[h], i) = meant[h][i + 1]
                      /\ \A x \in Indices(view[h]) :
                           SetIndex(view[h], x) = MeantAt(h, x) <=>
                             Len(x) = 1 \/ \A d \in DOMAIN x : x[d] = 0
    BY DEF SetsMeant
  <2> DEFINE n == Len(view[h].shape)
  <2>1. ViewOK(view[h]) /\ meant[h] = PlacesOf(view[h])
    BY NeededView DEF Views
  <2>2. \A i \in 0..(NumElements(view[h].shape) - 1) :
          SetFlat(view[h], i) = PlacesOf(view[h])[i + 1]
    BY <2>1, SetFlatFollows
  <2>3. ASSUME NEW x \in Indices(view[h])
        PROVE  SetIndex(view[h], x) = MeantAt(h, x) <=>
                 Len(x) = 1 \/ \A d \in DOMAIN x : x[d] = 0
    <3>1. IsIndex(x, view[h].shape, n) /\ DOMAIN x = 1..n /\ Len(x) = n
      BY <2>1, IndexOfView
    <3>2. MeantAt(h, x) = PlaceAt(view[h], x)
      BY <3>1, MeantPlace
    <3>3. SetIndex(view[h], x) = PlaceAt(view[h], x) <=> n = 1 \/ \A d \in 1..n : x[d] = 0
      <4>1. n = Len(view[h].shape)
        OBVIOUS
      <4>2. ViewOK(view[h]) /\ ~IsBroadcasted(view[h])
        BY <2>1
      <4> HIDE DEF n
      <4> QED BY <3>1, <4>1, <4>2, SetIndexFollows
    <3> QED BY <3>1, <3>2, <3>3
  <2> QED BY <2>1, <2>2, <2>3
<1> QED BY <1>1, ViewsInvariant, PTL
=============================================================================

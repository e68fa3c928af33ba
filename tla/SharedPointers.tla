--------------------------- MODULE SharedPointers ---------------------------
(***************************************************************************)
(* SharedPtr and WeakPtr (include/common/pointers.hpp), used by several    *)
(* threads.                                                                *)
(*                                                                         *)
(* A control block counts the pointers to its object.  Its mutex makes one *)
(* critical section of each of increment, decrement and call_deleter, but  *)
(* a release is two of them: reset() first decrements and then calls the   *)
(* deleter, and other threads may run in between.                          *)
(*                                                                         *)
(* A pointer belongs to one thread, which alone changes it; a thread may   *)
(* be given a pointer by the thread that starts it.  A block that is freed *)
(* is not allocated again.  What call_deleter does to a freed block is     *)
(* undefined: the memory may still hold the zero counts, and the object is *)
(* destroyed once more, or something else, and it is not.  That the lock   *)
(* guard of call_deleter unlocks the mutex of a block that has just        *)
(* deleted itself is undefined as well; it is taken to have no effect.     *)
(* reset() on its own leaves control_block behind, and lock() does not     *)
(* compile; nothing in the program calls them, and they are left out.      *)
(***************************************************************************)
EXTENDS Naturals, FiniteSets

CONSTANTS
  Threads,
  Handles,      \* the SharedPtr objects
  WeakHandles,  \* the WeakPtr objects
  Owner,        \* Owner[p]: the thread pointer p belongs to
  Blocks,       \* bound: the control blocks there is memory for
  Null

Pointers == Handles \cup WeakHandles

ASSUME PointersAssumption ==
  /\ IsFiniteSet(Handles)
  /\ IsFiniteSet(WeakHandles)
  /\ Handles \cap WeakHandles = {}
  /\ Owner \in [Pointers -> Threads]
  /\ Null \notin Blocks

VARIABLES
  block,      \* block[p]: control_block, with the object of ptr
  count,      \* count[b]: count_m
  weak,       \* weak[b]: weak_count_m
  state,      \* state[b]: "fresh" before it is allocated, "live", "freed"
  destroyed,  \* destroyed[b]: how often its object was destroyed, at most 2
  pc,         \* pc[t]: the release thread t is in
  overlapped  \* history: the blocks whose last SharedPtr was released while
              \* another release was going on or a WeakPtr pointed there

pvars == <<block, count, weak, state, destroyed, pc, overlapped>>

\* How a release goes on: "deleter" has decremented, "take" is an assignment
\* that has let go of its old object.
NoRelease == [at |-> "idle"]
Release == [at : {"deleter", "take"}, of : Pointers,
            use : {"drop", "copy", "move"}, from : Pointers]

Idle(t) == pc[t] = NoRelease

\* Pointer p has been decremented and its deleter is still to be called.
Releasing(p) ==
  /\ pc[Owner[p]] # NoRelease
  /\ pc[Owner[p]].at = "deleter"
  /\ pc[Owner[p]].of = p

\* The pointers of P that count for block b, and those about to call its deleter.
Counting(P, b) == {p \in P : block[p] = b /\ ~Releasing(p)}
Pending(b) == {p \in Pointers : block[p] = b /\ Releasing(p)}

-----------------------------------------------------------------------------
PInit ==
  /\ block = [p \in Pointers |-> Null]
  /\ count = [b \in Blocks |-> 0]
  /\ weak = [b \in Blocks |-> 0]
  /\ state = [b \in Blocks |-> "fresh"]
  /\ destroyed = [b \in Blocks |-> 0]
  /\ pc = [t \in Threads |-> NoRelease]
  /\ overlapped = {}

\* Mutant: the copy of a WeakPtr counts as a SharedPtr.
CountsStrongly(p, b) == count' = [count EXCEPT ![b] = @ + 1] /\ UNCHANGED weak

\* Mutant: a copy does not count.
Uncounted(p, b) == UNCHANGED <<count, weak>>

\* increment, increment_weak and the decrements, each under the block's mutex.
Increment(p, b) ==
  IF p \in Handles THEN /\ count' = [count EXCEPT ![b] = @ + 1]
                        /\ UNCHANGED weak
                   ELSE /\ weak' = [weak EXCEPT ![b] = @ + 1]
                        /\ UNCHANGED count

Decrement(p, b) ==
  IF p \in Handles THEN /\ count' = [count EXCEPT ![b] = @ - 1]
                        /\ UNCHANGED weak
                   ELSE /\ weak' = [weak EXCEPT ![b] = @ - 1]
                        /\ UNCHANGED count

\* SharedPtr(pointer), make_shared: h is the first pointer to a new object.
Make(h, b) ==
  /\ Idle(Owner[h]) /\ block[h] = Null /\ state[b] = "fresh"
  /\ block' = [block EXCEPT ![h] = b]
  /\ count' = [count EXCEPT ![b] = 1]
  /\ state' = [state EXCEPT ![b] = "live"]
  /\ UNCHANGED <<weak, destroyed, pc, overlapped>>

\* What p may be made from: SharedPtr from SharedPtr, WeakPtr from either.
Source(q, p) == p \in WeakHandles \/ q \in Handles

\* The copy constructors, and WeakPtr(const SharedPtr &).  The thread of q runs
\* them; p may be of a thread it starts.
CopyInto(q, p) ==
  /\ Idle(Owner[q]) /\ Idle(Owner[p])
  /\ block[q] # Null /\ block[p] = Null
  /\ block' = [block EXCEPT ![p] = block[q]]
  /\ Increment(p, block[q])
  /\ UNCHANGED <<state, destroyed, pc, overlapped>>

Copy(q, p) == p \in Handles /\ q \in Handles /\ CopyInto(q, p)
Watch(q, p) == p \in WeakHandles /\ q \in Handles /\ CopyInto(q, p)
WeakCopy(q, p) == p \in WeakHandles /\ q \in WeakHandles /\ CopyInto(q, p)

\* The move constructors.
Move(q, p) ==
  /\ p \in Handles <=> q \in Handles
  /\ Idle(Owner[q]) /\ Idle(Owner[p])
  /\ block[q] # Null /\ block[p] = Null
  /\ block' = [block EXCEPT ![p] = block[q], ![q] = Null]
  /\ UNCHANGED <<count, weak, state, destroyed, pc, overlapped>>

\* The first half of reset(): the decrement.  What the release is for, and
\* from which pointer an assignment takes, is remembered for what follows.
StartRelease(p, use, q) ==
  LET b == block[p] IN
  /\ Idle(Owner[p]) /\ b # Null
  /\ Decrement(p, b)
  /\ pc' = [pc EXCEPT ![Owner[p]] =
              [at |-> "deleter", of |-> p, use |-> use, from |-> q]]
  /\ overlapped' =
       IF p \in Handles /\ count[b] = 1 /\ (Pending(b) # {} \/ weak[b] > 0)
       THEN overlapped \cup {b} ELSE overlapped
  /\ UNCHANGED <<block, state, destroyed>>

\* The destructors.
Drop(p) == StartRelease(p, "drop", p)

\* operator=: nothing when p and q are the same object; a p that points to
\* nothing takes at once, any other is reset first.
Assign(q, p, use) ==
  /\ Owner[q] = Owner[p] /\ q # p
  /\ IF block[p] = Null
     THEN /\ Idle(Owner[p])
          /\ pc' = [pc EXCEPT ![Owner[p]] =
                      [at |-> "take", of |-> p, use |-> use, from |-> q]]
          /\ UNCHANGED <<block, count, weak, state, destroyed, overlapped>>
     ELSE StartRelease(p, use, q)

AssignCopy(q, p) == Source(q, p) /\ Assign(q, p, "copy")
AssignMove(q, p) == (p \in Handles <=> q \in Handles) /\ Assign(q, p, "move")

\* *this = copy(), h = make_shared(...): a new object is made in a temporary,
\* which nobody else sees, and h moves from it.
Replace(h, temp, b) ==
  LET old == block[h] IN
  /\ Owner[temp] = Owner[h] /\ Idle(Owner[h])
  /\ old # Null /\ block[temp] = Null /\ state[b] = "fresh"
  /\ block' = [block EXCEPT ![temp] = b]
  /\ count' = [count EXCEPT ![b] = 1, ![old] = @ - 1]
  /\ state' = [state EXCEPT ![b] = "live"]
  /\ pc' = [pc EXCEPT ![Owner[h]] =
              [at |-> "deleter", of |-> h, use |-> "move", from |-> temp]]
  /\ overlapped' =
       IF count[old] = 1 /\ (Pending(old) # {} \/ weak[old] > 0)
       THEN overlapped \cup {old} ELSE overlapped
  /\ UNCHANGED <<weak, destroyed>>

\* Mutant: the object is destroyed with its last SharedPtr but one.
DestroysEarly(b) == count[b] <= 1

\* Mutant: the SharedPtrs together hold a weak count of their own.
FreesWithOneWeak(b) == count[b] = 0 /\ weak[b] = 1

Destroys(b) == count[b] = 0
Frees(b) == count[b] = 0 /\ weak[b] = 0

\* call_deleter, the second half of reset(): one critical section.
CallDeleter(t) ==
  LET p == pc[t].of
      b == block[p]
      Again == [destroyed EXCEPT ![b] = IF @ = 0 THEN 1 ELSE 2]
  IN
  /\ pc[t] # NoRelease /\ pc[t].at = "deleter"
  /\ block' = [block EXCEPT ![p] = Null]
  /\ pc' = [pc EXCEPT ![t] =
              IF pc[t].use = "drop" THEN NoRelease ELSE [@ EXCEPT !.at = "take"]]
  /\ \/ /\ state[b] = "live"
        /\ destroyed' = IF Destroys(b) THEN Again ELSE destroyed
        /\ state' = IF Frees(b) THEN [state EXCEPT ![b] = "freed"] ELSE state
     \/ /\ state[b] = "freed"
        /\ destroyed' \in {destroyed, Again}
        /\ UNCHANGED state
  /\ UNCHANGED <<count, weak, overlapped>>

\* The rest of operator=: p takes what the source points to, and increments or,
\* moving, empties the source.
Take(t) ==
  LET p == pc[t].of
      q == pc[t].from
  IN
  /\ pc[t] # NoRelease /\ pc[t].at = "take"
  /\ pc' = [pc EXCEPT ![t] = NoRelease]
  /\ IF pc[t].use = "move"
     THEN /\ block' = [block EXCEPT ![p] = block[q], ![q] = Null]
          /\ UNCHANGED <<count, weak>>
     ELSE /\ block' = [block EXCEPT ![p] = block[q]]
          /\ IF block[q] = Null THEN UNCHANGED <<count, weak>>
                                ELSE Increment(p, block[q])
  /\ UNCHANGED <<state, destroyed, overlapped>>

\* The second halves, and what a WeakPtr does.
Continue(t) == CallDeleter(t) \/ Take(t)

WeakNext ==
  \E w \in WeakHandles :
    \/ Drop(w)
    \/ \E q \in Pointers : Watch(q, w) \/ WeakCopy(q, w) \/ AssignCopy(q, w)
    \/ \E q \in WeakHandles : Move(q, w) \/ AssignMove(q, w)

PNext ==
  \/ \E t \in Threads : Continue(t)
  \/ WeakNext
  \/ \E h \in Handles :
       \/ \E b \in Blocks : Make(h, b) \/ \E temp \in Handles : Replace(h, temp, b)
       \/ Drop(h)
       \/ \E q \in Handles :
            Copy(q, h) \/ Move(q, h) \/ AssignCopy(q, h) \/ AssignMove(q, h)

PSpec == PInit /\ [][PNext]_pvars

-----------------------------------------------------------------------------
PTypeOK ==
  /\ block \in [Pointers -> Blocks \cup {Null}]
  /\ count \in [Blocks -> Nat]
  /\ weak \in [Blocks -> Nat]
  /\ state \in [Blocks -> {"fresh", "live", "freed"}]
  /\ destroyed \in [Blocks -> 0..2]
  /\ pc \in [Threads -> Release \cup {NoRelease}]
  /\ overlapped \subseteq Blocks

\* The counts are the numbers of pointers, through every copy, move and
\* assignment: a pointer counts from its increment to its decrement.
Counted ==
  \A b \in Blocks :
    /\ count[b] = Cardinality(Counting(Handles, b))
    /\ weak[b] = Cardinality(Counting(WeakHandles, b))

\* No thread is left with a pointer into the void: as long as a SharedPtr
\* counts for it, the object is not destroyed, and as long as a pointer counts,
\* the control block is not freed.
HeldAlive ==
  \A p \in Pointers :
    block[p] # Null /\ ~Releasing(p) =>
      /\ state[block[p]] = "live"
      /\ p \in Handles => destroyed[block[p]] = 0

\* Nothing leaks, however the halves of the releases interleave: when no SharedPtr
\* is left and no release is under way the object has been destroyed, and without
\* a WeakPtr the block has been freed.
NoLeak ==
  \A b \in Blocks :
    state[b] # "fresh" /\ count[b] = 0 /\ Pending(b) = {} =>
      /\ destroyed[b] > 0
      /\ weak[b] = 0 => state[b] = "freed"

\* An object is destroyed once, unless its last SharedPtr was released while a
\* release was between its halves or a WeakPtr was left: then the deleter may
\* run again, which nothing in the control block prevents.
DestroyedOnce == \A b \in Blocks : destroyed[b] > 1 => b \in overlapped
=============================================================================

---------------------------- MODULE SharedTensors ----------------------------
(***************************************************************************)
(* Tensors (include/common/tensor.hpp): each is a view of a Storage that   *)
(* it shares, through a SharedPtr, with the tensors it was copied or       *)
(* broadcast to, with the rows taken of it, and with those it was made     *)
(* from.  A tensor is named by its SharedPtr (storage_m).                  *)
(*                                                                         *)
(* Every operation on tensors is an operation on their pointers; this      *)
(* module adds what happens to the views, and where each element of a      *)
(* tensor is meant to be found: copies mean what their original means, and *)
(* a broadcast repeats it (normalize_index says how: modulo the shape).    *)
(***************************************************************************)
EXTENDS SharedPointers, TensorViews

CONSTANTS
  Shapes,       \* bound: the shapes tensors are created with
  Broadcasts,   \* bound: the shapes they are broadcast to
  Reshapes,     \* bound: the shapes they are reshaped to
  MaxElements,  \* bound: the elements of a tensor
  MaxDerived    \* bound: the views derived from others, in all

\* Every dimension is at least 1, and there is one.
ASSUME TensorsAssumption ==
  /\ \A s \in Shapes \cup Broadcasts \cup Reshapes : s \in Seq(Nat \ {0}) /\ s # <<>>
  /\ MaxElements \in Nat

VARIABLES
  view,    \* view[h]: the Accessor, apart from its pointer
  meant,   \* history: meant[h][i]: the position of element i, from 1
  derived \* the number of views derived so far

vars == <<pvars, view, meant, derived>>

NoView == [shape |-> <<>>]

Give(h, v, m) ==
  /\ view' = [view EXCEPT ![h] = v]
  /\ meant' = [meant EXCEPT ![h] = m]
  /\ UNCHANGED derived

Pass(g, h) ==
  /\ view' = [view EXCEPT ![h] = view[g], ![g] = NoView]
  /\ meant' = [meant EXCEPT ![h] = meant[g], ![g] = <<>>]
  /\ UNCHANGED derived

Derive(h, v, m) ==
  /\ derived < MaxDerived /\ derived' = derived + 1
  /\ view' = [view EXCEPT ![h] = v]
  /\ meant' = [meant EXCEPT ![h] = m]

Identity(n) == [i \in 1..n |-> i - 1]

-----------------------------------------------------------------------------
Init ==
  /\ PInit
  /\ view = [h \in Handles |-> NoView]
  /\ meant = [h \in Handles |-> <<>>]
  /\ derived = 0

\* Tensor(shape, ...), Storage(shape, ...).
NewTensor(h, b, shape) ==
  /\ Make(h, b)
  /\ Give(h, Contiguous(shape), Identity(NumElements(shape)))

CopyTensor(g, h) == Copy(g, h) /\ Give(h, view[g], meant[g])
MoveTensor(g, h) == g \in Handles /\ Move(g, h) /\ Pass(g, h)
DropTensor(h) == Drop(h) /\ Give(h, NoView, <<>>)

\* The vectors of the Accessor are assigned before storage_m.
AssignTensor(g, h) == g \in Handles /\ AssignCopy(g, h) /\ Give(h, view[g], meant[g])
AssignMoved(g, h) == AssignMove(g, h) /\ Pass(g, h)

\* Element i of the broadcast is the element of the old tensor whose index is
\* the same in the dimensions it has, modulo its shape.
BroadcastMeant(v, m, new) ==
  LET diff == Len(new) - Len(v.shape)
      Old(i) == [d \in DOMAIN v.shape |-> IndexOf(new, i)[d + diff] % v.shape[d]]
  IN [i \in 1..NumElements(new) |-> m[NumberOf(v.shape, Old(i - 1)) + 1]]

\* Tensor::broadcast returns a tensor on the same storage.
BroadcastTensor(g, h, new) ==
  /\ Copy(g, h)
  /\ new # view[g].shape /\ NumElements(new) <= MaxElements
  /\ IsBroadcastable(view[g].shape, new)
  /\ Derive(h, BroadcastView(view[g], new), BroadcastMeant(view[g], meant[g], new))

\* An iterator of g, k rows on, is dereferenced: the row shares the storage.
\* RowsMeant is about the rows that repeat others.
TakeRow(g, h, k) ==
  LET n == NumElements(Tail(view[g].shape)) IN
  /\ Copy(g, h)
  /\ Len(view[g].shape) > 1 /\ k < Real(view[g])[1]
  /\ Derive(h, Row(view[g], StepRow(view[g], k)),
               SubSeq(meant[g], k * n + 1, (k + 1) * n))

\* Tensor::reshape, and flatten, which computes the shape.
ReshapeTensor(h, new) ==
  /\ block[h] # Null /\ Idle(Owner[h])
  /\ new # view[h].shape /\ NumElements(new) = NumElements(view[h].shape)
  /\ ~IsBroadcasted(view[h])
  /\ Derive(h, ReshapeView(view[h], new), meant[h])
  /\ UNCHANGED pvars

\* reshape, flatten and walk of a broadcasted tensor begin with *this = copy();
\* walk keeps the shape.
DetachTensor(h, temp, b, new) ==
  /\ Replace(h, temp, b)
  /\ IsBroadcasted(view[h])
  /\ NumElements(new) = NumElements(view[h].shape)
  /\ Derive(h, ReshapeView(Contiguous(view[h].shape), new), Identity(NumElements(new)))

NewShapes(h) ==
  Reshapes \cup {FlatShape(view[h].shape, d) : d \in 0..(Len(view[h].shape) - 1)}

Next ==
  \/ \E t \in Threads : Continue(t) /\ UNCHANGED <<view, meant, derived>>
  \/ WeakNext /\ UNCHANGED <<view, meant, derived>>
  \/ \E h \in Handles :
       \/ DropTensor(h)
       \/ \E b \in Blocks, shape \in Shapes : NewTensor(h, b, shape)
       \/ \E new \in NewShapes(h) : ReshapeTensor(h, new)
       \/ \E temp \in Handles, b \in Blocks, new \in NewShapes(h) \cup {view[h].shape} :
            DetachTensor(h, temp, b, new)
       \/ \E g \in Handles :
            \/ CopyTensor(g, h) \/ MoveTensor(g, h)
            \/ AssignTensor(g, h) \/ AssignMoved(g, h)
            \/ \E new \in Broadcasts : BroadcastTensor(g, h, new)
            \/ \E k \in 0..(MaxElements - 1) : TakeRow(g, h, k)

Spec == Init /\ [][Next]_vars

-----------------------------------------------------------------------------
Views == {h \in Handles : view[h] # NoView}

Indices(v) == {IndexOf(v.shape, i) : i \in 0..(NumElements(v.shape) - 1)}
MeantAt(h, index) == meant[h][NumberOf(view[h].shape, index) + 1]

\* Walking, copying and flattening visit the elements in order and each where it
\* is meant, unless a dimension before the last repeats two rows or more: there
\* the iterator falls back to the first row and stays (AccessorIterator::operator++).
WalksMeant ==
  \A h \in Views :
    LET v == view[h] IN
    WalkOrder(v) = meant[h] <=>
      \A d \in 1..(Len(v.shape) - 1) : v.degree[d] = 1 \/ Real(v)[d] = 1

\* at() of one dimension finds every element of a broadcast.  The ones by index
\* and by row and column do not repeat: they find exactly the elements before
\* the repetitions begin, whatever row, copy or reshape the tensor is.
ReadsMeant ==
  \A h \in Views : \A index \in Indices(view[h]) :
    LET v == view[h]
        stored == \A d \in DOMAIN index : index[d] < Real(v)[d]
    IN
    /\ AtIndex(v, index) = MeantAt(h, index) <=> stored
    /\ Len(index) = 1 => At1(v, index[1]) = MeantAt(h, index)
    /\ Len(index) = 2 => At2(v, index[1], index[2]) = AtIndex(v, index)

\* An iterator that jumps reaches the row that is meant; one that steps there
\* only before the repetitions begin, or where the first row repeats.
RowsMeant ==
  \A h \in Views : \A k \in 0..(view[h].shape[1] - 1) :
    LET v == view[h]
        first == MeantAt(h, [d \in DOMAIN v.shape |-> IF d = 1 THEN k ELSE 0])
    IN
    /\ v.start + JumpRow(v, k) = first
    /\ v.start + StepRow(v, k) = first <=> k < Real(v)[1] \/ k % Real(v)[1] = 0

\* set(i, value) writes element i of a tensor that is not broadcasted; set(dim,
\* value) multiplies where at(index) adds, and of two dimensions or more it
\* writes the element that is meant only at the origin.
SetsMeant ==
  \A h \in Views :
    LET v == view[h] IN
    ~IsBroadcasted(v) =>
      /\ \A i \in 0..(NumElements(v.shape) - 1) : SetFlat(v, i) = meant[h][i + 1]
      /\ \A index \in Indices(v) :
           SetIndex(v, index) = MeantAt(h, index) <=>
             Len(index) = 1 \/ \A d \in DOMAIN index : index[d] = 0
=============================================================================

----------------------------- MODULE TensorViews -----------------------------
(***************************************************************************)
(* How an Accessor (include/common/tensor.hpp), the view through which a   *)
(* Tensor sees its Storage, finds its elements.                            *)
(*                                                                         *)
(* A view has a shape, a broadcast degree per dimension (how often the     *)
(* elements there are repeated) and the part of the storage it may use.    *)
(* A position is an index into the storage, or Nowhere where the code ends *)
(* the program (it throws in a noexcept function).  Dimensions are at      *)
(* least 1.  Views have one section [start, end): no constructor call in   *)
(* the program makes another one.                                          *)
(***************************************************************************)
EXTENDS Naturals, SequencesExt

CONSTANT Nowhere

ASSUME NowhereAssumption == Nowhere \notin Nat

\* Spans(s)[d] is the product of the dimensions of s behind d.
Spans(s) ==
  LET n == Len(s)
      f[d \in 0..n] == IF d = n THEN 1 ELSE f[d + 1] * s[d + 1]
  IN f

\* num_elements(), and the product reshape compares with it.
NumElements(shape) == Spans(shape)[0]

\* The indices of a shape, each a sequence of numbers from 0, and the index of
\* element number i, from 0, in row-major order.
IndexOf(shape, i) ==
  LET spans == Spans(shape) IN
  [d \in 1..Len(shape) |-> (i \div spans[d]) % shape[d]]
NumberOf(shape, index) ==
  LET spans == Spans(shape)
      f[d \in 0..Len(shape)] == IF d = 0 THEN 0 ELSE f[d - 1] + index[d] * spans[d]
  IN f[Len(shape)]

\* The elements a dimension really has, without those that repeat them.
Real(v) == [d \in 1..Len(v.shape) |-> v.shape[d] \div v.degree[d]]

\* Mutant: the strides of the shape, repetitions and all.
StridesOfShape(v) == Spans(v.shape)

\* calculate_stride.
Strides(v) == Spans(Real(v))

\* make_forward_stride from the start of the view, and storage_m->at.
Position(v, stride) ==
  IF stride <= v.end - v.start /\ v.start + stride < v.store
  THEN v.start + stride ELSE Nowhere

\* at(index) of a one-dimensional view, which repeats.
At1(v, i) == Position(v, i % Real(v)[1])

\* at(row_index, column_index).
At2(v, i, j) == Position(v, i * Strides(v)[1] + j)

\* at(Vector index).
AtIndex(v, index) == Position(v, NumberOf(Real(v), index))

\* set(i, value), set(dim, value).
SetFlat(v, i) == Position(v, i)
SetIndex(v, index) ==
  LET strides == Strides(v)
      f[d \in 0..Len(index)] ==
        IF d = 0 THEN 1 ELSE f[d - 1] * (index[d] * strides[d])
  IN Position(v, f[Len(index)])

\* Mutant: the iterator falls back at the end of the repetitions.
StepRowToShape(v, k) ==
  LET f[i \in 0..k] ==
        IF i = 0 \/ i >= v.shape[1] THEN 0 ELSE f[i - 1] + Strides(v)[1]
  IN f[k]

\* The offset of an AccessorIterator after k times ++ ...
StepRow(v, k) ==
  LET rows == Real(v)[1]
      stride == Strides(v)[1]
      f[i \in 0..k] == IF i = 0 \/ i >= rows THEN 0 ELSE f[i - 1] + stride
  IN f[k]

\* Mutant: the jump goes past the repetitions.
JumpRowStraight(v, k) == k * Strides(v)[1]

\* ... and after += k.
JumpRow(v, k) ==
  (IF k >= Real(v)[1] THEN k % Real(v)[1] ELSE k) * Strides(v)[1]

\* Mutant: the row begins at the iterator's offset, wherever the view begins.
RowFromZero(v, offset) ==
  [v EXCEPT !.shape = Tail(@), !.degree = Tail(@),
            !.start = offset, !.end = offset + Strides(v)[1]]

\* operator*: the view of a row.
Row(v, offset) ==
  [v EXCEPT !.shape = Tail(@), !.degree = Tail(@),
            !.start = @ + offset, !.end = v.start + offset + Strides(v)[1]]

\* copy(new_storage), and the order in which walk visits: in every dimension but
\* the last an iterator steps through the rows, whose elements at(i) reads.
WalkOrder(v) ==
  LET n == Len(v.shape)
      Rows(d) == [v EXCEPT !.shape = SubSeq(@, d, n), !.degree = SubSeq(@, d, n)]
      steps == [d \in 1..n |-> [k \in 0..(v.shape[d] - 1) |->
                 IF d = n THEN k % Real(v)[n] ELSE StepRow(Rows(d), k)]]
      Offset(index) == LET f[d \in 0..n] ==
                             IF d = 0 THEN 0 ELSE f[d - 1] + steps[d][index[d]]
                       IN f[n]
  IN [i \in 1..NumElements(v.shape) |-> Position(v, Offset(IndexOf(v.shape, i - 1)))]

IsBroadcasted(v) == \E d \in DOMAIN v.degree : v.degree[d] # 1

\* one_init_broadcast_degree.
Ones(shape) == [d \in DOMAIN shape |-> 1]

\* The view of a new storage, as the constructors and copy() make it.
Contiguous(shape) ==
  [shape |-> shape, degree |-> Ones(shape), start |-> 0,
   end |-> NumElements(shape), store |-> NumElements(shape)]

\* is_broadcastable.  broadcast throws where the dimensions do not divide.
IsBroadcastable(shape, new) ==
  LET diff == Len(new) - Len(shape) IN
  /\ Len(shape) <= Len(new)
  /\ \A d \in DOMAIN shape : new[d + diff] % shape[d] = 0

BroadcastView(v, new) ==
  LET diff == Len(new) - Len(v.shape) IN
  [v EXCEPT !.shape = new,
            !.degree = [d \in DOMAIN new |->
               IF d <= diff THEN new[d]
               ELSE (new[d] \div v.shape[d - diff]) * v.degree[d - diff]]]

\* reshape of a view that is not broadcasted.
ReshapeView(v, new) == [v EXCEPT !.shape = new, !.degree = Ones(new)]

\* The shape flatten(start_dim) reshapes to; d is start_dim.
FlatShape(shape, d) == Append(SubSeq(shape, 1, d), Spans(shape)[d])
=============================================================================

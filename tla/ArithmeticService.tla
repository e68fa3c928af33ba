------------------------- MODULE ArithmeticService -------------------------
(***************************************************************************)
(* What a compute node promises a client: a request is answered by the     *)
(* encryption of the result of the operation on what its operands stand    *)
(* for (the operands' product in the order the request gives them), the    *)
(* decryption of its operand, or by an error.  A request that means        *)
(* nothing, a product of matrices whose sizes do not fit, say, may be      *)
(* answered in any way.                                                    *)
(*                                                                         *)
(* The meaning of a request is defined here by rows and columns, apart     *)
(* from the flattened indexes the code works with, and apart from the      *)
(* triplets and the decryptions it takes.                                  *)
(***************************************************************************)
EXTENDS Integers, Sequences, Functions

CONSTANTS
  Threads,    \* the compute node's server threads
  Requests,   \* the requests clients may send
  Modulus,    \* results are known modulo this
  Nothing     \* no request, no answer

VARIABLES
  call,      \* call[t]: the request thread t works on
  answer     \* answer[t]: the answer t gave last

serviceVars == <<call, answer>>

-----------------------------------------------------------------------------
(* The meaning of a request.                                               *)

Operand(r, i) == r.operands[i].value

\* The entry in row i and column j of a matrix.
Entry(x, i, j) == x.data[(i - 1) * x.shape[2] + j]

ElementWise(x, y, op(_, _)) ==
  [shape |-> x.shape,
   data |-> [i \in DOMAIN x.data |-> op(x.data[i], y.data[i]) % Modulus]]

MatrixProduct(x, y) ==
  LET columns == y.shape[2]
      entry(i, k) == SumFunction([j \in 1..x.shape[2] |->
                                           Entry(x, i, j) * Entry(y, j, k)])
  IN  [shape |-> <<x.shape[1], columns>>,
       data |-> [q \in 1..(x.shape[1] * columns) |->
                   entry(((q - 1) \div columns) + 1,
                         ((q - 1) % columns) + 1) % Modulus]]

HaveOneShape(r) == Operand(r, 1).shape = Operand(r, 2).shape

ArePlainNumbersOrVectors(r) == HaveOneShape(r) /\ Len(Operand(r, 1).shape) < 2

AreMatrices(r) ==
  /\ \A i \in 1..2 : Len(Operand(r, i).shape) = 2
  /\ Operand(r, 1).shape[2] = Operand(r, 2).shape[1]

\* The requests that mean something.
IsMeant(r) ==
  \/ r.operation = "DECRYPT" /\ Len(r.operands) = 1
  \/ r.operation = "ADD" /\ Len(r.operands) = 2 /\ HaveOneShape(r)
  \/ /\ r.operation = "MULTIPLY"
     /\ Len(r.operands) = 2
     /\ ArePlainNumbersOrVectors(r) \/ AreMatrices(r)

Meaning(r) ==
  CASE r.operation = "DECRYPT" -> Operand(r, 1)
    [] r.operation = "ADD" ->
         ElementWise(Operand(r, 1), Operand(r, 2), LAMBDA a, b : a + b)
    [] r.operation = "MULTIPLY" /\ ~ AreMatrices(r) ->
         ElementWise(Operand(r, 1), Operand(r, 2), LAMBDA a, b : a * b)
    [] OTHER -> MatrixProduct(Operand(r, 1), Operand(r, 2))

-----------------------------------------------------------------------------
(* The service.                                                            *)

Init ==
  /\ call = [t \in Threads |-> Nothing]
  /\ answer = [t \in Threads |-> Nothing]

Ask(t) ==
  /\ call[t] = Nothing
  /\ \E r \in Requests : call' = [call EXCEPT ![t] = r]
  /\ answer' = [answer EXCEPT ![t] = Nothing]

\* The answer is the meaning of the request, where it has one.
Answer(t) ==
  /\ call[t] # Nothing
  /\ IsMeant(call[t]) => answer'[t] = Meaning(call[t])
  /\ answer' = [answer EXCEPT ![t] = answer'[t]]
  /\ call' = [call EXCEPT ![t] = Nothing]

\* An error.
Refuse(t) ==
  /\ call[t] # Nothing
  /\ call' = [call EXCEPT ![t] = Nothing]
  /\ UNCHANGED answer

\* The process dies, and with it every call.
Crash ==
  /\ call' = [t \in Threads |-> Nothing]
  /\ answer' = [t \in Threads |-> Nothing]

Next == (\E t \in Threads : Ask(t) \/ Answer(t) \/ Refuse(t)) \/ Crash

Spec == Init /\ [][Next]_serviceVars

=============================================================================

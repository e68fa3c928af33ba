------------------------- MODULE MCComputeRequests -------------------------
(***************************************************************************)
(* Requests and masks for the runs of ComputeRequests.                     *)
(***************************************************************************)
EXTENDS ComputeRequests

CONSTANTS t1, t2

Encryptions == {"CIPHERTEXT", "PLAINTEXT"}

OperandOf(type, encryption, value) ==
  [type |-> type, encryption |-> encryption, value |-> value]

Binary(operation, x, y) ==
  [arity |-> "BINARY", operation |-> operation, operands |-> <<x, y>>]

Unary(operation, x) ==
  [arity |-> "UNARY", operation |-> operation, operands |-> <<x>>]

TensorOf(encryption, shape, data) ==
  OperandOf("TENSOR", encryption, [shape |-> shape, data |-> data])
SingleOf(encryption, number) ==
  OperandOf("SINGLE", encryption, [shape |-> <<>>, data |-> <<number>>])

C == "CIPHERTEXT"
P == "PLAINTEXT"
Arithmetic == {"ADD", "MULTIPLY"}

Singles == {Binary(op, SingleOf(e1, 3), SingleOf(e2, 5)) :
              op \in Arithmetic, e1 \in Encryptions, e2 \in Encryptions}

Vectors == {Binary(op, TensorOf(e1, <<2>>, <<1, 6>>), TensorOf(e2, <<2>>, <<7, 2>>)) :
              op \in Arithmetic, e1 \in Encryptions, e2 \in Encryptions}

Mismatched == {Binary(op, TensorOf(e1, <<2>>, <<1, 6>>), TensorOf(e2, <<1>>, <<3>>)) :
                 op \in Arithmetic, e1 \in Encryptions, e2 \in Encryptions}

M12 == TensorOf(C, <<1, 2>>, <<3, 4>>)
M21 == TensorOf(C, <<2, 1>>, <<5, 2>>)
M22 == TensorOf(C, <<2, 2>>, <<1, 2, 3, 7>>)

Matrices == {Binary("ADD", M12, M12), Binary("ADD", M12, M21),
             Binary("MULTIPLY", M12, M21), Binary("MULTIPLY", M21, M12),
             Binary("MULTIPLY", M22, M21),
             Binary("MULTIPLY", M21, M21),
             Binary("MULTIPLY", M12, TensorOf(C, <<2>>, <<1, 6>>)),
             Binary("MULTIPLY", TensorOf(C, <<2>>, <<1, 6>>), M21)}

Cubes == {Binary(op, TensorOf(C, <<1, 1, 2>>, <<1, 2>>),
                     TensorOf(C, <<1, 1, 2>>, <<4, 6>>)) : op \in Arithmetic}

Decryptions == {Unary("DECRYPT", SingleOf(C, 6)), Unary("DECRYPT", M12)}

Unsupported == {Unary("DECRYPT", SingleOf(P, 6)),
                Unary("ADD", SingleOf(C, 6)),
                Binary("SUBTRACT", SingleOf(C, 6), SingleOf(C, 1)),
                [arity |-> "TERNARY", operation |-> "ADD", operands |-> <<M12>>],
                Binary("ADD", SingleOf(C, 6), M12),
                Binary("ADD", OperandOf("TENSOR_ID", C, M12.value), M12)}

\* Every branch of the handler, but plaintexts of one dimension at most.
AllButPlaintextMatrices ==
  Singles \cup Vectors \cup Mismatched \cup Matrices \cup Cubes \cup Decryptions
    \cup Unsupported

\* A ciphertext matrix times a plaintext matrix: one request, so that there is one
\* way only for the answer to be wrong.
PlaintextMatrix ==
  {Binary("MULTIPLY", M12, TensorOf(P, M21.value.shape, M21.value.data))}

\* Masks run from 0 to 9 (generate_random_beavers_triplet), beyond Modulus.
Rows == {<< <<3, 5>>, <<9, 2>>, <<0, 7>> >>, << <<1, 8>>, <<4, 4>> >>}

=============================================================================

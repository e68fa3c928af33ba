------------------------- MODULE TensorArithmetic -------------------------
(***************************************************************************)
(* The tensor operations of the cryptosystem that a compute request is     *)
(* made of (include/x86_64/cpu_cryptosystem_tensor_ops.inl and the codecs  *)
(* of cpu_cryptosystem.inl), as operators.                                 *)
(*                                                                         *)
(* A tensor is its shape and its elements in row-major order.  The code    *)
(* counts elements from 0, the sequence from 1: At takes the code's index, *)
(* and wraps it at the number of elements as Accessor::at does.  A single  *)
(* value has the shape <<>> and one element.  A ciphertext stands for the  *)
(* number it encrypts, modulo Modulus; its randomness and the group it     *)
(* lives in are left out.                                                  *)
(***************************************************************************)
EXTENDS Integers, Sequences, Functions

CONSTANTS
  Modulus,   \* mM = 2^k: what a ciphertext encrypts is known modulo this
  Garbage,   \* what shape()[1] of a one-dimensional tensor may read
  Throws     \* the outcome of an operation that throws

ASSUME ModulusAssumption == Modulus \in Nat \ {0}
ASSUME GarbageAssumption == Garbage \subseteq Nat \ {0}

Tensors == [shape : Seq(Nat \ {0}), data : Seq(Nat)]

ASSUME ThrowsAssumption == Throws \notin Tensors

Residues == 0..(Modulus - 1)
Size(t) == Len(t.data)
Rank(t) == Len(t.shape)

At(t, i) == t.data[(i % Size(t)) + 1]

\* The tensor of this shape and number of elements, element i given by value.
Tensor(shape, size, value(_)) ==
  [shape |-> shape, data |-> [q \in 1..size |-> value(q - 1)]]

Flattened(t) == [t EXCEPT !.shape = <<Size(t)>>]

-----------------------------------------------------------------------------
(* What arrives of an operand.                                             *)

\* deserialize_plaintext_tensor flattens what it read, and leaves it flat;
\* the decoder of ciphertexts reshapes.
DecodedPlaintext(t) == IF t.shape = <<>> THEN t ELSE Flattened(t)

\* Encryption takes a number modulo Modulus.
Encrypted(t) == [t EXCEPT !.data = [q \in DOMAIN @ |-> @[q] % Modulus]]

-----------------------------------------------------------------------------
(* Element by element.                                                     *)

Zip(x, y, op(_, _)) ==
  Tensor(x.shape, Size(x), LAMBDA i : op(At(x, i), At(y, i)))

\* Mutant: only vectors are added, as for plaintexts.
AddVectorsOnly(x, y) ==
  IF x.shape # y.shape \/ Rank(x) > 1 THEN Throws
  ELSE Zip(x, y, LAMBDA a, b : (a + b) % Modulus)

AddCiphertexts(x, y) ==
  IF x.shape # y.shape THEN Throws
  ELSE Zip(x, y, LAMBDA a, b : (a + b) % Modulus)

\* Plaintexts are integers: their sums and products are not reduced.
AddPlaintexts(x, y) ==
  IF x.shape # y.shape \/ Rank(x) > 1 THEN Throws
  ELSE Zip(x, y, LAMBDA a, b : a + b)

MultiplyPlaintexts(x, y) ==
  IF x.shape # y.shape \/ Rank(x) > 1 THEN Throws
  ELSE Zip(x, y, LAMBDA a, b : a * b)

-----------------------------------------------------------------------------
(* Matrices.                                                               *)

\* What reading shape()[1] may give: a one-dimensional shape has no such
\* entry, and operator[] of std::vector reads past its end.
Columns(t) == IF Rank(t) >= 2 THEN {t.shape[2]} ELSE Garbage

\* The sum of n*m*p products, number (i*m + j)*p + k of them belonging to
\* row i and column k of the result.
SumProducts(n, m, p, product(_)) ==
  Tensor(<<n, p>>, n * p, LAMBDA q :
    SumFunction([j \in 0..(m - 1) |->
                          product((((q \div p) * m + j) * p) + (q % p))]) % Modulus)

\* The element of a left factor of m columns, and of a right one of p, that
\* product number q multiplies.
LeftFactor(x, m, p, q) == At(x, ((q \div (m * p)) * m) + ((q \div p) % m))
RightFactor(y, m, p, q) == At(y, (((q \div p) % m) * p) + (q % p))

\* scal_ciphertext_tensors: the outcomes of scaling the ciphertexts c by the
\* plaintexts s.  The ciphertexts are the left factor, in whichever order
\* the request named them.
Scaled(s, c) ==
  IF Rank(s) = Rank(c) /\ Rank(s) < 2
    THEN IF s.shape # c.shape THEN {Throws}
         ELSE {Zip(c, s, LAMBDA a, b : (a * b) % Modulus)}
  ELSE IF Rank(s) > 2 \/ Rank(c) > 2 THEN {Throws}
  ELSE {SumProducts(c.shape[1], m, p, LAMBDA q :
           LeftFactor(c, m, p, q) * RightFactor(s, m, p, q))
          : m \in Columns(c), p \in Columns(s)}
       \* a shape read past its end may also be too large to allocate
       \cup (IF Rank(s) = 1 \/ Rank(c) = 1 THEN {Throws} ELSE {})

=============================================================================

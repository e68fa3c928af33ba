---------------------------- MODULE NumberFormats -----------------------------
(***************************************************************************)
(* How keys, ciphertexts, plaintexts and partial decryptions, and tensors  *)
(* of them, become texts (include/x86_64/cpu_cryptosystem.inl).            *)
(*                                                                         *)
(* A value is a shape and its numbers: one for an element that is a        *)
(* plaintext, three for a partial decryption, six for a ciphertext.  The   *)
(* four bytes of ndim and of a dimension count as one character, their     *)
(* lowest byte, and so do the eight of an entry of the pointer table.      *)
(***************************************************************************)
EXTENDS MessageFormats

CONSTANT Dies   \* the outcome of a decoder that reads where nothing is

Numbers(encryption) ==
  CASE encryption = "PLAINTEXT" -> 1
    [] encryption = "PARTIAL" -> 3
    [] encryption = "CIPHERTEXT" -> 6

\* Single values: decimal numbers with a space between them.
ReadSpaced(text) == [i \in DOMAIN Words(text) |-> Words(text)[i][2]]

Abs(x) == IF x < 0 THEN -x ELSE x

\* mpz_sizeinbase(x, 2)
Bits(x) ==
  LET f[m \in 0..Abs(x)] == IF m = 0 THEN 0 ELSE f[m \div 2] + 1
  IN  IF x = 0 THEN 1 ELSE f[Abs(x)]

\* Mutant: the bits that do not fill a byte are not counted.
WholeBytes(x) == Bits(x) \div 8

\* The bytes a number is given, and what mpz_export writes there: the lowest
\* byte first.
ByteSize(x) == Bits(x) \div 8 + 1
Shifted(x, i) ==
  LET f[k \in 0..i] == IF k = 0 THEN Abs(x) ELSE f[k - 1] \div 256
  IN  f[i]
Export(x) == [i \in 1..ByteSize(x) |-> Byte(Shifted(x, i - 1) % 256)]

\* mpz_import of the n bytes from `from` on: the highest is the last.
Import(text, from, n) ==
  LET f[i \in 0..n] ==
        IF i = 0 THEN 0 ELSE 256 * f[i - 1] + text[from + n - i][2]
  IN  f[n]

\* Where number j begins, and the flag that negates it when it is read.
Offset(numbers, j) ==
  LET f[i \in 0..(j - 1)] == IF i = 0 THEN 0 ELSE f[i - 1] + ByteSize(numbers[i])
  IN  f[j - 1]
Entry(numbers, j) == <<"entry", Offset(numbers, j), ~ numbers[j] > 0>>

TensorText(value) ==
  LET numbers == value.numbers
  IN  <<Byte(Len(value.shape))>>
      \o [d \in DOMAIN value.shape |-> Byte(value.shape[d])]
      \o [j \in DOMAIN numbers |-> Entry(numbers, j)]
      \o FlattenSeq([j \in DOMAIN numbers |-> Export(numbers[j])])

Elements(shape) ==
  LET f[d \in 0..Len(shape)] == IF d = 0 THEN 1 ELSE f[d - 1] * shape[d]
  IN  f[Len(shape)]

\* The length of number j is up to the next one's offset; the last one's is up
\* to the end of the text.  The loop over all elements but the last runs away
\* when there is none.  Plaintexts keep the shape they are read with, flat.
ReadTensor(text, encryption) ==
  LET ndim == text[1][2]
      shape == [d \in 1..ndim |-> text[1 + d][2]]
      elements == Elements(shape)
      count == elements * Numbers(encryption)
      header == 1 + ndim + count
      OffsetOf(j) == text[1 + ndim + j][2]
      Length(j) == IF j < count THEN OffsetOf(j + 1) - OffsetOf(j)
                                ELSE Len(text) - OffsetOf(j) - header
      Number(j) == Import(text, header + OffsetOf(j) + 1, Length(j))
  IN  IF elements = 0 THEN Dies
      ELSE [shape |-> IF encryption = "PLAINTEXT" THEN <<elements>> ELSE shape,
            numbers |-> [j \in 1..count |->
              IF text[1 + ndim + j][3] THEN - Number(j) ELSE Number(j)]]

\* The data of an operand: a name where the tensor is not sent.
ValueText(type, value) ==
  IF type = "TENSOR" THEN TensorText(value) ELSE SpacedText(value.numbers)
ReadValue(type, encryption, text) ==
  IF type = "TENSOR" THEN ReadTensor(text, encryption)
                     ELSE [shape |-> <<>>, numbers |-> ReadSpaced(text)]
=============================================================================

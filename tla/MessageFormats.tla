---------------------------- MODULE MessageFormats ----------------------------
(***************************************************************************)
(* The texts of requests and responses (include/node/*.hpp): to_string and *)
(* from_string of every layer.                                             *)
(*                                                                         *)
(* A text is a sequence of characters.  A character is a byte of a binary  *)
(* number, a word that is not looked into, or a line: numbers and words    *)
(* with the newline behind them, where the code reads them with getline.   *)
(* Words and lines begin with a digit or a letter, never with white space. *)
(***************************************************************************)
EXTENDS Integers, SequencesExt

CONSTANTS
  Throws,    \* the outcome of a decoder that throws
  Misread,   \* the outcome of one that takes a text for what it is not
  IntMax     \* the largest int: 2^31 - 1 in the program

ASSUME FormatsAssumption == IntMax \in Nat \ {0}

Byte(b) == <<"byte", b>>
Word(w) == <<"word", w>>
Line(fields) == <<"line", fields>>

Newline == Byte(10)
Space == Byte(32)
IsSpace(char) == char[1] = "byte" /\ char[2] \in (9..13) \cup {32}

\* Words, or decimal numbers, with a space between them.
SpacedText(words) ==
  [k \in 1..(2 * Len(words) - 1) |->
     IF (k % 2) = 1 THEN Word(words[(k + 1) \div 2]) ELSE Space]

\* What operator>> reads one after the other: the rest is white space.
Words(text) ==
  LET f[i \in 0..Len(text)] ==
        IF i = 0 THEN <<>>
        ELSE IF IsSpace(text[i]) THEN f[i - 1] ELSE Append(f[i - 1], text[i])
  IN  f[Len(text)]

\* Every layer but two: a line of fields, the last the size of the data.
Framed(fields, data) == <<Line(Append(fields, Len(data)))>> \o data

\* Mutant: the size is not compared with the data.
ReadUnchecked(text) ==
  IF text[1][1] = "line"
  THEN [fields |-> Front(text[1][2]), data |-> Tail(text)] ELSE Throws

\* from_string: what is behind the line has the size the line says.  A text
\* without a newline has nothing behind it, and substr throws.
Read(text) ==
  IF text[1][1] = "line" /\ Last(text[1][2]) = Len(Tail(text))
  THEN [fields |-> Front(text[1][2]), data |-> Tail(text)] ELSE Throws

\* The layers of the setup and the CoFHE node cut behind find('\n'), which
\* without a newline is the whole text; its size is then compared with a
\* variable that was never set, and its status reads as 0.
ReadLoosely(text) ==
  IF text[1][1] = "line" THEN {Read(text)} ELSE {Throws, Misread}

-----------------------------------------------------------------------------
(* The requests to join and their answers.                                 *)

\* The size counts a separator behind each of the two words; one is written.
JoinText(type, ip, port) == <<Line(<<type, 4>>)>> \o SpacedText(<<ip, port>>)

ReadJoin(text) ==
  LET words == Words(Tail(text))
      fields == text[1][2]
  IN  IF fields[2] = 2 * Len(words)
      THEN [as |-> fields[1], ip |-> words[1][2], port |-> words[2][2]] ELSE Throws

JoinAnswer(status, type, lines) ==
  <<Line(<<status, type, Len(lines)>>)>> \o [i \in DOMAIN lines |-> Line(lines[i])]

\* Mutant: the key is written without the newline that ends it.
RunOnGrant(key, shares) ==
  JoinAnswer("OK", "JOIN_AS_COFHE_NODE",
             IF shares = <<>> THEN <<key>> ELSE <<key \o shares[1]>> \o Tail(shares))

Granted(key, shares) ==
  JoinAnswer("OK", "JOIN_AS_COFHE_NODE", <<key>> \o shares)
Admitted == JoinAnswer("OK", "JOIN_AS_COMPUTE_NODE", <<>>)

\* Mutant: the status is forgotten.
RefusalAsGrant == JoinAnswer("OK", "JOIN_AS_COFHE_NODE", << <<>> >>)

\* The reason has no place in the text: it is that of a CoFHE node without a key.
JoinRefusal == JoinAnswer("ERROR", "JOIN_AS_COFHE_NODE", << <<>> >>)

\* The size of an answer is not compared with anything.
ReadJoinAnswer(text) ==
  LET fields == text[1][2]
      lines == [i \in DOMAIN Tail(text) |-> Tail(text)[i][2]]
  IN  IF fields[2] = "JOIN_AS_COFHE_NODE"
      THEN [status |-> fields[1], key |-> lines[1], shares |-> Tail(lines)]
      ELSE [status |-> fields[1], key |-> <<>>, shares |-> <<>>]

-----------------------------------------------------------------------------
(* The requests to compute: operands one behind the other, each with a     *)
(* newline behind its data.                                                *)

OperandText(o) == Framed(<<o.type, o.encryption>>, o.data) \o <<Newline>>

ComputeText(r) ==
  <<Line(<<r.arity, r.operation, Len(r.operands)>>)>>
  \o FlattenSeq([i \in DOMAIN r.operands |-> OperandText(r.operands[i])])

\* iss >> std::ws
SkipSpace(text, from) ==
  LET rest == {i \in from..Len(text) : ~ IsSpace(text[i])}
  IN  IF rest = {} THEN Len(text) + 1 ELSE Min(rest)

\* One pass of ComputeOperationOperand::from_string behind those read so far.
\* White space is skipped before the data and behind it; at the end of the text
\* tellg() is -1 and substr throws, and a text that ends within the data makes
\* it shorter.
ReadOperand(text, last) ==
  LET fields == text[last.at][2]
      start == SkipSpace(text, last.at + 1)
      after == start + fields[3]
      data == SubSeq(text, start, Min({after - 1, Len(text)}))
  IN  IF start > Len(text) THEN Throws
      ELSE [at |-> SkipSpace(text, after),
            operands |-> Append(last.operands,
              [type |-> fields[1], encryption |-> fields[2], data |-> data])]

\* The first n operands of the text, and where the next one begins.
OperandsUpTo(text, n) ==
  LET f[i \in 0..n] ==
        IF i = 0 THEN [at |-> 1, operands |-> <<>>]
        ELSE IF f[i - 1] = Throws THEN Throws ELSE ReadOperand(text, f[i - 1])
  IN  f[n]

ReadOperands(text, n) ==
  IF OperandsUpTo(text, n) = Throws THEN Throws ELSE OperandsUpTo(text, n).operands

ReadCompute(text) ==
  LET fields == text[1][2]
      operands == ReadOperands(Tail(text), fields[3])
  IN  IF operands = Throws THEN Throws
      ELSE [arity |-> fields[1], operation |-> fields[2], operands |-> operands]
=============================================================================

---------------------------- MODULE MCNodeServices ----------------------------
(***************************************************************************)
(* Calls for the run of NodeServices.                                      *)
(***************************************************************************)
EXTENDS NodeServices

CONSTANTS c1, c2

To(node, service, request) == [node |-> node, service |-> service, request |-> request]
Setup(request) == To("SETUP_REQUEST", "SETUP_REQUEST", request)
Cofhe(request) == To("COFHE_REQUEST", "COFHE_REQUEST", request)
Ask(request) == To("COMPUTE_REQUEST", "COMPUTE_REQUEST", request)

\* A ciphertext: bytes that are full, a zero, and signs.
C1 == <<255, -1, 256, 1, 0, 65536>>
C2 == <<7, -300, 65535, 128, 127, 2>>
Tensor(shape, numbers) == [shape |-> shape, numbers |-> numbers]

CipherTensor == Tensor(<<2, 1>>, C1 \o C2)
Four == Tensor(<<4>>, C1 \o C1 \o C1 \o C1)
Square == Tensor(<<2, 2>>, C1 \o C1 \o C1 \o C1)
Rank10 == Tensor([d \in 1..10 |-> 1], C1)
OneTensor == Tensor(<<1>>, C1)
Plain == Tensor(<<1, 3>>, <<0, 511, 256>>)
Empty == Tensor(<<0>>, <<>>)
OneCipher == Tensor(<<>>, C1)
Name == Tensor(<<>>, <<5>>)
NoName == Tensor(<<>>, <<>>)

Operand(type, encryption, value) ==
  [type |-> type, encryption |-> encryption, value |-> value]
C(value) == Operand("TENSOR", "CIPHERTEXT", value)
P(value) == Operand("TENSOR", "PLAINTEXT", value)
ById(value) == Operand("TENSOR_ID", "CIPHERTEXT", value)
One == Operand("SINGLE", "CIPHERTEXT", OneCipher)

JoinAs(as, ip) ==
  [type |-> "JOIN_AS_NODE_REQUEST", join |-> [as |-> as, ip |-> ip, port |-> "4455"]]
Details(ask) == [type |-> "NetworkDetailsRequest", ask |-> ask]
Decrypt(share, operand) ==
  [type |-> "PartialDecryption", share |-> share, operand |-> operand]
Unary(x) == [arity |-> "UNARY", operation |-> "DECRYPT", operands |-> <<x>>]
Binary(x, y) == [arity |-> "BINARY", operation |-> "ADD", operands |-> <<x, y>>]
Triplet == [type |-> "BEAVERS_TRIPLET_REQUEST", count |-> 2]

MCCalls ==
  {Setup(Triplet), Setup(JoinAs("JOIN_AS_COFHE_NODE", "cofhe")),
   Setup(JoinAs("JOIN_AS_COMPUTE_NODE", "compute")), Setup([type |-> "UNKNOWN"])}
  \cup {Setup(Details(ask)) : ask \in {"GET", "SET", "UNKNOWN"}}
  \cup {Cofhe(Decrypt(share, One)) : share \in {1, 2}}
  \cup {Cofhe(Decrypt(0, o)) :
          o \in {C(CipherTensor), C(Rank10), C(Empty), ById(Name),
                 C(Square)}}
  \cup {Cofhe([type |-> type]) : type \in {"SMPC", "UNKNOWN"}}
  \cup {Ask(Unary(o)) :
          o \in {One, C(CipherTensor), C(Rank10), C(Empty), ById(NoName),
                 C(Four), C(Square)}}
  \cup {Ask(Binary(One, One)), Ask(Binary(C(CipherTensor), P(Plain))),
        Ask(Binary(P(Plain), C(OneTensor))), Ask(Binary(C(Rank10), P(Plain))),
        Ask(Binary(C(CipherTensor), C(Rank10))),
        Ask(Binary(ById(NoName), C(CipherTensor))),
        Ask(Binary(C(Four), One)), Ask(Binary(One, C(Four)))}
  \cup {To("COMPUTE_REQUEST", "SETUP_REQUEST", Triplet),
        To("SETUP_REQUEST", "COFHE_REQUEST", [type |-> "SMPC"]),
        To("COFHE_REQUEST", "COMPUTE_REQUEST", Unary(One))}

MCKey == <<11, -3, 14>>
MCShares == << << <<5>>, <<9>> >> >>
MCTriplet == C1 \o C2 \o C1

=============================================================================

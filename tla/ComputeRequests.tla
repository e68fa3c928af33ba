-------------------------- MODULE ComputeRequests --------------------------
(***************************************************************************)
(* The compute node's handler (include/node/compute_request_handler.hpp)   *)
(* and its multiplication of ciphertexts with Beaver triplets              *)
(* (include/smpc/ciphertext_multiplications.hpp), on the server's threads. *)
(*                                                                         *)
(* A request that needs no one else is one action.  The product of two     *)
(* ciphertexts x and y draws a triplet (a, b, a*b) for every product of    *)
(* elements, has x - a decrypted by the CoFHE nodes, then y - b, and puts  *)
(* the product together from what was revealed; each of the three calls    *)
(* may fail, or end the process, and other threads work in between.        *)
(*                                                                         *)
(* Elements of tensors are objects on the heap that nobody owns: the       *)
(* handler deletes them in loops at the end of every successful branch.    *)
(* An object here is the name of its tensor and its place, from 1.  Single *)
(* values live on the stack, but for the triplet that multiplies two.      *)
(***************************************************************************)
EXTENDS TensorArithmetic, FiniteSets

CONSTANTS
  Threads,    \* threads of the compute node's server
  Requests,   \* the requests clients send
  MaskRows,   \* the sequences of <<a, b>> the generator may draw from
  Nothing,    \* no request, no work, no reply
  MaxCalls    \* bound: the requests received

Operands == [type : STRING, encryption : STRING, value : Tensors]

\* As many elements as the shape says, and at least one: the decoders read
\* the product of the shape, and the last element apart from the others.
IsFull(v) ==
  /\ v.data # <<>>
  /\ v.shape = <<>> => Len(v.data) = 1
  /\ Len(v.shape) = 1 => Len(v.data) = v.shape[1]
  /\ Len(v.shape) = 2 => Len(v.data) = v.shape[1] * v.shape[2]

ASSUME MaskAssumption == \A row \in MaskRows : row \in Seq(Nat \X Nat) /\ row # <<>>
ASSUME RequestAssumption ==
  \A r \in Requests :
    /\ r.operands \in Seq(Operands)
    /\ \A o \in Range(r.operands) :
         IsFull(o.value) /\ (o.type = "SINGLE" <=> o.value.shape = <<>>)
    /\ \A o, p \in Range(r.operands) :
         o.value.shape = p.value.shape => Len(o.value.data) = Len(p.value.data)

\* An object of a tensor: the tensor's name and the object's place.
Names == {"first", "second", "encrypted", "plain", "result", "a", "b", "c",
          "neg_a", "neg_b", "ct1_neg_a", "ct2_neg_b", "pt1", "pt2", "pt1_pt2",
          "enc_pt1_pt2", "pt1_b", "pt2_a", "pt1_b + pt2_a", "... + c", "product"}
Heap == Names \X (Nat \ {0})
Replies == [request : Requests, value : Tensors \cup {Throws}, failed : BOOLEAN,
            left : SUBSET Heap, vain : SUBSET Heap]

ASSUME NothingAssumption == Nothing \notin Requests \cup Replies

VARIABLES
  up,        \* the compute node's process runs
  pc,        \* pc[t]: where thread t is in handle_request
  request,   \* request[t]: the request it handles
  work,      \* work[t]: the multiplication of ciphertexts under way
  live,      \* live[t]: the objects allocated for the request, not deleted
  reply,     \* reply[t]: the response it gave last, and what it left behind
  uses,      \* uses[i]: how often the halves of triplet i masked something
  calls      \* the requests received so far, against MaxCalls

vars == <<up, pc, request, work, live, reply, uses, calls>>

First(r) == r.operands[1]
Second(r) == r.operands[2]
IsSingle(r) == First(r).type = "SINGLE"
Are(r, e1, e2) == First(r).encryption = e1 /\ Second(r).encryption = e2

\* The requests a branch of the handler exists for; the others are answered
\* with an error before anything is decoded.
Accepted(r) ==
  \/ /\ r.arity = "UNARY" /\ Len(r.operands) = 1
     /\ r.operation = "DECRYPT"
     /\ First(r).encryption = "CIPHERTEXT"
     /\ First(r).type # "TENSOR_ID"
  \/ /\ r.arity = "BINARY" /\ Len(r.operands) = 2
     /\ First(r).type = Second(r).type
     /\ First(r).type # "TENSOR_ID"
     /\ r.operation \in {"ADD", "MULTIPLY"}

IsDecryption(r) == r.operation = "DECRYPT"
IsProduct(r) == r.operation = "MULTIPLY" /\ Are(r, "CIPHERTEXT", "CIPHERTEXT")
IsLocal(r) == Accepted(r) /\ ~ IsDecryption(r) /\ ~ IsProduct(r)

\* An operand as its decoder returns it.
Decoded(operand) ==
  IF operand.encryption = "CIPHERTEXT" THEN operand.value
                                       ELSE DecodedPlaintext(operand.value)
X(r) == Decoded(First(r))
Y(r) == Decoded(Second(r))

-----------------------------------------------------------------------------
(* Requests that need no one else.                                         *)

Ciphertext(x) == IF x = Throws THEN Throws ELSE Encrypted(x)

\* The possible results of a local request.
LocalResults(r) ==
  CASE r.operation = "ADD" /\ Are(r, "PLAINTEXT", "PLAINTEXT") ->
         {Ciphertext(AddPlaintexts(X(r), Y(r)))}
    [] r.operation = "ADD" /\ ~ Are(r, "PLAINTEXT", "PLAINTEXT") ->
         {AddCiphertexts(Encrypted(X(r)), Encrypted(Y(r)))}
    [] r.operation = "MULTIPLY" /\ Are(r, "PLAINTEXT", "PLAINTEXT") ->
         {Ciphertext(MultiplyPlaintexts(X(r), Y(r)))}
    [] r.operation = "MULTIPLY" /\ Are(r, "PLAINTEXT", "CIPHERTEXT") ->
         Scaled(X(r), Y(r))
    [] OTHER -> Scaled(Y(r), X(r))

\* The objects of a tensor of n elements.
Objects(name, n) == {name} \X (1..n)
OperandObjects(r) ==
  Objects("first", Size(X(r))) \cup
  (IF IsDecryption(r) THEN {} ELSE Objects("second", Size(Y(r))))

PlaintextSize(r) == IF First(r).encryption = "PLAINTEXT" THEN Size(X(r))
                                                         ELSE Size(Y(r))
IsMixed(r) == First(r).encryption # Second(r).encryption

\* A plaintext is encrypted before it is added to a ciphertext.
EncryptedOperand(r) ==
  IF r.operation = "ADD" /\ IsMixed(r)
    THEN Objects("encrypted", PlaintextSize(r)) ELSE {}

\* The sum or product of two plaintexts, before it is encrypted.
PlainResult(r, x) ==
  IF Are(r, "PLAINTEXT", "PLAINTEXT") THEN Objects("plain", Size(x)) ELSE {}

LocalObjects(r, x) ==
  OperandObjects(r) \cup EncryptedOperand(r) \cup
  (IF x = Throws THEN {} ELSE Objects("result", Size(x)) \cup PlainResult(r, x))

\* Mutant: the encrypted plaintext is not cleared.
ClearedWithoutEncrypted(r, x) ==
  IF x = Throws THEN {}
  ELSE (UNION {Objects(name, Size(X(r))) : name \in {"first", "second", "result"}})
       \cup PlainResult(r, x)

\* What the branch deletes.  clear_ciphertext_tensors and its two siblings
\* run one loop over three tensors, as long as the first or the plaintext.
Cleared(r, x) ==
  LET loop == IF IsMixed(r) THEN PlaintextSize(r) ELSE Size(X(r))
  IN  CASE x = Throws -> {}
        [] x # Throws /\ r.operation = "ADD" ->
             (UNION {Objects(name, loop) : name \in {"first", "second", "result"}})
             \cup EncryptedOperand(r) \cup PlainResult(r, x)
        [] OTHER -> LocalObjects(r, x)

-----------------------------------------------------------------------------
(* The product of ciphertexts.                                             *)

\* The multiplications of elements that r takes: a pair of values, of
\* vectors, or of the n*m*p pairs that meet in the product of two matrices.
\* The sizes of two matrices are not compared.
Products(r) ==
  IF Rank(X(r)) < 2 THEN {[x |-> X(r), y |-> Y(r), p |-> 1]}
  ELSE {LET m == X(r).shape[2]
            size == Size(X(r)) * p
        IN  [x |-> Tensor(<<size>>, size, LAMBDA q : LeftFactor(X(r), m, p, q)),
             y |-> Tensor(<<size>>, size, LAMBDA q : RightFactor(Y(r), m, p, q)),
             p |-> p] : p \in Columns(Y(r))}

\* Mutant: every product takes the first triplet.
FirstTriplet(row, n) ==
  [i \in 1..n |-> [id |-> Len(uses) + 1, a |-> row[1][1], b |-> row[1][2]]]

\* The next n triplets of the trusted node, no one's before.
Triplets(row, n) ==
  [i \in 1..n |-> LET ab == row[((i - 1) % Len(row)) + 1]
                  IN  [id |-> Len(uses) + i, a |-> ab[1], b |-> ab[2]]]

\* What a CoFHE node learns of x: x + (-1) * mask, decrypted.
Masked(x, mask) == (x - mask) % Modulus

\* Mutant: the product of the masks is left out.
WithoutC(e, f, triplet) == ((e * f) + (e * triplet.b) + (f * triplet.a)) % Modulus

\* (x - a)(y - b) + (x - a)b + (y - b)a + ab.
Recombined(e, f, triplet) ==
  ((e * f) + (e * triplet.b) + (f * triplet.a) + (triplet.a * triplet.b)) % Modulus

\* The result of r, once every product is there.
ProductOf(r, w) ==
  LET products == Tensor(w.x.shape, Size(w.x), LAMBDA i :
                    Recombined(w.e[i + 1], w.f[i + 1], w.triplets[i + 1]))
  IN  IF Rank(X(r)) < 2 THEN products
      ELSE SumProducts(X(r).shape[1], X(r).shape[2], w.p,
                       LAMBDA q : At(products, q))

TripletObjects(n) == UNION {Objects(name, n) : name \in {"a", "b", "c"}}
MaskObjects(n) ==
  UNION {Objects(name, n) : name \in {"neg_a", "neg_b", "ct1_neg_a", "ct2_neg_b"}}

\* The sums the vector product makes on the way: `ct` is assigned three
\* times, and only what it holds last is ever deleted.
DroppedSums(n) == Objects("pt1_b + pt2_a", n) \cup Objects("... + c", n)

\* What putting a product of tensors together allocates and deletes; the
\* products of a matrix are deleted once they are summed.
FinishObjects(r, n, x) ==
  (UNION {Objects(name, n) : name \in {"pt1_pt2", "enc_pt1_pt2", "pt1_b", "pt2_a"}})
  \cup DroppedSums(n) \cup Objects("product", n)
  \cup (IF Rank(X(r)) = 2 THEN Objects("result", Size(x)) ELSE {})

FinishCleared(r, n, x) ==
  TripletObjects(n) \cup MaskObjects(n)
  \cup (UNION {Objects(name, n) :
                name \in {"pt1", "pt2", "pt1_pt2", "enc_pt1_pt2", "pt1_b", "pt2_a"}})
  \cup OperandObjects(r) \cup Objects("product", n)
  \cup (IF Rank(X(r)) = 2 THEN Objects("result", Size(x)) ELSE {})

-----------------------------------------------------------------------------
(* The threads.                                                            *)

\* The points at which a thread waits for another node.
Remote == {"draw", "first", "second", "decrypt"}

Idle == [t \in Threads |-> Nothing]

Init ==
  /\ up = TRUE
  /\ pc = [t \in Threads |-> "idle"]
  /\ request = Idle
  /\ work = Idle
  /\ live = [t \in Threads |-> {}]
  /\ reply = Idle
  /\ uses = <<>>
  /\ calls = 0

\* The response of t: its value (Throws for an ERROR), whether another node
\* failed it, and what the request leaves on the heap or deletes in vain
\* when it allocates and clears these objects last.
Respond(t, value, failed, made, cleared) ==
  LET there == live[t] \cup made
  IN  /\ reply' = [reply EXCEPT ![t] =
                     [request |-> request[t], value |-> value, failed |-> failed,
                      left |-> there \ cleared, vain |-> cleared \ there]]
      /\ pc' = [pc EXCEPT ![t] = "idle"]
      /\ request' = [request EXCEPT ![t] = Nothing]
      /\ work' = [work EXCEPT ![t] = Nothing]
      /\ live' = [live EXCEPT ![t] = {}]
      /\ UNCHANGED <<up, calls>>

Receive(t) ==
  /\ up /\ pc[t] = "idle" /\ calls < MaxCalls
  /\ \E r \in Requests : request' = [request EXCEPT ![t] = r]
  /\ pc' = [pc EXCEPT ![t] = "dispatch"]
  /\ reply' = [reply EXCEPT ![t] = Nothing]
  /\ calls' = calls + 1
  /\ UNCHANGED <<up, work, live, uses>>

Reject(t) ==
  /\ up /\ pc[t] = "dispatch" /\ ~ Accepted(request[t])
  /\ Respond(t, Throws, FALSE, {}, {})
  /\ UNCHANGED uses

ComputeLocally(t) ==
  LET r == request[t]
  IN  /\ up /\ pc[t] = "dispatch" /\ IsLocal(r)
      /\ \E x \in LocalResults(r) :
           IF IsSingle(r) THEN Respond(t, x, FALSE, {}, {})
           ELSE Respond(t, x, FALSE, LocalObjects(r, x), Cleared(r, x))
      /\ UNCHANGED uses

\* The operands of a product or a decryption are decoded.
Decode(t) ==
  LET r == request[t]
  IN  /\ up /\ pc[t] = "dispatch" /\ Accepted(r) /\ ~ IsLocal(r)
      /\ IsDecryption(r) \/ Rank(X(r)) < 3
      /\ live' = [live EXCEPT ![t] = IF IsSingle(r) THEN {} ELSE OperandObjects(r)]
      /\ IF IsDecryption(r)
           THEN /\ pc' = [pc EXCEPT ![t] = "decrypt"]
                /\ UNCHANGED work
           ELSE /\ pc' = [pc EXCEPT ![t] = "draw"]
                /\ \E w \in Products(r) : work' = [work EXCEPT ![t] = w]
      /\ UNCHANGED <<up, request, reply, uses, calls>>

\* The product of tensors of three dimensions or more is not implemented, and
\* a matrix' second size read where there is none may be too large.
ProductThrows(t) ==
  LET r == request[t]
  IN  /\ up /\ pc[t] = "dispatch" /\ Accepted(r) /\ IsProduct(r)
      /\ Rank(X(r)) > 2 \/ (Rank(X(r)) = 2 /\ Rank(Y(r)) = 1)
      /\ Respond(t, Throws, FALSE, OperandObjects(r), {})
      /\ UNCHANGED uses

\* Triplets come for all products at once, and the operands are masked.
\* Vectors of different sizes are found out only then.
Draw(t) ==
  LET r == request[t]
      w == work[t]
      n == Size(w.x)
      fit == w.x.shape = w.y.shape
  IN  /\ up /\ pc[t] = "draw"
      /\ uses' = uses \o [i \in 1..n |-> [a |-> 0, b |-> 0]]
      /\ \E row \in MaskRows :
           \/ /\ fit
              /\ work' = [work EXCEPT ![t] = [x |-> w.x, y |-> w.y, p |-> w.p,
                            triplets |-> Triplets(row, n), e |-> <<>>, f |-> <<>>]]
              /\ live' = [live EXCEPT ![t] = @ \cup TripletObjects(n) \cup
                            (IF IsSingle(r) THEN {} ELSE MaskObjects(n))]
              /\ pc' = [pc EXCEPT ![t] = "first"]
              /\ UNCHANGED <<up, request, reply, calls>>
           \/ /\ ~ fit
              /\ Respond(t, Throws, FALSE,
                         TripletObjects(n) \cup
                         (MaskObjects(n) \ Objects("ct2_neg_b", n)), {})

\* The CoFHE nodes are sent w.x or w.y under masks, and t waits.  What they
\* decrypt is revealed whether or not their answer arrives.
Reveals(triplets, half) ==
  uses' = [i \in DOMAIN uses |->
             [uses[i] EXCEPT ![half] =
                @ + Cardinality({j \in DOMAIN triplets : triplets[j].id = i})]]

RevealFirst(t) ==
  LET w == work[t]
  IN  /\ up /\ pc[t] = "first"
      /\ Reveals(w.triplets, "a")
      /\ work' = [work EXCEPT ![t].e =
                    [i \in 1..Size(w.x) |-> Masked(w.x.data[i], w.triplets[i].a)]]
      /\ live' = [live EXCEPT ![t] = @ \cup (IF IsSingle(request[t]) THEN {}
                                            ELSE Objects("pt1", Size(w.x)))]
      /\ pc' = [pc EXCEPT ![t] = "second"]
      /\ UNCHANGED <<up, request, reply, calls>>

\* The second decryption, and the rest, which is local.
RevealSecond(t) ==
  LET r == request[t]
      n == Size(work[t].x)
      w == [work[t] EXCEPT !.f =
              [i \in 1..n |-> Masked(work[t].y.data[i], work[t].triplets[i].b)]]
      x == ProductOf(r, w)
  IN  /\ up /\ pc[t] = "second"
      /\ Reveals(w.triplets, "b")
      /\ IF IsSingle(r) THEN Respond(t, x, FALSE, {}, TripletObjects(1))
         ELSE Respond(t, x, FALSE,
                      Objects("pt2", n) \cup FinishObjects(r, n, x),
                      FinishCleared(r, n, x))

\* The client's ciphertext is decrypted, and the plaintext encoded.
Decrypt(t) ==
  LET r == request[t]
      plain == Objects("plain", Size(X(r)))
  IN  /\ up /\ pc[t] = "decrypt"
      /\ IF IsSingle(r) THEN Respond(t, X(r), FALSE, {}, {})
         ELSE Respond(t, X(r), FALSE, plain, plain \cup OperandObjects(r))
      /\ UNCHANGED uses

\* A call to another node ends in an exception, which handle_request turns
\* into an ERROR; a decryption may have been made all the same.
RemoteFails(t) ==
  /\ up /\ pc[t] \in Remote
  /\ Respond(t, Throws, TRUE, {}, {})
  /\ CASE pc[t] = "first" ->
            UNCHANGED uses \/ Reveals(work[t].triplets, "a")
       [] pc[t] = "second" ->
            UNCHANGED uses \/ Reveals(work[t].triplets, "b")
       [] OTHER -> UNCHANGED uses

\* A broken connection leaves the response pointer null or unset, and the
\* process dies dereferencing it.
Crash ==
  /\ up /\ \E t \in Threads : pc[t] \in Remote
  /\ up' = FALSE
  /\ pc' = [t \in Threads |-> "idle"]
  /\ request' = Idle
  /\ work' = Idle
  /\ reply' = Idle
  /\ live' = [t \in Threads |-> {}]
  /\ UNCHANGED <<uses, calls>>

Restart ==
  /\ ~ up
  /\ up' = TRUE
  /\ UNCHANGED <<pc, request, work, live, reply, uses, calls>>

Step(t) ==
  \/ Receive(t) \/ Reject(t) \/ ComputeLocally(t) \/ Decode(t)
  \/ ProductThrows(t) \/ Draw(t) \/ RevealFirst(t) \/ RevealSecond(t)
  \/ Decrypt(t) \/ RemoteFails(t)

\* Every call the bound allows was answered.
Finished ==
  /\ up /\ calls = MaxCalls /\ \A t \in Threads : pc[t] = "idle"
  /\ UNCHANGED vars

Next == (\E t \in Threads : Step(t)) \/ Crash \/ Restart \/ Finished

Spec == Init /\ [][Next]_vars

-----------------------------------------------------------------------------
(* Properties.                                                             *)

\* No half of a triplet ever masks two values that are revealed, on whatever
\* threads, and with whatever calls failing in between: two values under one
\* mask give away their difference (smpc/ciphertext_multiplications.hpp).
MasksOnce == \A i \in DOMAIN uses : uses[i].a <= 1 /\ uses[i].b <= 1

\* Every loop that deletes objects deletes objects that are there, though it
\* counts by the size of another tensor; and a response that is no error
\* leaves nothing behind but the two sums the product of tensors drops.
DeletesWhatIsThere ==
  \A t \in Threads :
    LET r == reply[t]
        dropped == {o \in r.left : o[1] \in {"pt1_b + pt2_a", "... + c"}}
    IN  r # Nothing =>
          /\ r.vain = {}
          /\ r.value # Throws =>
               /\ r.left = dropped
               /\ dropped # {} => IsProduct(r.request)

Service == INSTANCE ArithmeticService WITH
  call <- request,
  answer <- [t \in Threads |->
               IF reply[t] = Nothing \/ reply[t].value = Throws THEN Nothing
               ELSE reply[t].value]

\* The handler answers a request that means something with what it means, or
\* with an error: whatever the masks, whatever other threads do meanwhile.
ImplementsService == Service!Spec

\* A request that the handler has a branch for, and that means something, is
\* answered by an error only when another node failed it.
ServesWhatIsMeant ==
  \A t \in Threads :
    reply[t] # Nothing /\ reply[t].value = Throws =>
      \/ reply[t].failed
      \/ ~ Accepted(reply[t].request)
      \/ ~ Service!IsMeant(reply[t].request)

=============================================================================

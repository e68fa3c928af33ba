----------------------------- MODULE NodeServices -----------------------------
(***************************************************************************)
(* A request and its response on their way through the layers: the caller  *)
(* wraps what it asks for, the node unwraps it, dispatches it by the type  *)
(* each layer names (root_request_handler.hpp, setup_node_ and             *)
(* cofhe_node_request_handler.hpp), and the innermost handler's response   *)
(* is wrapped and unwrapped on the way back (client.hpp, nodes.hpp,        *)
(* smpc_client.hpp, client_node.hpp).                                      *)
(*                                                                         *)
(* Every call has a connection of its own here; what pieces its bytes      *)
(* arrive in is the matter of Connection, what is computed is that of      *)
(* ComputeRequests and ThresholdScheme.                                    *)
(***************************************************************************)
EXTENDS NumberFormats

CONSTANTS
  Callers,    \* processes that call the three nodes
  Calls,      \* what they may call
  Key,        \* the numbers of the network's public key
  NodeShares, \* NodeShares[i]: the shares of the i-th CoFHE node to join
  KnownShares,\* the number of shares the CoFHE node has
  TripletRow, \* the 18 numbers of an encrypted triplet
  Nothing,    \* no call, no text, no answer yet
  Lost,       \* the call ended without a response
  MaxCalls    \* bound: the calls made

\* Operands: a tensor with its shape, a single value, or a name, its numbers.
Operands ==
  {o \in [type : {"SINGLE", "TENSOR", "TENSOR_ID"}, encryption : {"PLAINTEXT", "CIPHERTEXT"},
          value : [shape : Seq(Nat), numbers : Seq(Int)]] :
     /\ o.type = "TENSOR" =>
          Len(o.value.numbers) = Elements(o.value.shape) * Numbers(o.encryption)
     /\ o.type # "TENSOR" => o.value.shape = <<>>
     /\ o.type = "SINGLE" => Len(o.value.numbers) = Numbers(o.encryption)}

\* What the services are asked for, and the types none of them knows.
SetupTypes == {"BEAVERS_TRIPLET_REQUEST", "JOIN_AS_NODE_REQUEST", "NetworkDetailsRequest"}
OtherRequests == [type : STRING \ (SetupTypes \cup {"PartialDecryption", "compute"})]
SetupRequests ==
  [type : {"BEAVERS_TRIPLET_REQUEST"}, count : Nat \ {0}]
  \cup [type : {"JOIN_AS_NODE_REQUEST"},
        join : [as : {"JOIN_AS_COFHE_NODE", "JOIN_AS_COMPUTE_NODE"},
                ip : STRING, port : STRING]]
  \cup [type : {"NetworkDetailsRequest"}, ask : STRING] \cup OtherRequests
CofheRequests ==
  [type : {"PartialDecryption"}, share : Nat,
   operand : {o \in Operands : o.encryption = "CIPHERTEXT"}] \cup OtherRequests
ComputingRequests ==
  [arity : STRING, operation : STRING, operands : Seq(Operands) \ {<<>>}]

Services == {"SETUP_REQUEST", "COFHE_REQUEST", "COMPUTE_REQUEST"}
Requests ==
  [node : Services, service : {"SETUP_REQUEST"}, request : SetupRequests]
  \cup [node : Services, service : {"COFHE_REQUEST"}, request : CofheRequests]
  \cup [node : Services, service : {"COMPUTE_REQUEST"}, request : ComputingRequests]

ASSUME ServicesAssumption ==
  /\ KnownShares \in Nat
  /\ TripletRow \in [1..18 -> Int]
  /\ NodeShares \in Seq(Seq(Seq(Int)))
  /\ Calls \subseteq Requests

VARIABLES
  call,     \* call[c]: the call of c that is under way, or its last
  pc,       \* pc[c]: how far it is
  wire,     \* wire[c]: the request, then the response, on the connection
  handled,  \* handled[c]: what the innermost handler was given
  decoded,  \* decoded[c]: the values it decoded from its operands
  answer,   \* answer[c]: who answered, with what status and value
  got,      \* got[c]: what c was told, and the value it decoded
  roster,   \* the nodes in the setup node's network details
  dealt,    \* current_node_m: the CoFHE nodes that have joined
  reading,  \* reading[c]: the roster c's handler reads, and whether it changed
  down,     \* the nodes whose process died
  calls     \* the calls made so far, against MaxCalls

vars == <<call, pc, wire, handled, decoded, answer, got, roster, dealt, reading,
          down, calls>>

served == <<handled, decoded, answer>>
network == <<roster, dealt, reading>>

-----------------------------------------------------------------------------
(* Requests.                                                               *)

Encoded(operand) ==
  [type |-> operand.type, encryption |-> operand.encryption,
   data |-> ValueText(operand.type, operand.value)]

\* What the innermost handler is to be given.
Meant(q) ==
  LET r == q.request
  IN  CASE q.service = "COMPUTE_REQUEST" ->
             [r EXCEPT !.operands = [i \in DOMAIN @ |-> Encoded(@[i])]]
        [] q.service # "COMPUTE_REQUEST" /\ r.type = "PartialDecryption" ->
             [r EXCEPT !.operand = Encoded(@)]
        [] OTHER -> r

SetupText(r) ==
  Framed(<<r.type>>,
    CASE r.type = "BEAVERS_TRIPLET_REQUEST" -> <<Word(r.count)>>
      [] r.type = "JOIN_AS_NODE_REQUEST" -> JoinText(r.join.as, r.join.ip, r.join.port)
      [] r.type = "NetworkDetailsRequest" -> Framed(<<r.ask>>, <<>>)
      [] OTHER -> <<>>)

CofheText(r) ==
  Framed(<<r.type>>,
    IF r.type = "PartialDecryption"
    THEN Framed(<<r.share, r.operand.type>>, r.operand.data) ELSE <<>>)

RequestText(q) ==
  Framed(<<q.service>>,
    CASE q.service = "SETUP_REQUEST" -> SetupText(Meant(q))
      [] q.service = "COFHE_REQUEST" -> CofheText(Meant(q))
      [] OTHER -> ComputeText(Meant(q)))

\* The reverse of the three, in the node.
ReadSetup(text) ==
  LET layer == Read(text)
      type == layer.fields[1]
  IN  CASE layer = Throws -> Throws
        [] layer # Throws /\ type = "BEAVERS_TRIPLET_REQUEST" ->
             [type |-> type, count |-> layer.data[1][2]]
        [] layer # Throws /\ type = "JOIN_AS_NODE_REQUEST" ->
             [type |-> type, join |-> ReadJoin(layer.data)]
        [] layer # Throws /\ type = "NetworkDetailsRequest" ->
             [type |-> type, ask |-> Read(layer.data).fields[1]]
        [] OTHER -> [type |-> type]

ReadCofhe(text) ==
  LET layer == Read(text)
      type == layer.fields[1]
      inner == Read(layer.data)
  IN  CASE layer = Throws -> Throws
        [] layer # Throws /\ type = "PartialDecryption" ->
             [type |-> type, share |-> inner.fields[1],
              operand |-> [type |-> inner.fields[2], encryption |-> "CIPHERTEXT",
                           data |-> inner.data]]
        [] OTHER -> [type |-> type]

\* The size of a request is read into an int: a larger one becomes IntMax.
Body(c) == SubSeq(Tail(wire[c]), 1, Min({IntMax, Len(Tail(wire[c]))}))

Input(c) ==
  CASE call[c].service = "SETUP_REQUEST" -> ReadSetup(Body(c))
    [] call[c].service = "COFHE_REQUEST" -> ReadCofhe(Body(c))
    [] OTHER -> ReadCompute(Body(c))

-----------------------------------------------------------------------------
(* Responses.                                                              *)

\* SetupNodeResponse, CoFHENodeResponse and NetworkDetailsResponse do not use
\* the status they are made with.
SetupResponse(status, data) == Framed(<<"OK">>, data)
CofheResponse(status, data) == Framed(<<"OK">>, data)
DetailsResponse(status, data) == Framed(<<"OK">>, data)

\* BeaversTripletResponse, PartialDecryptionResponse and ComputeResponse do.
ServiceResponse(status, data) == Framed(<<status>>, data)

\* The type and the elements of the value that answers q.
ResultType(q) ==
  CASE q.service = "SETUP_REQUEST" -> "TENSOR"
    [] q.service = "COFHE_REQUEST" -> q.request.operand.type
    [] OTHER -> q.request.operands[1].type
ResultEncryption(q) ==
  CASE q.service = "SETUP_REQUEST" -> "CIPHERTEXT"
    [] q.service = "COFHE_REQUEST" -> "PARTIAL"
    [] OTHER -> IF q.request.operation = "DECRYPT" THEN "PLAINTEXT" ELSE "CIPHERTEXT"

\* What the caller makes of the innermost layer.  A refusal has no value; the
\* SMPC client would decode its reason all the same.
ReadService(q, text) ==
  LET layer == Read(text)
  IN  [told |-> layer.fields[1],
       value |-> IF layer.fields[1] = "ERROR" THEN Nothing
                 ELSE ReadValue(ResultType(q), ResultEncryption(q), layer.data)]

ReadInner(q, text) ==
  LET type == IF q.service = "COMPUTE_REQUEST" THEN "compute" ELSE q.request.type
      join == ReadJoinAnswer(text)
  IN  CASE type \in {"compute", "BEAVERS_TRIPLET_REQUEST", "PartialDecryption"} ->
             ReadService(q, text)
        [] type = "JOIN_AS_NODE_REQUEST" ->
             [told |-> join.status,
              value |-> IF join.status = "ERROR" THEN Nothing
                        ELSE [key |-> join.key, shares |-> join.shares]]
        [] type = "NetworkDetailsRequest" ->
             [told |-> Read(text).fields[1], value |-> Read(text).data[1][2]]
        [] OTHER -> [told |-> "OK", value |-> text[1][2]]

\* The outcomes of T::from_string and of what the caller does then: the status
\* it is told is ERROR when that of either layer is.
Outcomes(q, body) ==
  IF q.service = "COMPUTE_REQUEST"
  THEN {IF Read(body) = Throws THEN Lost ELSE ReadInner(q, body)}
  ELSE {CASE layer = Throws -> Lost
          [] layer = Misread -> Misread
          [] OTHER -> LET inner == ReadInner(q, layer.data)
                      IN  IF layer.fields[1] = "ERROR"
                          THEN [inner EXCEPT !.told = "ERROR"] ELSE inner
        : layer \in ReadLoosely(body)}

-----------------------------------------------------------------------------
(* What the handlers return.                                               *)

Reason(text) == <<Word(text)>>

\* secret_key_shares_m[current_node_m]
SharesOf(i) == NodeShares[i]

Triplets(n) ==
  [shape |-> <<n, 3>>, numbers |-> [j \in 1..(18 * n) |-> TripletRow[((j - 1) % 18) + 1]]]

\* One element of three numbers for each of six.
PartDecrypted(value, share) ==
  [shape |-> value.shape,
   numbers |-> [j \in 1..(Len(value.numbers) \div 2) |->
                  value.numbers[6 * ((j - 1) \div 3) + ((j - 1) % 3) + 1] + share]]

\* What the handler has an operation for.
Supported(r) ==
  \/ /\ r.arity = "UNARY" /\ r.operation = "DECRYPT" /\ Len(r.operands) = 1
     /\ r.operands[1].type \in {"SINGLE", "TENSOR"}
     /\ r.operands[1].encryption = "CIPHERTEXT"
  \/ /\ r.arity = "BINARY" /\ r.operation \in {"ADD", "MULTIPLY"}
     /\ Len(r.operands) = 2 /\ r.operands[1].type \in {"SINGLE", "TENSOR"}
     /\ r.operands[1].type = r.operands[2].type

\* The first operand, decrypted, encrypted or under another encryption; what the
\* result really is, is the matter of ComputeRequests.
Computed(r, value) ==
  CASE r.operation = "DECRYPT" ->
         [shape |-> value.shape,
          numbers |-> [j \in 1..(Len(value.numbers) \div 6) |-> value.numbers[6 * j]]]
    [] r.operation # "DECRYPT" /\ r.operands[1].encryption = "PLAINTEXT" ->
         [shape |-> value.shape,
          numbers |-> [j \in 1..(6 * Len(value.numbers)) |->
                         TripletRow[((j - 1) % 18) + 1]]]
    [] OTHER -> value

-----------------------------------------------------------------------------
(* The calls.                                                              *)

Init ==
  /\ call = [c \in Callers |-> Nothing]
  /\ pc = [c \in Callers |-> "idle"]
  /\ wire = [c \in Callers |-> Nothing]
  /\ handled = [c \in Callers |-> Nothing]
  /\ decoded = [c \in Callers |-> Nothing]
  /\ answer = [c \in Callers |-> Nothing]
  /\ got = [c \in Callers |-> Nothing]
  /\ roster = <<"setup">>
  /\ dealt = 0
  /\ reading = [c \in Callers |-> Nothing]
  /\ down = {}
  /\ calls = 0

Call(c) ==
  /\ pc[c] = "idle" /\ calls < MaxCalls
  /\ \E q \in Calls :
       /\ call' = [call EXCEPT ![c] = q]
       /\ wire' = [wire EXCEPT ![c] = RequestText(q)]
  /\ pc' = [pc EXCEPT ![c] = "sent"]
  /\ handled' = [handled EXCEPT ![c] = Nothing]
  /\ decoded' = [decoded EXCEPT ![c] = Nothing]
  /\ answer' = [answer EXCEPT ![c] = Nothing]
  /\ got' = [got EXCEPT ![c] = Nothing]
  /\ reading' = [reading EXCEPT ![c] = Nothing]
  /\ calls' = calls + 1
  /\ UNCHANGED <<roster, dealt, down>>

Serving(c) == pc[c] = "sent" /\ call[c].node \notin down

\* The call is for a handler of the node, which reads it as `input`.
Takes(c, name) ==
  /\ Serving(c) /\ call[c].node = call[c].service /\ call[c].service = name
  /\ Input(c) # Throws

\* The response of c's call: the root layer says OK whatever is in it.
Respond(c, input, values, by, status, value, text) ==
  /\ handled' = [handled EXCEPT ![c] = input]
  /\ decoded' = [decoded EXCEPT ![c] = values]
  /\ answer' = [answer EXCEPT ![c] = [by |-> by, status |-> status, value |-> value]]
  /\ wire' = [wire EXCEPT ![c] =
                Framed(<<call[c].service, IF by = "root" THEN "ERROR" ELSE "OK">>, text)]
  /\ pc' = [pc EXCEPT ![c] = "answered"]
  /\ UNCHANGED <<call, got, down, calls>>

\* The session of c ends, and with it the call.
EndSession(c) ==
  /\ pc' = [pc EXCEPT ![c] = "idle"]
  /\ wire' = [wire EXCEPT ![c] = Nothing]
  /\ got' = [got EXCEPT ![c] = Lost]
  /\ UNCHANGED <<call, roster, dealt, reading, calls>>

\* The process of a node ends while it handles c's call.
NodeDies(c, input) ==
  /\ down' = down \cup {call[c].node}
  /\ handled' = [handled EXCEPT ![c] = input]
  /\ EndSession(c)
  /\ UNCHANGED <<decoded, answer>>

\* A request for another kind of node.
RefuseService(c) ==
  /\ Serving(c) /\ call[c].node # call[c].service
  /\ Respond(c, Nothing, Nothing, "root", "ERROR", Nothing, Reason("Invalid request type"))
  /\ UNCHANGED network

\* Decoding the request throws, and process_request ends the session.
DecodingThrows(c) ==
  /\ Serving(c) /\ call[c].node = call[c].service /\ Input(c) = Throws
  /\ handled' = [handled EXCEPT ![c] = Throws]
  /\ EndSession(c)
  /\ UNCHANGED <<decoded, answer, down>>

Beavers(c) ==
  LET input == Input(c)
      triplets == Triplets(input.count)
  IN  /\ Takes(c, "SETUP_REQUEST") /\ input.type = "BEAVERS_TRIPLET_REQUEST"
      /\ Respond(c, input, Nothing, "service", "OK", triplets,
                 SetupResponse("OK", ServiceResponse("OK", TensorText(triplets))))
      /\ UNCHANGED network

\* The roster grows under the lock; whoever reads it does not hold it.
Enroll(node) ==
  /\ roster' = Append(roster, node)
  /\ reading' = [c \in Callers |-> IF pc[c] = "reading"
                                   THEN [reading[c] EXCEPT !.raced = TRUE] ELSE reading[c]]

JoinAsCofhe(c) ==
  LET input == Input(c)
      value == [key |-> Key, shares |-> SharesOf(dealt + 1)]
  IN  /\ Takes(c, "SETUP_REQUEST") /\ input.type = "JOIN_AS_NODE_REQUEST"
      /\ input.join.as = "JOIN_AS_COFHE_NODE"
      /\ IF dealt >= Len(NodeShares)
           THEN /\ Respond(c, input, Nothing, "service", "ERROR", Nothing,
                           SetupResponse("OK", JoinRefusal))
                /\ UNCHANGED network
           ELSE /\ Enroll(input.join.ip)
                /\ dealt' = dealt + 1
                /\ Respond(c, input, Nothing, "service", "OK", value,
                           SetupResponse("OK", Granted(value.key, value.shares)))

JoinAsCompute(c) ==
  LET input == Input(c)
  IN  /\ Takes(c, "SETUP_REQUEST") /\ input.type = "JOIN_AS_NODE_REQUEST"
      /\ input.join.as = "JOIN_AS_COMPUTE_NODE"
      /\ Enroll(input.join.ip)
      /\ Respond(c, input, Nothing, "service", "OK", [key |-> <<>>, shares |-> <<>>],
                 SetupResponse("OK", Admitted))
      /\ UNCHANGED dealt

\* network_details() gives up the lock before the details are read.
BeginDetails(c) ==
  /\ Takes(c, "SETUP_REQUEST") /\ Input(c).type = "NetworkDetailsRequest"
  /\ Input(c).ask = "GET"
  /\ reading' = [reading EXCEPT ![c] = [roster |-> roster, raced |-> FALSE]]
  /\ pc' = [pc EXCEPT ![c] = "reading"]
  /\ UNCHANGED <<call, wire, served, got, roster, dealt, down, calls>>

\* Reading nodes that another thread appends to: the old ones, the new ones, or
\* memory that is no longer theirs.
EndDetails(c) ==
  LET input == Input(c)
  IN  /\ pc[c] = "reading" /\ call[c].node \notin down
      /\ \/ /\ \E nodes \in {reading[c].roster, roster} :
                 Respond(c, input, Nothing, "service", "OK", nodes,
                         SetupResponse("OK", DetailsResponse("OK", <<Word(nodes)>>)))
            /\ UNCHANGED network
         \/ reading[c].raced /\ NodeDies(c, input)

SetDetails(c) ==
  LET input == Input(c)
      reason == "SET Not Implemented"
  IN  /\ Takes(c, "SETUP_REQUEST") /\ input.type = "NetworkDetailsRequest"
      /\ input.ask = "SET"
      /\ Respond(c, input, Nothing, "service", "OK", reason,
                 SetupResponse("OK", DetailsResponse("OK", Reason(reason))))
      /\ UNCHANGED network

\* What neither the setup node nor its details have a branch for.
RefuseSetup(c) ==
  LET input == Input(c)
      reason == Reason("Invalid request type")
  IN  /\ Takes(c, "SETUP_REQUEST")
      /\ \/ /\ input.type \notin SetupTypes
            /\ Respond(c, input, Nothing, "dispatch", "ERROR", Nothing,
                       SetupResponse("ERROR", reason))
         \/ /\ input.type = "NetworkDetailsRequest" /\ input.ask \notin {"GET", "SET"}
            /\ Respond(c, input, Nothing, "dispatch", "ERROR", Nothing,
                       SetupResponse("OK", DetailsResponse("ERROR", reason)))
      /\ UNCHANGED network

\* Whatever is neither a partial decryption nor implemented.
RefuseCofhe(c) ==
  LET input == Input(c)
  IN  /\ Takes(c, "COFHE_REQUEST") /\ input.type # "PartialDecryption"
      /\ Respond(c, input, Nothing, "dispatch", "ERROR", Nothing,
                 CofheResponse("ERROR", Reason("Not implemented")))
      /\ UNCHANGED network

\* The share is checked before the type of the data.
PartialDecryption(c) ==
  LET input == Input(c)
      type == input.operand.type
      value == ReadValue(type, "CIPHERTEXT", input.operand.data)
      result == PartDecrypted(value, input.share)
  IN  /\ Takes(c, "COFHE_REQUEST") /\ input.type = "PartialDecryption"
      /\ CASE input.share >= KnownShares \/ type = "TENSOR_ID" ->
                Respond(c, input, Nothing, "service", "ERROR", Nothing,
                        CofheResponse("OK", ServiceResponse("ERROR", Reason("Refused"))))
                /\ UNCHANGED network
           [] input.share < KnownShares /\ type # "TENSOR_ID" /\ value # Dies ->
                Respond(c, input, <<value>>, "service", "OK", result,
                        CofheResponse("OK", ServiceResponse("OK", ValueText(type, result))))
                /\ UNCHANGED network
           [] OTHER -> NodeDies(c, input)

\* What the operands were meant to be is not known to the node: data that was
\* shifted or cut is decoded to whatever it may be, or reads out of bounds.
Values(c, input) ==
  [i \in DOMAIN input.operands |->
     IF input = Meant(call[c])
     THEN ReadValue(input.operands[i].type, input.operands[i].encryption,
                    input.operands[i].data)
     ELSE Misread]

\* The operation may fail whatever the operands are, and one by name must.
ComputeFails(c) ==
  LET input == Input(c)
  IN  /\ Takes(c, "COMPUTE_REQUEST")
      /\ Respond(c, input, Nothing, "service", "ERROR", Nothing,
                 ServiceResponse("ERROR", Reason("Error")))
      /\ UNCHANGED network

Compute(c) ==
  LET input == Input(c)
      first == input.operands[1]
      values == Values(c, input)
      result == Computed(input, values[1])
  IN  /\ Takes(c, "COMPUTE_REQUEST") /\ Supported(input)
      /\ CASE \E i \in DOMAIN values : values[i] = Dies -> NodeDies(c, input)
           [] \E i \in DOMAIN values : values[i] = Misread ->
                \/ NodeDies(c, input)
                \/ /\ Respond(c, input, Nothing, "service", "OK", Misread,
                        ServiceResponse("OK", ValueText(first.type,
                          [shape |-> <<1>>, numbers |->
                             SubSeq(TripletRow, 1, Numbers(ResultEncryption(call[c])))])))
                   /\ UNCHANGED network
           [] OTHER ->
                /\ Respond(c, input, values, "service", "OK", result,
                           ServiceResponse("OK", ValueText(first.type, result)))
                /\ UNCHANGED network

\* The client reads what follows the line of the root layer, whose status it
\* does not look at.
Receive(c) ==
  /\ pc[c] = "answered"
  /\ \E outcome \in Outcomes(call[c], Tail(wire[c])) : got' = [got EXCEPT ![c] = outcome]
  /\ pc' = [pc EXCEPT ![c] = "idle"]
  /\ wire' = [wire EXCEPT ![c] = Nothing]
  /\ UNCHANGED <<call, served, network, down, calls>>

\* The connection to a node that died fails.
Disconnected(c) ==
  /\ pc[c] \in {"sent", "reading"} /\ call[c].node \in down
  /\ EndSession(c)
  /\ UNCHANGED <<served, down>>

\* Every call the bound allows was made and ended.
Finished ==
  /\ calls = MaxCalls /\ \A c \in Callers : pc[c] = "idle"
  /\ UNCHANGED vars

Next ==
  \/ \E c \in Callers :
       \/ Call(c) \/ RefuseService(c) \/ DecodingThrows(c) \/ Beavers(c)
       \/ JoinAsCofhe(c) \/ JoinAsCompute(c) \/ BeginDetails(c) \/ EndDetails(c)
       \/ SetDetails(c) \/ RefuseSetup(c) \/ RefuseCofhe(c) \/ PartialDecryption(c)
       \/ ComputeFails(c) \/ Compute(c) \/ Receive(c) \/ Disconnected(c)
  \/ Finished

Spec == Init /\ [][Next]_vars

-----------------------------------------------------------------------------
(* Properties.                                                             *)

\* The data of an operand loses what it begins with when that reads as white
\* space, and a text that ends with an empty operand cannot be read.
LosesData(q) ==
  LET operands == Meant(q).operands
      n == Len(operands)
  IN  q.service = "COMPUTE_REQUEST" /\
        (\/ \E i \in 1..n : operands[i].data # <<>> /\ IsSpace(operands[i].data[1])
         \/ operands[n].data = <<>>)

RequestSize(q) == Len(Tail(RequestText(q)))

\* What the innermost handler is given is what the caller meant, through every
\* layer: unless an operand of a request to compute begins with a white-space
\* byte or the last one is empty (compute_request_handler.hpp:133), and then
\* never, or the request is larger than an int can say
\* (request_response.hpp:283): then the other requests are not handled at all,
\* and a request to compute is handled cut, as if it had been sent like that.
HandledAsSent ==
  \A c \in Callers : handled[c] # Nothing =>
    LET q == call[c]
    IN  IF RequestSize(q) <= IntMax THEN handled[c] = Meant(q) <=> ~ LosesData(q)
        ELSE /\ handled[c] = Throws \/ q.service = "COMPUTE_REQUEST"
             /\ handled[c] = Meant(q) => RequestSize(q) = IntMax + 1

\* A caller is told ERROR exactly when the innermost service refused.  What the
\* dispatch of the setup or the CoFHE node refuses is told as OK with the reason
\* in the place of the value (setup_node_request_handler.hpp:60), and what the
\* root refuses is never told: no response, or one that is misread.
RefusalsTold ==
  \A c \in Callers : got[c] \notin {Nothing, Lost} =>
    /\ answer[c].by = "root" <=> got[c] = Misread
    /\ got[c] # Misread =>
         (got[c].told = "ERROR" <=>
            answer[c].status = "ERROR" /\ answer[c].by = "service")

\* A value as the other side of the connection decodes it.
AsReceived(type, encryption, value) ==
  IF type = "TENSOR" /\ encryption = "PLAINTEXT"
  THEN [value EXCEPT !.shape = <<Elements(value.shape)>>] ELSE value

\* What a service answers arrives whole: the key and every share of a node that
\* joins, the details, triplets and results.  The details are the roster as it
\* was while they were read, unless another node joined meanwhile.  An answer
\* is lost only where the request was refused by the root, could not be
\* decoded, or found the node dead.
AnswersArrive ==
  \A c \in Callers :
    LET q == call[c]
        a == answer[c]
        isValue == q.service # "SETUP_REQUEST"
                   \/ q.request.type = "BEAVERS_TRIPLET_REQUEST"
    IN  /\ got[c] = Lost =>
             \/ a # Nothing /\ a.by = "root"
             \/ handled[c] = Throws \/ q.node \in down
        /\ (got[c] \notin {Nothing, Lost, Misread} /\ a.status = "OK"
             /\ a.value # Misread) =>
               got[c].value = IF isValue
                              THEN AsReceived(ResultType(q), ResultEncryption(q), a.value)
                              ELSE a.value
        /\ a # Nothing /\ reading[c] # Nothing /\ ~ reading[c].raced =>
             a.value = reading[c].roster

\* A node decodes from its operands the numbers that the caller encoded, with
\* their signs, in their order and in their shape, but a tensor of plaintexts
\* comes flat; and it dies decoding only a tensor without elements, or data
\* that is not what was sent.
TensorsSurvive ==
  \A c \in Callers :
    LET q == call[c]
        operands == IF q.service = "COMPUTE_REQUEST" THEN q.request.operands
                    ELSE <<q.request.operand>>
        Empty(o) == o.type = "TENSOR" /\ Elements(o.value.shape) = 0
    IN  /\ decoded[c] # Nothing =>
             decoded[c] = [i \in DOMAIN operands |->
               AsReceived(operands[i].type, operands[i].encryption, operands[i].value)]
        /\ (got[c] = Lost /\ answer[c] = Nothing /\ handled[c] \notin {Nothing, Throws}
             /\ q.service # "SETUP_REQUEST") =>
               handled[c] # Meant(q) \/ \E i \in DOMAIN operands : Empty(operands[i])

=============================================================================

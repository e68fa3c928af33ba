---------------------------- MODULE Connection ----------------------------
(***************************************************************************)
(* One connection between a Client (include/node/client.hpp) and a Session *)
(* of a Server (include/node/server.hpp), after the TLS handshake.         *)
(*                                                                         *)
(* Both ends frame messages in the same way: a header line that ends in a  *)
(* newline and tells the size of the data, then the data.  Both read the   *)
(* line with async_read_until, which may take bytes of the data along, and *)
(* what is missing of the data with async_read(transfer_exactly(...)).     *)
(* The data begins with a header line of its own (every request and every  *)
(* answer of the nodes does), so newlines are found in it, too.            *)
(*                                                                         *)
(* The network delivers bytes in order and in pieces of any size, until    *)
(* the connection is cut.  A Client makes one call at a time.  Messages    *)
(* are below 2^31 bytes: RequestHeader::from_string reads the size into an *)
(* int (include/node/request_response.hpp:283).                            *)
(***************************************************************************)
EXTENDS Naturals, Sequences

CONSTANTS
  MaxCalls,    \* bound: calls made on the connection
  DataSizes    \* the sizes of the data of a request or an answer

ASSUME ConnectionAssumption ==
  /\ MaxCalls \in Nat
  /\ DataSizes \subseteq Nat \ {0}
  /\ \E n \in DataSizes : \A m \in DataSizes : m <= n   \* data_size is an int

VARIABLES
  phase,     \* phase[e]: which callback of end e is due
  open,      \* open[e]: end e has not closed its socket
  out,       \* out[e]: write_buffer
  buf,       \* buf[e]: read_buffer
  size,      \* size[e]: the data size of the header last read
  keepAlive, \* keep_session_alive_m of the client
  need,      \* need[e]: bytes transfer_exactly still waits for
  inbox,     \* inbox[e]: the bytes on their way to end e
  link,      \* the connection is not cut
  calls,     \* the number of calls of Client::run so far
  res,       \* res[k]: the message *res of call k holds, 0 when left unset
  executed   \* history: the calls the request handler has run for

ends == <<phase, open, keepAlive, out, buf, size, need>>
vars == <<ends, inbox, link, calls, res, executed>>

Ends == {"client", "server"}
Peer(e) == CHOOSE f \in Ends : f # e

-----------------------------------------------------------------------------
(* Messages.                                                               *)

\* A header takes two bytes, the second one the newline.
HeaderLength == 2

\* A byte knows its place in the message, the message's number, the size of
\* the data, and whether the other end will be able to parse the data.
Message(k, n, ok) ==
  [i \in 1..(HeaderLength + n) |-> [of |-> k, at |-> i, data |-> n, ok |-> ok]]

\* The header's newline, and the one of the line the data begins with.
IsNewline(b) == b.at \in {HeaderLength, HeaderLength + 1}

HasLine(s) == \E i \in 1..Len(s) : IsNewline(s[i])
LineLength(s) ==
  CHOOSE i \in 1..Len(s) : IsNewline(s[i]) /\ \A j \in 1..(i - 1) : ~IsNewline(s[j])

\* RequestHeader::from_string and ResponseHeader::from_string: the size in the
\* header; of another line, whatever the uninitialised data_size holds.
ReadSizes(line) ==
  IF Len(line) = HeaderLength /\ line[1].at = 1 THEN {line[1].data}
                                                ELSE DataSizes \cup {0}

\* The data of one message, whole.
IsData(s) ==
  Len(s) > 0 /\ \A i \in 1..Len(s) :
                  s[i] = [s[1] EXCEPT !.at = HeaderLength + i, !.data = Len(s)]

Rest(s, n) == SubSeq(s, n + 1, Len(s))

-----------------------------------------------------------------------------
Init ==
  /\ phase = [e \in Ends |-> IF e = "client" THEN "idle" ELSE "head"]
  /\ open = [e \in Ends |-> TRUE]
  /\ keepAlive \in BOOLEAN
  /\ out = [e \in Ends |-> <<>>]
  /\ buf = [e \in Ends |-> <<>>]
  /\ size = [e \in Ends |-> 0]
  /\ need = [e \in Ends |-> 0]
  /\ inbox = [e \in Ends |-> <<>>]
  /\ link = TRUE
  /\ calls = 0
  /\ res = [k \in 1..MaxCalls |-> 0]
  /\ executed = <<>>

Goes(e, p) == phase' = [phase EXCEPT ![e] = p]
Over(e) == IF e = "client" THEN "idle" ELSE "ended"

\* end_session; the client's run has nothing left to wait for and returns.
Closes(e) ==
  /\ Goes(e, Over(e))
  /\ open' = [open EXCEPT ![e] = FALSE]

Broken(e) == ~link \/ ~open[e] \/ ~open[Peer(e)]

-----------------------------------------------------------------------------
(* Reading and writing, the same at both ends.                             *)

\* do_write.  What is written to a connection that is no longer there may
\* seem to go well.
Write(e) ==
  /\ phase[e] = "write"
  /\ open[e]
  /\ inbox' = [inbox EXCEPT ![Peer(e)] = IF Broken(e) THEN @ ELSE @ \o out[e]]
  /\ Goes(e, "sent")
  /\ UNCHANGED <<keepAlive, open, out, buf, size, need, link, calls, res, executed>>

\* The write's callback calls do_read; the other end may have answered.
Written(e) ==
  /\ phase[e] = "sent"
  /\ Goes(e, "head")
  /\ UNCHANGED <<keepAlive, open, out, buf, size, need, inbox, link, calls, res, executed>>

WriteFails(e) ==
  /\ phase[e] = "write"
  /\ Broken(e)
  /\ Closes(e)
  /\ UNCHANGED <<keepAlive, out, buf, size, need, inbox, link, calls, res, executed>>

Reads(e) == \/ phase[e] = "head" /\ ~HasLine(buf[e])
            \/ phase[e] = "data" /\ need[e] > 0

\* m bytes arrive: async_read_until takes what there is, transfer_exactly no
\* more than it waits for.
Receive(e, m) ==
  /\ Reads(e)
  /\ m <= Len(inbox[e])
  /\ phase[e] = "data" => m <= need[e]
  /\ buf' = [buf EXCEPT ![e] = @ \o SubSeq(inbox[e], 1, m)]
  /\ inbox' = [inbox EXCEPT ![e] = Rest(@, m)]
  /\ need' = [need EXCEPT ![e] = IF phase[e] = "data" THEN @ - m ELSE @]
  /\ UNCHANGED <<keepAlive, phase, open, out, size, link, calls, res, executed>>

\* Everything that was under way has arrived, and no more will come.
ReadFails(e) ==
  /\ Reads(e)
  /\ inbox[e] = <<>>
  /\ Broken(e)
  /\ Closes(e)
  /\ UNCHANGED <<keepAlive, out, buf, size, need, inbox, link, calls, res, executed>>

\* Mutant: what was read along with the line is not counted.
MissingAll(n, got) == IF n > got THEN n ELSE 0

\* How many bytes transfer_exactly is asked for; none when all are there.
Missing(n, got) == IF n > got THEN n - got ELSE 0

\* The callback of async_read_until.
ReadHeader(e) ==
  /\ phase[e] = "head"
  /\ HasLine(buf[e])
  /\ LET l == LineLength(buf[e])
     IN  \E n \in ReadSizes(SubSeq(buf[e], 1, l)) :
           /\ size' = [size EXCEPT ![e] = n]
           /\ need' = [need EXCEPT ![e] = Missing(n, Len(buf[e]) - l)]
           /\ buf' = [buf EXCEPT ![e] = Rest(@, l)]
  /\ Goes(e, "data")
  /\ UNCHANGED <<keepAlive, open, out, inbox, link, calls, res, executed>>

Complete(e) == phase[e] = "data" /\ need[e] = 0
Data(e) == SubSeq(buf[e], 1, size[e])

\* Mutant: the data stays in the buffer.
KeepsData(e) == buf[e]

\* data.erase(0, header.data_size())
WithoutData(e) == Rest(buf[e], size[e])

-----------------------------------------------------------------------------
(* The client.                                                             *)

\* Mutant: the request is appended to the last one.
AppendedRequest(msg) == out["client"] \o msg

\* write_buffer = req.to_string()
RequestBuffer(msg) == msg

\* run: from the second call on, io_context_m has stopped, and the read
\* buffer is cleared.
Run(n) ==
  /\ phase["client"] = "idle"
  /\ calls < MaxCalls
  /\ calls' = calls + 1
  /\ out' = [out EXCEPT !["client"] = RequestBuffer(Message(calls + 1, n, TRUE))]
  /\ buf' = [buf EXCEPT !["client"] = IF calls = 0 THEN @ ELSE <<>>]
  /\ Goes("client", "write")
  /\ UNCHANGED <<keepAlive, open, size, need, inbox, link, res, executed>>

\* process_request: the answer parses, *res is set, and a session not kept
\* alive is ended.
Deliver ==
  /\ Complete("client")
  /\ IsData(Data("client")) /\ Data("client")[1].ok
  /\ res' = [res EXCEPT ![calls] = Data("client")[1].of]
  /\ buf' = [buf EXCEPT !["client"] = WithoutData("client")]
  /\ IF keepAlive THEN Goes("client", "idle") /\ UNCHANGED open
                  ELSE Closes("client")
  /\ UNCHANGED <<keepAlive, out, size, need, inbox, link, calls, executed>>

\* process_request: from_string throws.
DeliverFails ==
  /\ Complete("client")
  /\ ~(IsData(Data("client")) /\ Data("client")[1].ok)
  /\ Closes("client")
  /\ UNCHANGED <<keepAlive, out, buf, size, need, inbox, link, calls, res, executed>>

\* set_session_alive, between two calls.
SetSessionAlive(b) ==
  /\ phase["client"] = "idle"
  /\ calls < MaxCalls
  /\ keepAlive' = b
  /\ UNCHANGED <<phase, open, out, buf, size, need, inbox, link, calls, res, executed>>

\* close, between two calls.
CloseClient ==
  /\ phase["client"] = "idle"
  /\ Closes("client")
  /\ UNCHANGED <<keepAlive, out, buf, size, need, inbox, link, calls, res, executed>>

-----------------------------------------------------------------------------
(* The session.                                                            *)

\* process_request, up to the call of the handler.
Process ==
  /\ Complete("server")
  /\ Goes("server", "handle")
  /\ UNCHANGED <<keepAlive, open, out, buf, size, need, inbox, link, calls, res, executed>>

Handling == phase["server"] = "handle"
Request == Data("server")

\* Mutant: the answer is appended to the last one.
AppendedAnswer(msg) == out["server"] \o msg

\* write_buffer = res.to_string()
AnswerBuffer(msg) == msg

Answers(msg) ==
  /\ out' = [out EXCEPT !["server"] = AnswerBuffer(msg)]
  /\ buf' = [buf EXCEPT !["server"] = WithoutData("server")]
  /\ Goes("server", "write")
  /\ UNCHANGED open

\* The handler of the node runs; its answer has n bytes.
Handle(n) ==
  /\ Handling
  /\ IsData(Request)
  /\ Answers(Message(Request[1].of, n, TRUE))
  /\ executed' = Append(executed, Request[1].of)
  /\ UNCHANGED <<keepAlive, size, need, inbox, link, calls, res>>

\* The request is for another service: "Invalid request type", which the
\* client cannot parse as an answer.
Refuse(n) ==
  /\ Handling
  /\ IsData(Request)
  /\ Answers(Message(Request[1].of, n, FALSE))
  /\ UNCHANGED <<keepAlive, size, need, inbox, link, calls, res, executed>>

\* The request does not parse, or the handler throws, after it has done its
\* work or before.
HandlerThrows ==
  /\ Handling
  /\ Closes("server")
  /\ buf' = [buf EXCEPT !["server"] = WithoutData("server")]
  /\ \/ UNCHANGED executed
     \/ IsData(Request) /\ executed' = Append(executed, Request[1].of)
  /\ UNCHANGED <<keepAlive, out, size, need, inbox, link, calls, res>>

-----------------------------------------------------------------------------
\* The connection is cut, and with it all but the beginning of what is under
\* way in either direction.
Cut(i, j) ==
  /\ link
  /\ link' = FALSE
  /\ i <= Len(inbox["client"]) /\ j <= Len(inbox["server"])
  /\ inbox' = [e \in Ends |-> SubSeq(inbox[e], 1, IF e = "client" THEN i ELSE j)]
  /\ UNCHANGED <<ends, calls, res, executed>>

\* No call is under way and the bound allows no more.
Finished == phase["client"] = "idle" /\ calls = MaxCalls /\ UNCHANGED vars

Longest == HeaderLength + (CHOOSE n \in DataSizes : \A m \in DataSizes : m <= n)

Step(e) ==
  \/ Write(e) \/ Written(e) \/ WriteFails(e)
  \/ \E m \in 1..Longest : Receive(e, m)
  \/ ReadFails(e) \/ ReadHeader(e)

ClientStep == Step("client") \/ Deliver \/ DeliverFails

SessionStep ==
  \/ Step("server") \/ Process \/ HandlerThrows
  \/ \E n \in DataSizes : Handle(n) \/ Refuse(n)

Next ==
  \/ ClientStep \/ SessionStep
  \/ \E n \in DataSizes : Run(n)
  \/ \E b \in BOOLEAN : SetSessionAlive(b)
  \/ CloseClient
  \/ \E i, j \in 0..Longest : Cut(i, j)
  \/ Finished

Spec == Init /\ [][Next]_vars

\* Both io_contexts run their callbacks, bytes under way arrive, and the
\* handler comes to an end.
FairSpec == Spec /\ WF_vars(ClientStep) /\ WF_vars(SessionStep)

-----------------------------------------------------------------------------
(* Properties.                                                             *)

Bytes == [of : 1..MaxCalls, at : 1..Longest, data : DataSizes, ok : BOOLEAN]

\* The shape of the state; what is read of the data and what is waited for
\* make up the size in the header.
TypeOK ==
  /\ phase["client"] \in {"idle", "write", "sent", "head", "data"}
  /\ phase["server"] \in {"head", "data", "handle", "write", "sent", "ended"}
  /\ open \in [Ends -> BOOLEAN]
  /\ keepAlive \in BOOLEAN
  /\ \A e \in Ends : /\ {out[e], buf[e], inbox[e]} \subseteq Seq(Bytes)
                     /\ size[e] \in DataSizes \cup {0}
                     /\ need[e] \in Nat
                     /\ phase[e] = "data" => Len(buf[e]) + need[e] = size[e]
  /\ link \in BOOLEAN
  /\ calls \in 0..MaxCalls
  /\ res \in [1..MaxCalls -> 0..MaxCalls]
  /\ executed \in Seq(1..MaxCalls)

\* Between two calls on a connection that is in order, nothing is left over,
\* in a buffer or on the way, that the next call could take for its own, and
\* the session has read, or is about to read, from the start of a header.
Aligned ==
  phase["client"] = "idle" /\ open["client"] /\ link =>
    /\ \A e \in Ends : buf[e] = <<>> /\ inbox[e] = <<>>
    /\ phase["server"] \in {"sent", "head"}

\* However the bytes are cut into pieces, a call gets the answer to its own
\* request or none; the handler runs at most once for it, and for the calls
\* in the order in which they were made.  A client that failed once never gets
\* an answer again: nothing reopens its connection.
Calls == INSTANCE RemoteCall WITH
  begun <- calls, busy <- phase["client"] # "idle", answer <- res
ImplementsCalls == Calls!Spec

\* Every call returns, with an answer or without: no split of the bytes makes
\* an end wait for bytes that were already read.
RunReturns == phase["client"] # "idle" ~> phase["client"] = "idle"

=============================================================================

-------------------------- MODULE ConnectionProofs --------------------------
(***************************************************************************)
(* Proofs about a connection, for any number of calls, any sizes of data   *)
(* and any pieces in which the bytes arrive: its types, that nothing of    *)
(* one call is left over for the next, and that the two ends implement the *)
(* calls of RemoteCall, whatever fails and wherever the connection is cut. *)
(***************************************************************************)
EXTENDS Connection, SequenceTheorems, TLAPS

-----------------------------------------------------------------------------
(* The strengthening.                                                      *)

Phases(e) == IF e = "client" THEN {"idle", "write", "sent", "head", "data"}
             ELSE {"head", "data", "handle", "write", "sent", "ended"}

\* The types, and which phases go with a closed socket.
Shape ==
  /\ phase \in [Ends -> {"idle", "write", "sent", "head", "data", "handle", "ended"}]
  /\ \A e \in Ends : phase[e] \in Phases(e)
  /\ open \in [Ends -> BOOLEAN]
  /\ phase["server"] = "ended" <=> ~open["server"]
  /\ ~open["client"] => phase["client"] \in {"idle", "write"}
  /\ keepAlive \in BOOLEAN
  /\ out \in [Ends -> Seq(Bytes)]
  /\ buf \in [Ends -> Seq(Bytes)]
  /\ inbox \in [Ends -> Seq(Bytes)]
  /\ size \in [Ends -> DataSizes \cup {0}]
  /\ need \in [Ends -> Nat]
  /\ link \in BOOLEAN
  /\ calls \in 0..MaxCalls
  /\ phase["client"] # "idle" => calls > 0
  /\ res \in [1..MaxCalls -> 0..MaxCalls]
  /\ executed \in Seq(1..MaxCalls)

Byte(k, n, ok, i) == [of |-> k, at |-> i, data |-> n, ok |-> ok]

\* s is the piece of the message k, with n bytes of data, behind its first a bytes.
Part(s, k, n, ok, a) ==
  /\ a + Len(s) <= HeaderLength + n
  /\ \A i \in 1..Len(s) : s[i] = Byte(k, n, ok, a + i)

\* The bytes of the message that are neither in the buffer nor to come.
Consumed(e) == IF phase[e] \in {"data", "handle"} THEN HeaderLength ELSE 0

\* What e has read and what is on its way to e are of one message, from its
\* beginning and without a gap, and e counts them right.
Stream(e, k, n, ok) ==
  /\ Part(buf[e], k, n, ok, Consumed(e))
  /\ Part(inbox[e], k, n, ok, Consumed(e) + Len(buf[e]))
  /\ phase[e] \in {"data", "handle"} => size[e] = n /\ need[e] = n - Len(buf[e])

Clean(e) == buf[e] = <<>> /\ inbox[e] = <<>>

\* The session waits for a request, of which it has read nothing.
Rests == ~open["server"] \/ (phase["server"] \in {"sent", "head"} /\ Clean("server"))

Fresh(k) == \A j \in Calls!Executed : j < k

\* The session reads call k, or handles it.
Serves(k) ==
  /\ phase["server"] \in {"sent", "head", "data", "handle"}
  /\ phase["server"] = "sent" => buf["server"] = <<>>
  /\ phase["server"] = "handle" => need["server"] = 0
  /\ \E n \in DataSizes : Stream("server", k, n, TRUE)
  /\ Fresh(k)

\* The session is about to write its answer to call k.
AnswerDue(k) ==
  /\ phase["server"] = "write"
  /\ Clean("server")
  /\ \E n \in DataSizes, ok \in BOOLEAN :
       /\ out["server"] = Message(k, n, ok)
       /\ ok => k \in Calls!Executed

\* The session can go on with the next call.
InStep == Rests /\ (link => open["server"])

Between == phase["client"] = "idle" /\ Clean("client") /\ InStep
Begun == phase["client"] = "write" /\ Clean("client") /\ InStep /\ Fresh(calls)
Waiting ==
  /\ phase["client"] \in {"sent", "head"}
  /\ Clean("client")
  /\ Serves(calls) \/ AnswerDue(calls)

\* The answer is under way, or will never come.
Answered ==
  /\ phase["client"] \in {"sent", "head", "data"}
  /\ phase["client"] = "sent" => buf["client"] = <<>>
  /\ Rests
  /\ \E n \in DataSizes, ok \in BOOLEAN :
       Stream("client", calls, n, ok) /\ (ok => calls \in Calls!Executed)
  /\ link /\ ~open["server"] => phase["client"] # "data" /\ Clean("client")

\* The client has closed its socket; the session goes on, with one of its calls.
Gone == Rests \/ \E k \in 1..calls : Serves(k) \/ AnswerDue(k)

Protocol == IF open["client"] THEN Between \/ Begun \/ Waiting \/ Answered ELSE Gone

\* What the client writes next.
Requested ==
  phase["client"] = "write" =>
    \E n \in DataSizes : out["client"] = Message(calls, n, TRUE)

\* The calls of a client that has not closed its socket were all answered.
Results ==
  open["client"] =>
    \A k \in 1..calls : res[k] # 0 \/ (k = calls /\ phase["client"] # "idle")

\* The session runs the handler for calls the client has made.
Past == \A j \in Calls!Executed : j <= calls

IInv == Shape /\ Protocol /\ Requested /\ Results /\ Past

-----------------------------------------------------------------------------
(* Ends, messages and pieces of messages.                                  *)

LEMMA Peers ==
  /\ Peer("client") = "server" /\ Peer("server") = "client"
  /\ \A e \in Ends : Peer(e) \in Ends /\ Peer(e) # e
<1>1. Peer("client") = "server"
  BY Zenon DEF Peer, Ends
<1>2. Peer("server") = "client"
  BY Zenon DEF Peer, Ends
<1> QED BY <1>1, <1>2 DEF Ends

LEMMA LongestIsLongest ==
  Longest \in Nat /\ \A n \in DataSizes : HeaderLength + n \in 1..Longest
<1> DEFINE max == CHOOSE n \in DataSizes : \A m \in DataSizes : m <= n
<1>1. max \in DataSizes /\ \A m \in DataSizes : m <= max
  BY ConnectionAssumption
<1> HIDE DEF max
<1>2. Longest = HeaderLength + max
  BY DEF Longest, max
<1> QED BY <1>1, <1>2, ConnectionAssumption DEF HeaderLength

LEMMA ByteType ==
  ASSUME NEW k \in 1..MaxCalls, NEW n \in DataSizes, NEW ok \in BOOLEAN,
         NEW i \in 1..(HeaderLength + n)
  PROVE  Byte(k, n, ok, i) \in Bytes
<1>1. n \in Nat /\ i \in 1..Longest
  BY LongestIsLongest, ConnectionAssumption DEF HeaderLength
<1> QED BY <1>1 DEF Byte, Bytes

\* A message is a piece of itself.
LEMMA MessageIs ==
  ASSUME NEW k \in 1..MaxCalls, NEW n \in DataSizes, NEW ok \in BOOLEAN
  PROVE  /\ Message(k, n, ok) \in Seq(Bytes)
         /\ Len(Message(k, n, ok)) = HeaderLength + n
         /\ Part(Message(k, n, ok), k, n, ok, 0)
<1> DEFINE l == HeaderLength + n
<1>0. l \in Nat
  BY ConnectionAssumption DEF HeaderLength
<1>1. Message(k, n, ok) = [i \in 1..l |-> Byte(k, n, ok, i)]
  BY DEF Message, Byte
<1>2. \A i \in 1..l : Byte(k, n, ok, i) \in Bytes
  BY ByteType
<1> HIDE DEF l
<1>3. [i \in 1..l |-> Byte(k, n, ok, i)] \in Seq(Bytes)
  BY <1>0, <1>2, IsASeq
<1>4. Len(Message(k, n, ok)) = l
  BY <1>0, <1>1
<1>5. \A i \in 1..l : Message(k, n, ok)[i] = Byte(k, n, ok, 0 + i)
  BY <1>0, <1>1
<1> QED BY <1>0, <1>1, <1>3, <1>4, <1>5 DEF Part, l

LEMMA NothingIsPart ==
  ASSUME NEW k, NEW n \in DataSizes, NEW ok
  PROVE  Part(<<>>, k, n, ok, 0)
  BY ConnectionAssumption DEF Part, HeaderLength

\* What begins where everything has been read is empty.
LEMMA PartOfNothing ==
  ASSUME NEW s \in Seq(Bytes), NEW k, NEW n \in DataSizes, NEW ok,
         Part(s, k, n, ok, HeaderLength + n)
  PROVE  s = <<>>
<1>1. Len(s) = 0
  BY ConnectionAssumption, LenProperties DEF Part, HeaderLength
<1> QED BY <1>1, EmptySeq

LEMMA PrefixIsPart ==
  ASSUME NEW s \in Seq(Bytes), NEW m \in Nat, m <= Len(s)
  PROVE  /\ SubSeq(s, 1, m) \in Seq(Bytes)
         /\ Len(SubSeq(s, 1, m)) = m
         /\ \A i \in 1..m : SubSeq(s, 1, m)[i] = s[i]
         /\ \A k, ok : \A n \in DataSizes, a \in Nat :
              Part(s, k, n, ok, a) => Part(SubSeq(s, 1, m), k, n, ok, a)
<1>1. \A i \in 1..m : s[i] \in Bytes
  BY ElementOfSeq, LenProperties
<1>2. /\ SubSeq(s, 1, m) \in Seq(Bytes)
      /\ Len(SubSeq(s, 1, m)) = m
      /\ \A i \in 1..m : SubSeq(s, 1, m)[i] = s[i]
  BY <1>1, SubSeqProperties
<1>3. Len(s) \in Nat
  BY LenProperties
<1> QED BY <1>2, <1>3, ConnectionAssumption DEF Part, HeaderLength

LEMMA RestIsPart ==
  ASSUME NEW s \in Seq(Bytes), NEW m \in Nat, m <= Len(s)
  PROVE  /\ Rest(s, m) \in Seq(Bytes)
         /\ Len(Rest(s, m)) = Len(s) - m
         /\ \A k, ok : \A n \in DataSizes, a \in Nat :
              Part(s, k, n, ok, a) => Part(Rest(s, m), k, n, ok, a + m)
<1>0. Len(s) \in Nat
  BY LenProperties
<1>1. \A i \in (m + 1)..Len(s) : s[i] \in Bytes
  BY <1>0, ElementOfSeq
<1>2. /\ Rest(s, m) \in Seq(Bytes)
      /\ Len(Rest(s, m)) = Len(s) - m
      /\ \A i \in 1..(Len(s) - m) : Rest(s, m)[i] = s[m + i]
  BY <1>0, <1>1, SubSeqProperties DEF Rest
<1>3. ASSUME NEW k, NEW ok, NEW n \in DataSizes, NEW a \in Nat, Part(s, k, n, ok, a)
      PROVE  Part(Rest(s, m), k, n, ok, a + m)
  <2>1. n \in Nat
    BY ConnectionAssumption
  <2>2. (a + m) + Len(Rest(s, m)) <= HeaderLength + n
    BY <1>0, <1>2, <1>3, <2>1 DEF Part, HeaderLength
  <2>3. ASSUME NEW i \in 1..Len(Rest(s, m))
        PROVE  Rest(s, m)[i] = Byte(k, n, ok, (a + m) + i)
    <3>1. m + i \in 1..Len(s) /\ a + (m + i) = (a + m) + i
      BY <1>0, <1>2
    <3> QED BY <1>0, <1>2, <1>3, <3>1 DEF Part
  <2> QED BY <2>2, <2>3 DEF Part
<1> QED BY <1>2, <1>3

\* A piece and the beginning of the one behind it make one piece.
LEMMA PiecesJoin ==
  ASSUME NEW s \in Seq(Bytes), NEW t \in Seq(Bytes), NEW m \in Nat, m <= Len(t),
         NEW k, NEW n \in DataSizes, NEW ok, NEW a \in Nat,
         Part(s, k, n, ok, a), Part(t, k, n, ok, a + Len(s))
  PROVE  /\ Part(s \o SubSeq(t, 1, m), k, n, ok, a)
         /\ Part(Rest(t, m), k, n, ok, a + Len(s \o SubSeq(t, 1, m)))
<1> DEFINE p == SubSeq(t, 1, m)
<1> DEFINE b == a + Len(s)
<1>0. Len(s) \in Nat /\ Len(t) \in Nat /\ n \in Nat
  BY LenProperties, ConnectionAssumption
<1>b. b \in Nat /\ Part(t, k, n, ok, b)
  BY <1>0
<1> HIDE DEF b
<1>1. p \in Seq(Bytes) /\ Len(p) = m /\ Part(p, k, n, ok, b)
  BY <1>b, PrefixIsPart
<1>2. Part(Rest(t, m), k, n, ok, b + m)
  BY <1>b, RestIsPart
<1> USE DEF b
<1> HIDE DEF p
<1>3. /\ Len(s \o p) = Len(s) + m
      /\ \A i \in 1..(Len(s) + m) :
           (s \o p)[i] = IF i <= Len(s) THEN s[i] ELSE p[i - Len(s)]
  BY <1>1, ConcatProperties
<1>4. ASSUME NEW i \in 1..Len(s \o p)
      PROVE  (s \o p)[i] = Byte(k, n, ok, a + i)
  <2>1. CASE i <= Len(s)
    BY <1>0, <1>3, <2>1 DEF Part
  <2>2. CASE i > Len(s)
    <3>1. i - Len(s) \in 1..Len(p) /\ (a + Len(s)) + (i - Len(s)) = a + i
      BY <1>0, <1>1, <1>3, <2>2
    <3> QED BY <1>0, <1>1, <1>3, <2>2, <3>1 DEF Part
  <2> QED BY <1>0, <1>3, <2>1, <2>2
<1>5. a + Len(s \o p) <= HeaderLength + n
  BY <1>0, <1>1, <1>3 DEF Part, HeaderLength
<1>6. (a + Len(s)) + m = a + Len(s \o p)
  BY <1>0, <1>3
<1> QED BY <1>2, <1>4, <1>5, <1>6 DEF Part, p

\* The header's line is its two bytes, and tells the size of the data.
LEMMA HeaderRead ==
  ASSUME NEW s \in Seq(Bytes), NEW k, NEW n \in DataSizes, NEW ok,
         Part(s, k, n, ok, 0), HasLine(s)
  PROVE  /\ Len(s) >= HeaderLength
         /\ LineLength(s) = HeaderLength
         /\ ReadSizes(SubSeq(s, 1, HeaderLength)) = {n}
<1>0. Len(s) \in Nat
  BY LenProperties
<1>1. ASSUME NEW i \in 1..Len(s) PROVE s[i].at = i /\ s[i].data = n
  <2>1. s[i] = Byte(k, n, ok, 0 + i) /\ 0 + i = i
    BY <1>0 DEF Part
  <2>2. s[i] = Byte(k, n, ok, i)
    BY <2>1
  <2> QED BY <2>2 DEF Byte
<1>2. \A i \in 1..Len(s) : IsNewline(s[i]) <=> i \in {2, 3}
  BY <1>1 DEF IsNewline, HeaderLength
<1>3. Len(s) >= 2
  BY <1>0, <1>2 DEF HasLine
<1>4. LineLength(s) = 2
  <2>1. 2 \in 1..Len(s) /\ IsNewline(s[2]) /\ \A j \in 1..(2 - 1) : ~IsNewline(s[j])
    BY <1>0, <1>2, <1>3
  <2>2. ASSUME NEW i \in 1..Len(s), IsNewline(s[i]),
               \A j \in 1..(i - 1) : ~IsNewline(s[j])
        PROVE  i = 2
    <3>1. i = 3 => 2 \in 1..(i - 1)
      OBVIOUS
    <3> QED BY <1>2, <2>1, <2>2, <3>1
  <2> QED BY <2>1, <2>2 DEF LineLength
<1>5. /\ Len(SubSeq(s, 1, 2)) = 2
      /\ SubSeq(s, 1, 2)[1] = s[1]
  BY <1>0, <1>3, PrefixIsPart
<1>6. s[1].at = 1 /\ s[1].data = n
  BY <1>0, <1>1, <1>3
<1> QED BY <1>3, <1>4, <1>5, <1>6 DEF ReadSizes, HeaderLength

\* Byte b at another place, of data of another size.
Placed(b, j, n) == [b EXCEPT !.at = j, !.data = n]

LEMMA PlacedByte ==
  ASSUME NEW k, NEW n, NEW ok, NEW i, NEW j
  PROVE  Placed(Byte(k, n, ok, i), j, n) = Byte(k, n, ok, j)
<1> DEFINE s == Byte(k, n, ok, i)
<1>1. [s EXCEPT !.at = j] = Byte(k, n, ok, j)
  BY SMTT(30) DEF Byte
<1>2. [Byte(k, n, ok, j) EXCEPT !.data = n] = Byte(k, n, ok, j)
  BY SMTT(30) DEF Byte
<1>3. [s EXCEPT !.at = j, !.data = n] = [[s EXCEPT !.at = j] EXCEPT !.data = n]
  BY SMTT(30) DEF Byte
<1>4. [[s EXCEPT !.at = j] EXCEPT !.data = n] = [Byte(k, n, ok, j) EXCEPT !.data = n]
  <2> HIDE DEF s
  <2> QED BY <1>1, Zenon
<1> QED BY <1>2, <1>3, <1>4 DEF Placed

\* The data of a message, when all of it is there.
LEMMA DataRead ==
  ASSUME NEW s \in Seq(Bytes), NEW k, NEW n \in DataSizes, NEW ok,
         Part(s, k, n, ok, HeaderLength), Len(s) = n
  PROVE  /\ SubSeq(s, 1, n) = s
         /\ IsData(s)
         /\ s[1].of = k /\ s[1].ok = ok
         /\ Rest(s, n) = <<>>
<1>0. n \in Nat /\ n > 0
  BY ConnectionAssumption
<1>1. SubSeq(s, 1, n) = s
  BY SubSeqFull
<1>2. Rest(s, n) = <<>>
  BY <1>0, SubSeqEmpty DEF Rest
<1>3. \A i \in 1..n : s[i] = Byte(k, n, ok, HeaderLength + i)
  BY DEF Part
<1>4. s[1] = Byte(k, n, ok, HeaderLength + 1)
  BY <1>0, <1>3
<1>5. \A i \in 1..Len(s) : s[i] = Placed(s[1], HeaderLength + i, Len(s))
  BY <1>3, <1>4, PlacedByte
<1>6. s[1].of = k /\ s[1].ok = ok
  BY <1>4 DEF Byte
<1>7. IsData(s)
  BY <1>0, <1>5 DEF IsData, Placed
<1> QED BY <1>1, <1>2, <1>6, <1>7

-----------------------------------------------------------------------------
(* What arrives at one end.                                                *)

\* Nothing happens to what e reads.
Unread(e) ==
  /\ phase'[e] = phase[e] /\ buf'[e] = buf[e] /\ inbox'[e] = inbox[e]
  /\ size'[e] = size[e] /\ need'[e] = need[e]

LEMMA StreamStays ==
  ASSUME NEW e \in Ends, Unread(e), NEW k, NEW n, NEW ok
  PROVE  Stream(e, k, n, ok)' <=> Stream(e, k, n, ok)
  BY DEF Unread, Stream, Part, Consumed

LEMMA CleanStream ==
  ASSUME NEW e \in Ends, Clean(e), phase[e] \notin {"data", "handle"},
         NEW k, NEW n \in DataSizes, NEW ok
  PROVE  Stream(e, k, n, ok)
<1>1. Len(<<>>) = 0
  OBVIOUS
<1> QED BY <1>1, NothingIsPart DEF Clean, Stream, Consumed

LEMMA ReceiveStream ==
  ASSUME Shape, NEW e \in Ends, NEW m \in 1..Longest, Receive(e, m),
         NEW k, NEW n \in DataSizes, NEW ok, Stream(e, k, n, ok)
  PROVE  Stream(e, k, n, ok)'
<1> DEFINE a == Consumed(e)
           t == SubSeq(inbox[e], 1, m)
<1>0. a \in Nat /\ m \in Nat /\ n \in Nat
  BY LongestIsLongest, ConnectionAssumption DEF Consumed, HeaderLength
<1>1. buf[e] \in Seq(Bytes) /\ inbox[e] \in Seq(Bytes) /\ need[e] \in Nat
  BY DEF Shape
<1>2. /\ buf'[e] = buf[e] \o t
      /\ inbox'[e] = Rest(inbox[e], m)
      /\ m <= Len(inbox[e])
      /\ phase'[e] = phase[e] /\ size'[e] = size[e]
      /\ phase[e] = "data" => m <= need[e] /\ need'[e] = need[e] - m
      /\ phase[e] # "handle"
  BY DEF Receive, Reads, Shape
<1>3. t \in Seq(Bytes) /\ Len(t) = m
  BY <1>0, <1>1, <1>2, PrefixIsPart
<1>4. a' = a
  BY <1>2 DEF Consumed
<1>5. /\ Part(buf[e] \o t, k, n, ok, a)
      /\ Part(Rest(inbox[e], m), k, n, ok, a + Len(buf[e] \o t))
  BY <1>0, <1>1, <1>2, PiecesJoin DEF Stream
<1>6. Len(buf[e] \o t) = Len(buf[e]) + m
  BY <1>1, <1>3, ConcatProperties
<1>7. Len(buf[e]) \in Nat
  BY <1>1, LenProperties
<1>8. phase'[e] \in {"data", "handle"} => size'[e] = n /\ need'[e] = n - Len(buf'[e])
  BY <1>0, <1>1, <1>2, <1>6, <1>7 DEF Stream
<1>9. Part(buf[e], k, n, ok, a)' /\ Part(inbox[e], k, n, ok, a + Len(buf[e]))'
  BY <1>2, <1>4, <1>5 DEF Part
<1> QED BY <1>8, <1>9 DEF Stream

LEMMA ReadHeaderStream ==
  ASSUME Shape, NEW e \in Ends, ReadHeader(e),
         NEW k, NEW n \in DataSizes, NEW ok, Stream(e, k, n, ok)
  PROVE  /\ Stream(e, k, n, ok)'
         /\ phase'[e] = "data"
         /\ size'[e] \in DataSizes
         /\ need'[e] \in Nat
         /\ buf'[e] \in Seq(Bytes)
<1>1. buf[e] \in Seq(Bytes) /\ n \in Nat
  BY ConnectionAssumption DEF Shape
<1>2. phase[e] = "head" /\ HasLine(buf[e]) /\ Consumed(e) = 0
  BY DEF ReadHeader, Consumed
<1>3. Part(buf[e], k, n, ok, 0) /\ Part(inbox[e], k, n, ok, 0 + Len(buf[e]))
  BY <1>2 DEF Stream
<1>4. /\ Len(buf[e]) >= HeaderLength
      /\ LineLength(buf[e]) = HeaderLength
      /\ ReadSizes(SubSeq(buf[e], 1, HeaderLength)) = {n}
  BY <1>1, <1>2, <1>3, HeaderRead
<1>5. /\ size' = [size EXCEPT ![e] = n]
      /\ need' = [need EXCEPT ![e] = Missing(n, Len(buf[e]) - HeaderLength)]
      /\ buf' = [buf EXCEPT ![e] = Rest(@, HeaderLength)]
      /\ phase' = [phase EXCEPT ![e] = "data"]
      /\ inbox' = inbox
  BY <1>4 DEF ReadHeader, Goes
<1>6. /\ size'[e] = n
      /\ need'[e] = Missing(n, Len(buf[e]) - HeaderLength)
      /\ buf'[e] = Rest(buf[e], HeaderLength)
      /\ phase'[e] = "data"
      /\ inbox'[e] = inbox[e]
  BY <1>5 DEF Shape
<1>7. Len(buf[e]) \in Nat /\ Len(buf[e]) <= HeaderLength + n
  BY <1>1, <1>3, LenProperties DEF Part, HeaderLength
<1>8. /\ Rest(buf[e], HeaderLength) \in Seq(Bytes)
      /\ Len(Rest(buf[e], HeaderLength)) = Len(buf[e]) - HeaderLength
      /\ Part(Rest(buf[e], HeaderLength), k, n, ok, 0 + HeaderLength)
  BY <1>1, <1>3, <1>4, RestIsPart DEF HeaderLength
<1>9. need'[e] = n - Len(buf'[e]) /\ need'[e] \in Nat
  <2> DEFINE l == Len(buf[e])
  <2>1. Len(buf'[e]) = l - 2 /\ need'[e] = Missing(n, l - 2)
    BY <1>6, <1>8 DEF HeaderLength
  <2>2. l \in Nat /\ l >= 2 /\ l <= 2 + n
    BY <1>4, <1>7 DEF HeaderLength
  <2> HIDE DEF l
  <2> QED BY <1>1, <2>1, <2>2 DEF Missing
<1>10. Consumed(e)' = HeaderLength
  BY <1>6 DEF Consumed
<1>11. Part(buf[e], k, n, ok, HeaderLength)'
  BY <1>6, <1>8 DEF Part, HeaderLength
<1>12. HeaderLength + Len(buf'[e]) = 0 + Len(buf[e])
  BY <1>6, <1>7, <1>8 DEF HeaderLength
<1>13. Part(inbox[e], k, n, ok, HeaderLength + Len(buf[e]))'
  BY <1>3, <1>6, <1>12 DEF Part
<1>14. Stream(e, k, n, ok)'
  BY <1>6, <1>9, <1>10, <1>11, <1>13 DEF Stream
<1> QED BY <1>6, <1>8, <1>9, <1>14

LEMMA CutStream ==
  ASSUME Shape, NEW i \in 0..Longest, NEW j \in 0..Longest, Cut(i, j), NEW e \in Ends,
         NEW k, NEW n \in DataSizes, NEW ok, Stream(e, k, n, ok)
  PROVE  Stream(e, k, n, ok)'
<1> DEFINE m == IF e = "client" THEN i ELSE j
           b == Consumed(e) + Len(buf[e])
<1>0. i \in Nat /\ j \in Nat
  BY LongestIsLongest
<1>1. buf[e] \in Seq(Bytes) /\ inbox[e] \in Seq(Bytes)
  BY DEF Shape
<1>2. /\ inbox'[e] = SubSeq(inbox[e], 1, m)
      /\ m <= Len(inbox[e]) /\ m \in Nat
      /\ phase' = phase /\ buf' = buf /\ size' = size /\ need' = need
  BY <1>0 DEF Cut, ends, Ends
<1> HIDE DEF m
<1>3. b \in Nat
  <2>1. Consumed(e) \in Nat /\ Len(buf[e]) \in Nat
    BY <1>1, LenProperties DEF Consumed, HeaderLength
  <2> QED BY <2>1
<1>4. Part(inbox[e], k, n, ok, b)
  BY DEF Stream
<1> HIDE DEF b
<1>5. Part(SubSeq(inbox[e], 1, m), k, n, ok, b)
  BY <1>1, <1>2, <1>3, <1>4, PrefixIsPart
<1>6. b' = b
  BY <1>2 DEF b, Consumed
<1>7. Part(inbox[e], k, n, ok, b)' /\ Part(buf[e], k, n, ok, Consumed(e))'
  BY <1>2, <1>5, <1>6 DEF Part, Stream, Consumed
<1> QED BY <1>2, <1>7 DEF Stream, b

\* Everything has arrived: the data is that of the call, and nothing is left.
LEMMA AllArrived ==
  ASSUME Shape, NEW e \in Ends, phase[e] \in {"data", "handle"}, need[e] = 0,
         NEW k, NEW n \in DataSizes, NEW ok, Stream(e, k, n, ok)
  PROVE  /\ IsData(Data(e)) /\ Data(e)[1].of = k /\ Data(e)[1].ok = ok
         /\ WithoutData(e) = <<>>
         /\ inbox[e] = <<>>
<1>1. buf[e] \in Seq(Bytes) /\ inbox[e] \in Seq(Bytes) /\ n \in Nat
  BY ConnectionAssumption DEF Shape
<1>2. Len(buf[e]) = n /\ size[e] = n
  BY <1>1, LenProperties DEF Stream
<1>3. Part(buf[e], k, n, ok, HeaderLength) /\ Part(inbox[e], k, n, ok, HeaderLength + n)
  BY <1>2 DEF Stream, Consumed
<1>4. inbox[e] = <<>>
  BY <1>1, <1>3, PartOfNothing
<1>5. /\ SubSeq(buf[e], 1, n) = buf[e]
      /\ IsData(buf[e]) /\ buf[e][1].of = k /\ buf[e][1].ok = ok
      /\ Rest(buf[e], n) = <<>>
  BY <1>1, <1>2, <1>3, DataRead
<1> QED BY <1>2, <1>4, <1>5 DEF Data, WithoutData

-----------------------------------------------------------------------------
(* The stages of a call.                                                   *)

\* The phase of the client tells the stage.
LEMMA Stages ==
  ASSUME IInv, open["client"]
  PROVE  /\ phase["client"] = "idle" => Between
         /\ phase["client"] = "write" => Begun
         /\ phase["client"] \in {"sent", "head"} => Waiting \/ Answered
         /\ phase["client"] = "data" => Answered
  BY DEF IInv, Protocol, Between, Begun, Waiting, Answered

LEMMA ExecutedStays ==
  ASSUME executed' = executed
  PROVE  /\ Calls!Executed' = Calls!Executed
         /\ \A k : Fresh(k)' <=> Fresh(k)
  BY DEF Calls!Executed, Fresh

LEMMA ExecutedType == Shape => Calls!Executed \subseteq 1..MaxCalls
<1>1. ASSUME Shape, NEW i \in 1..Len(executed) PROVE executed[i] \in 1..MaxCalls
  BY <1>1, ElementOfSeq DEF Shape
<1> QED BY <1>1 DEF Calls!Executed

LEMMA ExecutedGrows ==
  ASSUME Shape, NEW k, executed' = Append(executed, k)
  PROVE  Calls!Executed' = Calls!Executed \cup {k}
<1> DEFINE l == Len(executed)
<1>1. executed \in Seq(1..MaxCalls) /\ l \in Nat
  BY LenProperties DEF Shape
<1>2. /\ Len(executed') = l + 1
      /\ \A i \in 1..l : executed'[i] = executed[i]
      /\ executed'[l + 1] = k
  BY <1>1
<1> HIDE DEF l
<1>3. 1..(l + 1) = 1..l \cup {l + 1}
  BY <1>1
<1> QED BY <1>2, <1>3 DEF Calls!Executed, l

\* Nothing happens to the session.
SessionStays ==
  /\ Unread("server")
  /\ open'["server"] = open["server"] /\ out'["server"] = out["server"]
  /\ executed' = executed

LEMMA SessionKept ==
  ASSUME SessionStays
  PROVE  /\ Rests' <=> Rests
         /\ \A k : Serves(k)' <=> Serves(k)
         /\ \A k : AnswerDue(k)' <=> AnswerDue(k)
<1>0. executed' = executed /\ Unread("server") /\ "server" \in Ends
  BY DEF SessionStays, Ends
<1>1. Rests' <=> Rests
  BY DEF SessionStays, Unread, Rests, Clean
<1>2. ASSUME NEW k PROVE Serves(k)' <=> Serves(k)
  <2>1. \A n, ok : Stream("server", k, n, ok)' <=> Stream("server", k, n, ok)
    BY <1>0, StreamStays
  <2>2. Fresh(k)' <=> Fresh(k)
    BY <1>0, ExecutedStays
  <2> QED BY <1>0, <2>1, <2>2 DEF Serves, Unread
<1>3. ASSUME NEW k PROVE AnswerDue(k)' <=> AnswerDue(k)
  <2>1. Calls!Executed' = Calls!Executed
    BY <1>0, ExecutedStays
  <2> QED BY <1>0, <2>1 DEF SessionStays, AnswerDue, Unread, Clean
<1> QED BY <1>1, <1>2, <1>3

\* Nothing happens to the client.
ClientStays ==
  /\ Unread("client")
  /\ open'["client"] = open["client"]
  /\ calls' = calls /\ link' = link

LEMMA NoAnswer ==
  ASSUME NEW e \in Ends, Clean(e), phase[e] \notin {"data", "handle"}, NEW k
  PROVE  \E n \in DataSizes : Stream(e, k, n, FALSE)
<1>1. PICK n \in DataSizes : TRUE
  BY ConnectionAssumption
<1> QED BY <1>1, CleanStream

\* A step of the session that does not reach the client: it rests on, or goes
\* on with its call, or gives it up.
LEMMA SessionGoesOn ==
  ASSUME IInv, ClientStays,
         Calls!Executed \subseteq Calls!Executed',
         Rests => /\ Rests' /\ Calls!Executed' = Calls!Executed
                  /\ link /\ open["client"] /\ open["server"] => open'["server"],
         \A k \in 1..calls : Serves(k) \/ AnswerDue(k) =>
                               Serves(k)' \/ AnswerDue(k)' \/ Rests'
  PROVE  Protocol'
<1>c. PICK c : c = calls
  OBVIOUS
<1>0. calls = c /\ calls' = c /\ "client" \in Ends /\ Unread("client")
  BY <1>c DEF ClientStays, Ends
<1>1. CASE ~open["client"]
  BY <1>0, <1>1 DEF IInv, Protocol, Gone, ClientStays
<1>2. CASE open["client"]
  <2>0. open'["client"]
    BY <1>2 DEF ClientStays
  <2>1. CASE Between
    BY <1>2, <2>0, <2>1 DEF Protocol, Between, InStep, ClientStays, Unread, Clean
  <2>2. CASE Begun
    BY <1>2, <2>0, <2>2 DEF Protocol, Begun, InStep, ClientStays, Unread, Clean, Fresh
  <2>3. CASE Waiting
    <3>1. c \in 1..calls
      BY <1>0, <2>3 DEF IInv, Shape, Waiting
    <3>2. Serves(c)' \/ AnswerDue(c)' \/ Rests'
      BY <1>0, <2>3, <3>1 DEF Waiting
    <3>3. /\ phase'["client"] \in {"sent", "head"}
          /\ Clean("client") /\ Clean("client")'
      BY <2>3 DEF Waiting, ClientStays, Unread, Clean
    <3>4. CASE Serves(c)' \/ AnswerDue(c)'
      BY <1>0, <2>0, <3>3, <3>4 DEF Protocol, Waiting
    <3>5. CASE Rests'
      <4>1. PICK n \in DataSizes : Stream("client", c, n, FALSE)
        BY <1>0, <2>3, NoAnswer DEF Waiting
      <4>2. Stream("client", c, n, FALSE)'
        BY <1>0, <4>1, StreamStays
      <4>3. Stream("client", calls, n, FALSE)'
        BY <1>0, <4>2
      <4>4. Answered'
        BY <1>0, <3>3, <3>5, <4>3 DEF Answered, Clean
      <4> QED BY <2>0, <4>4 DEF Protocol
    <3> QED BY <3>2, <3>4, <3>5
  <2>4. CASE Answered
    <3>1. PICK n \in DataSizes, ok \in BOOLEAN :
            Stream("client", c, n, ok) /\ (ok => c \in Calls!Executed)
      BY <1>0, <2>4 DEF Answered
    <3>2. Stream("client", c, n, ok)'
      BY <1>0, <3>1, StreamStays
    <3>3. (Stream("client", calls, n, ok) /\ (ok => calls \in Calls!Executed))'
      BY <1>0, <3>1, <3>2
    <3>4. Rests /\ Rests'
      BY <2>4 DEF Answered
    <3>5. link' /\ ~open'["server"] => phase'["client"] # "data" /\ Clean("client")'
      BY <1>2, <2>4, <3>4 DEF Answered, ClientStays, Unread, Clean
    <3>6. /\ phase'["client"] \in {"sent", "head", "data"}
          /\ phase'["client"] = "sent" => buf'["client"] = <<>>
      BY <2>4 DEF Answered, ClientStays, Unread
    <3>7. Answered'
      BY <3>3, <3>4, <3>5, <3>6 DEF Answered
    <3> QED BY <2>0, <3>7 DEF Protocol
  <2> QED BY <1>2, <2>1, <2>2, <2>3, <2>4 DEF IInv, Protocol
<1> QED BY <1>1, <1>2

-----------------------------------------------------------------------------
(* The steps of the session.                                               *)

\* A session that rests and has not closed its socket has read nothing.
LEMMA Resting ==
  ASSUME IInv, Rests
  PROVE  \/ ~open["server"] /\ phase["server"] = "ended"
         \/ open["server"] /\ phase["server"] \in {"sent", "head"} /\ Clean("server")
  BY DEF IInv, Shape, Rests

LEMMA SessionWritten ==
  ASSUME IInv, Written("server")
  PROVE  Protocol'
<1>1. /\ phase' = [phase EXCEPT !["server"] = "head"] /\ phase["server"] = "sent"
      /\ UNCHANGED <<open, out, buf, size, need, inbox, link, calls, executed>>
  BY DEF Written, Goes
<1>2. phase'["server"] = "head" /\ phase'["client"] = phase["client"]
  BY <1>1 DEF IInv, Shape, Ends
<1>3. ClientStays
  BY <1>1, <1>2 DEF ClientStays, Unread
<1>4. Calls!Executed' = Calls!Executed /\ \A k : Fresh(k)' <=> Fresh(k)
  BY <1>1, ExecutedStays
<1>5. Rests => Rests' /\ open'["server"] = open["server"]
  BY <1>1, <1>2 DEF Rests, Clean
<1>6. ASSUME NEW k \in 1..calls, Serves(k)
      PROVE  Serves(k)'
  <2>1. PICK n \in DataSizes : Stream("server", k, n, TRUE)
    BY <1>6 DEF Serves
  <2>2. Stream("server", k, n, TRUE)'
    BY <1>1, <1>2, <2>1 DEF Stream, Part, Consumed
  <2> QED BY <1>2, <1>4, <1>6, <2>2 DEF Serves
<1>7. ASSUME NEW k \in 1..calls, AnswerDue(k) PROVE FALSE
  BY <1>1, <1>7 DEF AnswerDue
<1> QED BY <1>3, <1>4, <1>5, <1>6, <1>7, SessionGoesOn

\* The session ends, while it reads or writes.
LEMMA SessionFails ==
  ASSUME IInv, WriteFails("server") \/ ReadFails("server")
  PROVE  Protocol'
<1>1. /\ phase' = [phase EXCEPT !["server"] = "ended"]
      /\ open' = [open EXCEPT !["server"] = FALSE]
      /\ UNCHANGED <<out, buf, size, need, inbox, link, calls, executed>>
      /\ ~link \/ ~open["server"] \/ ~open["client"]
  BY Peers DEF WriteFails, ReadFails, Closes, Goes, Over, Broken
<1>2. /\ phase'["client"] = phase["client"]
      /\ open'["client"] = open["client"] /\ ~open'["server"]
  BY <1>1 DEF IInv, Shape, Ends
<1>3. ClientStays
  BY <1>1, <1>2 DEF ClientStays, Unread
<1>4. Calls!Executed' = Calls!Executed
  BY <1>1, ExecutedStays
<1>5. Rests'
  BY <1>2 DEF Rests
<1> QED BY <1>1, <1>3, <1>4, <1>5, SessionGoesOn

LEMMA SessionReceives ==
  ASSUME IInv, NEW m \in 1..Longest, Receive("server", m)
  PROVE  Protocol'
<1>0. "server" \in Ends /\ Shape /\ m \in Nat /\ m > 0
  BY LongestIsLongest DEF IInv, Ends
<1>1. /\ UNCHANGED <<phase, open, out, size, link, calls, executed>>
      /\ phase["server"] \in {"head", "data"}
      /\ m <= Len(inbox["server"])
      /\ buf'["client"] = buf["client"] /\ inbox'["client"] = inbox["client"]
      /\ need'["client"] = need["client"]
  BY <1>0 DEF Receive, Reads, Shape, Ends
<1>2. ClientStays
  BY <1>1 DEF ClientStays, Unread
<1>3. Calls!Executed' = Calls!Executed /\ \A k : Fresh(k)' <=> Fresh(k)
  BY <1>1, ExecutedStays
<1>4. ~Clean("server")
  <2>1. Len(<<>>) = 0
    OBVIOUS
  <2> QED BY <1>0, <1>1, <2>1 DEF Clean
<1>5. ~Rests
  BY <1>1, <1>4, Resting
<1>6. ASSUME NEW k \in 1..calls, Serves(k)
      PROVE  Serves(k)'
  <2>1. PICK n \in DataSizes : Stream("server", k, n, TRUE)
    BY <1>6 DEF Serves
  <2>2. Stream("server", k, n, TRUE)'
    BY <1>0, <2>1, ReceiveStream
  <2> QED BY <1>1, <1>3, <1>6, <2>2 DEF Serves
<1>7. ASSUME NEW k \in 1..calls, AnswerDue(k) PROVE FALSE
  BY <1>1, <1>7 DEF AnswerDue
<1> QED BY <1>2, <1>3, <1>5, <1>6, <1>7, SessionGoesOn

\* Without a line there is no header.
LEMMA NoLine == ~HasLine(<<>>)
  BY DEF HasLine

LEMMA SessionReadsHeader ==
  ASSUME IInv, ReadHeader("server")
  PROVE  Protocol'
<1>0. "server" \in Ends /\ Shape
  BY DEF IInv, Ends
<1>1. /\ UNCHANGED <<open, out, inbox, link, calls, executed>>
      /\ phase' = [phase EXCEPT !["server"] = "data"]
      /\ phase["server"] = "head" /\ HasLine(buf["server"])
      /\ buf'["client"] = buf["client"]
      /\ size'["client"] = size["client"] /\ need'["client"] = need["client"]
  BY <1>0 DEF ReadHeader, Goes, Shape, Ends
<1>2. phase'["client"] = phase["client"] /\ phase'["server"] = "data"
  BY <1>0, <1>1 DEF Shape, Ends
<1>3. ClientStays
  BY <1>1, <1>2 DEF ClientStays, Unread
<1>4. Calls!Executed' = Calls!Executed /\ \A k : Fresh(k)' <=> Fresh(k)
  BY <1>1, ExecutedStays
<1>5. ~Rests
  BY <1>1, NoLine, Resting DEF Clean
<1>6. ASSUME NEW k \in 1..calls, Serves(k)
      PROVE  Serves(k)'
  <2>1. PICK n \in DataSizes : Stream("server", k, n, TRUE)
    BY <1>6 DEF Serves
  <2>2. Stream("server", k, n, TRUE)'
    BY <1>0, <2>1, ReadHeaderStream
  <2> QED BY <1>2, <1>4, <1>6, <2>2 DEF Serves
<1>7. ASSUME NEW k \in 1..calls, AnswerDue(k) PROVE FALSE
  BY <1>1, <1>7 DEF AnswerDue
<1> QED BY <1>3, <1>4, <1>5, <1>6, <1>7, SessionGoesOn

LEMMA SessionProcesses ==
  ASSUME IInv, Process
  PROVE  Protocol'
<1>1. /\ UNCHANGED <<open, out, buf, size, need, inbox, link, calls, executed>>
      /\ phase' = [phase EXCEPT !["server"] = "handle"]
      /\ phase["server"] = "data" /\ need["server"] = 0
  BY DEF Process, Complete, Goes
<1>2. phase'["client"] = phase["client"] /\ phase'["server"] = "handle"
  BY <1>1 DEF IInv, Shape, Ends
<1>3. ClientStays
  BY <1>1, <1>2 DEF ClientStays, Unread
<1>4. Calls!Executed' = Calls!Executed /\ \A k : Fresh(k)' <=> Fresh(k)
  BY <1>1, ExecutedStays
<1>5. ~Rests
  BY <1>1, Resting
<1>6. ASSUME NEW k \in 1..calls, Serves(k)
      PROVE  Serves(k)'
  <2>1. PICK n \in DataSizes : Stream("server", k, n, TRUE)
    BY <1>6 DEF Serves
  <2>2. Stream("server", k, n, TRUE)'
    BY <1>1, <1>2, <2>1 DEF Stream, Part, Consumed
  <2> QED BY <1>1, <1>2, <1>4, <1>6, <2>2 DEF Serves
<1>7. ASSUME NEW k \in 1..calls, AnswerDue(k) PROVE FALSE
  BY <1>1, <1>7 DEF AnswerDue
<1> QED BY <1>3, <1>4, <1>5, <1>6, <1>7, SessionGoesOn

\* What the handler of the node is called with.
LEMMA HandledRequest ==
  ASSUME IInv, Handling
  PROVE  \E k \in 1..calls :
           /\ Serves(k) /\ ~AnswerDue(k)
           /\ \A j \in 1..calls : Serves(j) \/ AnswerDue(j) => j = k
           /\ IsData(Request) /\ Request[1].of = k
           /\ WithoutData("server") = <<>> /\ inbox["server"] = <<>>
<1>0. "server" \in Ends /\ Shape /\ phase["server"] = "handle"
  BY DEF IInv, Ends, Handling
<1>1. ~Rests
  BY <1>0, Resting
<1>2. \A j : ~AnswerDue(j)
  BY <1>0 DEF AnswerDue
<1>3. \E k \in 1..calls : Serves(k)
  <2>1. CASE open["client"]
    <3>1. Waiting
      BY <1>1, <2>1 DEF IInv, Protocol, Between, Begun, Answered, InStep
    <3>2. PICK c : c = calls
      OBVIOUS
    <3>3. c \in 1..calls /\ Serves(c)
      BY <1>0, <1>2, <3>1, <3>2 DEF Waiting, Shape
    <3> QED BY <3>3
  <2>2. CASE ~open["client"]
    BY <1>1, <1>2, <2>2 DEF IInv, Protocol, Gone
  <2> QED BY <2>1, <2>2
<1>4. ASSUME NEW k \in 1..calls, Serves(k)
      PROVE  /\ IsData(Request) /\ Request[1].of = k
             /\ WithoutData("server") = <<>> /\ inbox["server"] = <<>>
  <2>1. PICK n \in DataSizes : Stream("server", k, n, TRUE)
    BY <1>4 DEF Serves
  <2>2. need["server"] = 0
    BY <1>0, <1>4 DEF Serves
  <2> QED BY <1>0, <2>1, <2>2, AllArrived DEF Request
<1> QED BY <1>2, <1>3, <1>4

LEMMA SessionAnswers ==
  ASSUME IInv, NEW n \in DataSizes, Handle(n) \/ Refuse(n)
  PROVE  Protocol'
<1>0. Shape /\ Handling
  BY DEF IInv, Handle, Refuse
<1>1. PICK k \in 1..calls :
           /\ Serves(k) /\ ~AnswerDue(k)
           /\ \A j \in 1..calls : Serves(j) \/ AnswerDue(j) => j = k
           /\ IsData(Request) /\ Request[1].of = k
           /\ WithoutData("server") = <<>> /\ inbox["server"] = <<>>
  BY <1>0, HandledRequest
<1>2. PICK ok \in BOOLEAN :
        /\ out' = [out EXCEPT !["server"] = Message(k, n, ok)]
        /\ buf' = [buf EXCEPT !["server"] = <<>>]
        /\ phase' = [phase EXCEPT !["server"] = "write"]
        /\ UNCHANGED <<open, size, need, inbox, link, calls>>
        /\ ok => executed' = Append(executed, k)
        /\ ~ok => executed' = executed
  <2>1. CASE Handle(n)
    BY <1>1, <2>1 DEF Handle, Answers, AnswerBuffer, Goes
  <2>2. CASE Refuse(n)
    BY <1>1, <2>2 DEF Refuse, Answers, AnswerBuffer, Goes
  <2> QED BY <2>1, <2>2
<1>3. /\ out'["server"] = Message(k, n, ok)
      /\ buf'["server"] = <<>> /\ buf'["client"] = buf["client"]
      /\ phase'["server"] = "write" /\ phase'["client"] = phase["client"]
  BY <1>0, <1>2 DEF Shape, Ends
<1>4. ClientStays
  BY <1>2, <1>3 DEF ClientStays, Unread
<1>5. /\ Calls!Executed \subseteq Calls!Executed'
      /\ ok => k \in Calls!Executed'
  BY <1>0, <1>2, ExecutedStays, ExecutedGrows
<1>6. ~Rests
  BY <1>0, Resting DEF Handling
<1>7. Clean("server")'
  BY <1>1, <1>2, <1>3 DEF Clean
<1>8. AnswerDue(k)'
  BY <1>3, <1>5, <1>7 DEF AnswerDue
<1> QED BY <1>1, <1>4, <1>5, <1>6, <1>8, SessionGoesOn

LEMMA SessionThrows ==
  ASSUME IInv, HandlerThrows
  PROVE  Protocol'
<1>0. Shape /\ Handling
  BY DEF IInv, HandlerThrows
<1>1. PICK k \in 1..calls : IsData(Request) /\ Request[1].of = k
  BY <1>0, HandledRequest
<1>2. /\ phase' = [phase EXCEPT !["server"] = "ended"]
      /\ open' = [open EXCEPT !["server"] = FALSE]
      /\ buf'["client"] = buf["client"]
      /\ UNCHANGED <<out, size, need, inbox, link, calls>>
      /\ executed' = executed \/ executed' = Append(executed, k)
  BY <1>0, <1>1 DEF HandlerThrows, Closes, Goes, Over, Shape, Ends
<1>3. /\ phase'["client"] = phase["client"]
      /\ open'["client"] = open["client"] /\ ~open'["server"]
  BY <1>0, <1>2 DEF Shape, Ends
<1>4. ClientStays
  BY <1>2, <1>3 DEF ClientStays, Unread
<1>5. Calls!Executed \subseteq Calls!Executed'
  BY <1>0, <1>2, ExecutedStays, ExecutedGrows
<1>6. ~Rests /\ Rests'
  BY <1>0, <1>3, Resting DEF Rests, Handling
<1> QED BY <1>4, <1>5, <1>6, SessionGoesOn

\* What the session writes arrives, unless the connection is cut or the client
\* has closed its socket.
LEMMA SessionWrites ==
  ASSUME IInv, Write("server")
  PROVE  Protocol'
<1>0. Shape /\ "server" \in Ends /\ "client" \in Ends
  BY DEF IInv, Ends
<1>1. /\ phase["server"] = "write" /\ open["server"]
      /\ phase' = [phase EXCEPT !["server"] = "sent"]
      /\ inbox' = [inbox EXCEPT !["client"] =
                     IF Broken("server") THEN @ ELSE @ \o out["server"]]
      /\ UNCHANGED <<open, out, buf, size, need, link, calls, executed>>
  BY Peers DEF Write, Goes
<1>2. /\ phase'["server"] = "sent" /\ phase'["client"] = phase["client"]
      /\ inbox'["server"] = inbox["server"]
      /\ inbox'["client"] = IF Broken("server") THEN inbox["client"]
                            ELSE inbox["client"] \o out["server"]
  BY <1>0, <1>1 DEF Shape, Ends
<1>3. Calls!Executed' = Calls!Executed
  BY <1>1, ExecutedStays
<1>4. ~Rests
  BY <1>1, Resting
<1>5. \A k : ~Serves(k)
  BY <1>1 DEF Serves
<1>6. ASSUME NEW k, AnswerDue(k) PROVE Rests'
  BY <1>1, <1>2, <1>6 DEF AnswerDue, Clean, Rests
<1>7. CASE Broken("server")
  <2>1. ClientStays
    BY <1>1, <1>2, <1>7 DEF ClientStays, Unread
  <2> QED BY <1>3, <1>4, <1>5, <1>6, <2>1, SessionGoesOn
<1>8. CASE ~Broken("server")
  <2>1. open["client"] /\ link
    BY <1>8, Peers DEF Broken
  <2>2. Waiting
    BY <1>4, <2>1 DEF IInv, Protocol, Between, Begun, Answered, InStep
  <2>3. PICK c : c = calls
    OBVIOUS
  <2>4. AnswerDue(c) /\ Clean("client") /\ c \in 1..MaxCalls
    BY <1>0, <1>5, <2>2, <2>3 DEF Waiting, Shape
  <2>5. PICK n \in DataSizes, ok \in BOOLEAN :
          out["server"] = Message(c, n, ok) /\ (ok => c \in Calls!Executed)
    BY <2>4 DEF AnswerDue
  <2>6. /\ Message(c, n, ok) \in Seq(Bytes)
        /\ Part(Message(c, n, ok), c, n, ok, 0)
    BY <2>4, MessageIs
  <2>7. inbox'["client"] = Message(c, n, ok) /\ buf'["client"] = <<>>
    BY <1>1, <1>2, <1>8, <2>4, <2>5, <2>6, ConcatEmptySeq DEF Clean
  <2>8. phase'["client"] \in {"sent", "head"}
    BY <1>2, <2>2 DEF Waiting
  <2>9. Stream("client", c, n, ok)'
    <3>1. Consumed("client")' = 0 /\ Len(<<>>) = 0
      BY <2>8 DEF Consumed
    <3>2. Part(buf["client"], c, n, ok, 0)'
      BY <2>7, NothingIsPart DEF Part
    <3>3. Part(inbox["client"], c, n, ok, 0)'
      BY <2>6, <2>7 DEF Part
    <3>4. 0 + Len(buf'["client"]) = 0
      BY <2>7, <3>1
    <3> QED BY <2>8, <3>1, <3>2, <3>3, <3>4 DEF Stream
  <2>10. Rests' /\ calls' = c /\ open'["client"] /\ open'["server"]
    BY <1>1, <1>6, <2>1, <2>3, <2>4
  <2>11. Answered'
    BY <1>3, <2>5, <2>7, <2>8, <2>9, <2>10 DEF Answered
  <2> QED BY <2>10, <2>11 DEF Protocol
<1> QED BY <1>7, <1>8

-----------------------------------------------------------------------------
(* The steps of the client.                                                *)

LEMMA ClientRuns ==
  ASSUME IInv, NEW n \in DataSizes, Run(n)
  PROVE  Protocol'
<1>0. Shape /\ "server" \in Ends /\ "client" \in Ends
  BY DEF IInv, Ends
<1>1. /\ phase["client"] = "idle"
      /\ calls' = calls + 1
      /\ out' = [out EXCEPT !["client"] = Message(calls + 1, n, TRUE)]
      /\ buf' = [buf EXCEPT !["client"] = IF calls = 0 THEN @ ELSE <<>>]
      /\ phase' = [phase EXCEPT !["client"] = "write"]
      /\ UNCHANGED <<open, size, need, inbox, link, executed>>
  BY DEF Run, RequestBuffer, Goes
<1>2. /\ phase'["client"] = "write" /\ phase'["server"] = phase["server"]
      /\ buf'["client"] = IF calls = 0 THEN buf["client"] ELSE <<>>
      /\ buf'["server"] = buf["server"] /\ out'["server"] = out["server"]
  BY <1>0, <1>1 DEF Shape, Ends
<1>3. SessionStays
  BY <1>1, <1>2 DEF SessionStays, Unread
<1>4. CASE open["client"]
  <2>1. Between
    BY <1>1, <1>4, Stages
  <2>2. Clean("client")'
    BY <1>1, <1>2, <2>1 DEF Between, Clean
  <2>3. InStep'
    BY <1>1, <1>3, <2>1, SessionKept DEF Between, InStep
  <2>4. Fresh(calls)'
    <3>1. Calls!Executed' = Calls!Executed
      BY <1>1, ExecutedStays
    <3>2. calls \in Nat /\ \A j \in Calls!Executed : j \in Nat /\ j <= calls
      <4>1. calls \in Nat
        BY <1>0 DEF Shape
      <4>2. Calls!Executed \subseteq 1..MaxCalls
        BY <1>0, ExecutedType
      <4> QED BY <4>1, <4>2, ConnectionAssumption DEF IInv, Past
    <3>3. \A j \in Calls!Executed : j < calls + 1
      BY <3>2
    <3> QED BY <1>1, <3>1, <3>3 DEF Fresh
  <2> QED BY <1>1, <1>2, <1>4, <2>2, <2>3, <2>4 DEF Protocol, Begun
<1>5. CASE ~open["client"]
  <2>1. calls \in Nat
    BY <1>0, ConnectionAssumption DEF Shape
  <2>2. 1..calls \subseteq 1..(calls + 1)
    BY <2>1
  <2>3. Gone
    BY <1>5 DEF IInv, Protocol
  <2>4. Gone'
    BY <1>1, <1>3, <2>2, <2>3, SessionKept DEF Gone
  <2> QED BY <1>1, <1>5, <2>4 DEF Protocol
<1> QED BY <1>4, <1>5

LEMMA ClientWrites ==
  ASSUME IInv, Write("client")
  PROVE  Protocol'
<1>0. Shape /\ "server" \in Ends /\ "client" \in Ends
  BY DEF IInv, Ends
<1>1. /\ phase["client"] = "write" /\ open["client"]
      /\ phase' = [phase EXCEPT !["client"] = "sent"]
      /\ inbox' = [inbox EXCEPT !["server"] =
                     IF Broken("client") THEN @ ELSE @ \o out["client"]]
      /\ UNCHANGED <<open, out, buf, size, need, link, calls, executed>>
  BY Peers DEF Write, Goes
<1>2. /\ phase'["client"] = "sent" /\ phase'["server"] = phase["server"]
      /\ inbox'["client"] = inbox["client"]
      /\ inbox'["server"] = IF Broken("client") THEN inbox["server"]
                            ELSE inbox["server"] \o out["client"]
  BY <1>0, <1>1 DEF Shape, Ends
<1>3. Begun
  BY <1>1, Stages
<1>4. PICK c : c = calls
  OBVIOUS
<1>5. c \in 1..MaxCalls /\ calls' = c
  BY <1>0, <1>1, <1>4, ConnectionAssumption DEF Shape
<1>6. Clean("client")'
  BY <1>1, <1>2, <1>3 DEF Begun, Clean
<1>7. CASE Broken("client")
  <2>1. SessionStays
    BY <1>1, <1>2, <1>7 DEF SessionStays, Unread
  <2>2. Rests'
    BY <1>3, <2>1, SessionKept DEF Begun, InStep
  <2>3. PICK n \in DataSizes : Stream("client", c, n, FALSE)
    BY <1>0, <1>1, <1>3, NoAnswer DEF Begun
  <2>4. Stream("client", c, n, FALSE)'
    BY <1>1, <1>2, <2>3 DEF Stream, Part, Consumed
  <2>5. Stream("client", calls, n, FALSE)'
    BY <1>5, <2>4
  <2>6. Answered'
    BY <1>2, <1>6, <2>2, <2>5 DEF Answered, Clean
  <2> QED BY <1>1, <2>6 DEF Protocol
<1>8. CASE ~Broken("client")
  <2>1. open["server"] /\ link
    BY <1>8, Peers DEF Broken
  <2>2. /\ phase["server"] \in {"sent", "head"}
        /\ buf["server"] = <<>> /\ inbox["server"] = <<>>
    BY <1>3, <2>1, Resting DEF Begun, InStep, Clean
  <2>3. PICK n \in DataSizes : out["client"] = Message(c, n, TRUE)
    BY <1>1, <1>4 DEF IInv, Requested
  <2>4. /\ Message(c, n, TRUE) \in Seq(Bytes)
        /\ Part(Message(c, n, TRUE), c, n, TRUE, 0)
    BY <1>5, MessageIs
  <2>5. inbox'["server"] = Message(c, n, TRUE) /\ buf'["server"] = <<>>
    BY <1>1, <1>2, <1>8, <2>2, <2>3, <2>4, ConcatEmptySeq
  <2>6. Stream("server", c, n, TRUE)'
    <3>1. Consumed("server")' = 0 /\ Len(<<>>) = 0
      BY <1>2, <2>2 DEF Consumed
    <3>2. Part(buf["server"], c, n, TRUE, 0)'
      BY <2>5, NothingIsPart DEF Part
    <3>3. Part(inbox["server"], c, n, TRUE, 0)'
      BY <2>4, <2>5 DEF Part
    <3>4. 0 + Len(buf'["server"]) = 0
      BY <2>5, <3>1
    <3> QED BY <1>2, <2>2, <3>1, <3>2, <3>3, <3>4 DEF Stream
  <2>7. Fresh(c)'
    BY <1>1, <1>3, <1>4, ExecutedStays DEF Begun
  <2>8. Serves(calls)'
    BY <1>2, <1>5, <2>2, <2>5, <2>6, <2>7 DEF Serves
  <2>9. Waiting'
    BY <1>2, <1>6, <2>8 DEF Waiting
  <2> QED BY <1>1, <2>9 DEF Protocol
<1> QED BY <1>7, <1>8

LEMMA ClientWritten ==
  ASSUME IInv, Written("client")
  PROVE  Protocol'
<1>1. /\ phase' = [phase EXCEPT !["client"] = "head"] /\ phase["client"] = "sent"
      /\ UNCHANGED <<open, out, buf, size, need, inbox, link, calls, executed>>
  BY DEF Written, Goes
<1>2. phase'["client"] = "head" /\ phase'["server"] = phase["server"]
  BY <1>1 DEF IInv, Shape, Ends
<1>3. SessionStays
  BY <1>1, <1>2 DEF SessionStays, Unread
<1>4. open["client"]
  BY <1>1 DEF IInv, Shape
<1>5. PICK c : c = calls
  OBVIOUS
<1>6. calls' = c
  BY <1>1, <1>5
<1>7. CASE Waiting
  <2>1. Serves(c)' \/ AnswerDue(c)'
    BY <1>3, <1>5, <1>7, SessionKept DEF Waiting
  <2>2. Serves(calls)' \/ AnswerDue(calls)'
    BY <1>6, <2>1
  <2>3. Waiting'
    BY <1>1, <1>2, <1>7, <2>2 DEF Waiting, Clean
  <2> QED BY <1>1, <1>4, <2>3 DEF Protocol
<1>8. CASE Answered
  <2>1. PICK n \in DataSizes, ok \in BOOLEAN :
          Stream("client", c, n, ok) /\ (ok => c \in Calls!Executed)
    BY <1>5, <1>8 DEF Answered
  <2>2. Stream("client", c, n, ok)'
    BY <1>1, <1>2, <2>1 DEF Stream, Part, Consumed
  <2>3. (Stream("client", calls, n, ok) /\ (ok => calls \in Calls!Executed))'
    BY <1>1, <1>6, <2>1, <2>2, ExecutedStays
  <2>4. Rests'
    BY <1>3, <1>8, SessionKept DEF Answered
  <2>5. link' /\ ~open'["server"] => Clean("client")'
    BY <1>1, <1>8 DEF Answered, Clean
  <2>6. Answered'
    BY <1>2, <2>3, <2>4, <2>5 DEF Answered
  <2> QED BY <1>1, <1>4, <2>6 DEF Protocol
<1> QED BY <1>1, <1>4, <1>7, <1>8, Stages

\* The client closes its socket, after a failure or on its own.
LEMMA ClientCloses ==
  ASSUME IInv, Closes("client"), UNCHANGED <<out, size, need, inbox, link, calls, executed>>,
         buf'["server"] = buf["server"]
  PROVE  Protocol'
<1>0. Shape
  BY DEF IInv
<1>1. /\ phase'["client"] = "idle" /\ phase'["server"] = phase["server"]
      /\ ~open'["client"] /\ open'["server"] = open["server"]
  BY <1>0 DEF Closes, Goes, Over, Shape, Ends
<1>2. SessionStays
  BY <1>1 DEF SessionStays, Unread
<1>3. Gone
  <2>1. CASE ~open["client"]
    BY <2>1 DEF IInv, Protocol
  <2>2. CASE Waiting
    BY <1>0, <2>2 DEF Waiting, Gone, Shape
  <2>3. CASE Between \/ Begun \/ Answered
    BY <2>3 DEF Between, Begun, Answered, InStep, Gone
  <2> QED BY <2>1, <2>2, <2>3 DEF IInv, Protocol
<1>4. Gone'
  BY <1>2, <1>3, SessionKept DEF Gone
<1> QED BY <1>1, <1>4 DEF Protocol

LEMMA ClientReceives ==
  ASSUME IInv, NEW m \in 1..Longest, Receive("client", m)
  PROVE  Protocol'
<1>0. Shape /\ "client" \in Ends /\ m \in Nat /\ m > 0
  BY LongestIsLongest DEF IInv, Ends
<1>1. /\ UNCHANGED <<phase, open, out, size, link, calls, executed>>
      /\ phase["client"] \in {"head", "data"}
      /\ m <= Len(inbox["client"])
      /\ buf'["server"] = buf["server"] /\ inbox'["server"] = inbox["server"]
      /\ need'["server"] = need["server"]
  BY <1>0 DEF Receive, Reads, Shape, Ends
<1>2. SessionStays
  BY <1>1 DEF SessionStays, Unread
<1>3. ~Clean("client")
  <2>1. Len(<<>>) = 0
    OBVIOUS
  <2> QED BY <1>0, <1>1, <2>1 DEF Clean
<1>4. open["client"]
  BY <1>0, <1>1 DEF Shape
<1>5. Answered
  BY <1>1, <1>3, <1>4, Stages DEF Waiting
<1>6. PICK c : c = calls
  OBVIOUS
<1>7. PICK n \in DataSizes, ok \in BOOLEAN :
        Stream("client", c, n, ok) /\ (ok => c \in Calls!Executed)
  BY <1>5, <1>6 DEF Answered
<1>8. Stream("client", c, n, ok)'
  BY <1>0, <1>7, ReceiveStream
<1>9. (Stream("client", calls, n, ok) /\ (ok => calls \in Calls!Executed))'
  BY <1>1, <1>6, <1>7, <1>8, ExecutedStays
<1>10. Rests'
  BY <1>2, <1>5, SessionKept DEF Answered
<1>11. ~(link /\ ~open["server"])
  BY <1>3, <1>5 DEF Answered
<1>12. Answered'
  BY <1>1, <1>9, <1>10, <1>11 DEF Answered
<1> QED BY <1>1, <1>4, <1>12 DEF Protocol

LEMMA ClientReadsHeader ==
  ASSUME IInv, ReadHeader("client")
  PROVE  Protocol'
<1>0. Shape /\ "client" \in Ends
  BY DEF IInv, Ends
<1>1. /\ UNCHANGED <<open, out, inbox, link, calls, executed>>
      /\ phase' = [phase EXCEPT !["client"] = "data"]
      /\ phase["client"] = "head" /\ HasLine(buf["client"])
      /\ buf'["server"] = buf["server"]
      /\ size'["server"] = size["server"] /\ need'["server"] = need["server"]
  BY <1>0 DEF ReadHeader, Goes, Shape, Ends
<1>2. phase'["client"] = "data" /\ phase'["server"] = phase["server"]
  BY <1>0, <1>1 DEF Shape, Ends
<1>3. SessionStays
  BY <1>1, <1>2 DEF SessionStays, Unread
<1>4. open["client"] /\ ~Clean("client")
  BY <1>0, <1>1, NoLine DEF Shape, Clean
<1>5. Answered
  BY <1>1, <1>4, Stages DEF Waiting
<1>6. PICK c : c = calls
  OBVIOUS
<1>7. PICK n \in DataSizes, ok \in BOOLEAN :
        Stream("client", c, n, ok) /\ (ok => c \in Calls!Executed)
  BY <1>5, <1>6 DEF Answered
<1>8. Stream("client", c, n, ok)'
  BY <1>0, <1>7, ReadHeaderStream
<1>9. (Stream("client", calls, n, ok) /\ (ok => calls \in Calls!Executed))'
  BY <1>1, <1>6, <1>7, <1>8, ExecutedStays
<1>10. Rests'
  BY <1>3, <1>5, SessionKept DEF Answered
<1>11. ~(link /\ ~open["server"])
  BY <1>4, <1>5 DEF Answered
<1>12. Answered'
  BY <1>1, <1>2, <1>9, <1>10, <1>11 DEF Answered
<1> QED BY <1>1, <1>4, <1>12 DEF Protocol

\* What the client has read when an answer is complete.
LEMMA CompleteAnswer ==
  ASSUME IInv, Complete("client")
  PROVE  /\ open["client"] /\ Answered
         /\ IsData(Data("client"))
         /\ Data("client")[1].of = calls
         /\ Data("client")[1].ok => calls \in Calls!Executed
         /\ WithoutData("client") = <<>> /\ inbox["client"] = <<>>
         /\ link => open["server"]
<1>0. Shape /\ "client" \in Ends /\ phase["client"] = "data" /\ need["client"] = 0
  BY DEF IInv, Ends, Complete
<1>1. open["client"]
  BY <1>0 DEF Shape
<1>2. Answered
  BY <1>0, <1>1, Stages
<1>3. PICK c : c = calls
  OBVIOUS
<1>4. PICK n \in DataSizes, ok \in BOOLEAN :
        Stream("client", c, n, ok) /\ (ok => c \in Calls!Executed)
  BY <1>2, <1>3 DEF Answered
<1>5. /\ IsData(Data("client")) /\ Data("client")[1].of = c
      /\ Data("client")[1].ok = ok
      /\ WithoutData("client") = <<>> /\ inbox["client"] = <<>>
  BY <1>0, <1>4, AllArrived
<1>6. link => open["server"]
  BY <1>0, <1>2 DEF Answered
<1> QED BY <1>1, <1>2, <1>3, <1>4, <1>5, <1>6

LEMMA ClientDelivers ==
  ASSUME IInv, Deliver
  PROVE  Protocol'
<1>0. Shape /\ "client" \in Ends
  BY DEF IInv, Ends
<1>1. /\ open["client"] /\ Answered
      /\ WithoutData("client") = <<>> /\ inbox["client"] = <<>>
      /\ link => open["server"]
  BY CompleteAnswer DEF Deliver
<1>2. /\ buf' = [buf EXCEPT !["client"] = <<>>]
      /\ UNCHANGED <<out, size, need, inbox, link, calls, executed>>
  BY <1>1 DEF Deliver
<1>3. buf'["client"] = <<>> /\ buf'["server"] = buf["server"]
  BY <1>0, <1>2 DEF Shape, Ends
<1>4. CASE keepAlive
  <2>1. phase' = [phase EXCEPT !["client"] = "idle"] /\ open' = open
    BY <1>4 DEF Deliver, Goes
  <2>2. phase'["client"] = "idle" /\ phase'["server"] = phase["server"]
    BY <1>0, <2>1 DEF Shape, Ends
  <2>3. SessionStays
    BY <1>2, <1>3, <2>1, <2>2 DEF SessionStays, Unread
  <2>4. Rests'
    BY <1>1, <2>3, SessionKept DEF Answered
  <2>5. Between'
    BY <1>1, <1>2, <1>3, <2>1, <2>2, <2>4 DEF Between, InStep, Clean
  <2> QED BY <1>1, <2>1, <2>5 DEF Protocol
<1>5. CASE ~keepAlive
  BY <1>2, <1>3, <1>5, ClientCloses DEF Deliver
<1> QED BY <1>4, <1>5

\* Any step that does not touch the ends, the network and the calls.
LEMMA NothingMoves ==
  ASSUME IInv, UNCHANGED <<phase, open, out, buf, size, need, inbox, link, calls, executed>>
  PROVE  Protocol'
<1>1. ClientStays /\ SessionStays
  BY DEF ClientStays, SessionStays, Unread
<1>2. Calls!Executed' = Calls!Executed
  BY ExecutedStays
<1> QED BY <1>1, <1>2, SessionKept, SessionGoesOn

LEMMA ConnectionCut ==
  ASSUME IInv, NEW i \in 0..Longest, NEW j \in 0..Longest, Cut(i, j)
  PROVE  Protocol'
<1>0. Shape /\ "server" \in Ends /\ "client" \in Ends
  BY DEF IInv, Ends
<1>1. /\ UNCHANGED <<phase, open, out, buf, size, need, calls, executed>>
      /\ ~link'
      /\ inbox' = [e \in Ends |-> SubSeq(inbox[e], 1, IF e = "client" THEN i ELSE j)]
      /\ i <= Len(inbox["client"]) /\ j <= Len(inbox["server"])
  BY DEF Cut, ends
<1>2. ASSUME NEW e \in Ends, Clean(e)
      PROVE  Clean(e)'
  <2>1. PICK m \in Nat : inbox'[e] = SubSeq(inbox[e], 1, m) /\ m <= Len(inbox[e])
    BY <1>1, LongestIsLongest DEF Ends
  <2>2. Len(<<>>) = 0
    OBVIOUS
  <2>3. m < 1
    BY <1>2, <2>1, <2>2 DEF Clean
  <2>4. SubSeq(inbox[e], 1, m) = <<>>
    BY <2>3, SubSeqEmpty
  <2> QED BY <1>1, <1>2, <2>1, <2>4 DEF Clean
<1>3. Calls!Executed' = Calls!Executed /\ \A k : Fresh(k)' <=> Fresh(k)
  BY <1>1, ExecutedStays
<1>4. Rests => Rests'
  BY <1>0, <1>1, <1>2 DEF Rests
<1>5. ASSUME NEW k, Serves(k)
      PROVE  Serves(k)'
  <2>1. PICK n \in DataSizes : Stream("server", k, n, TRUE)
    BY <1>5 DEF Serves
  <2>2. Stream("server", k, n, TRUE)'
    BY <1>0, <2>1, CutStream
  <2> QED BY <1>1, <1>3, <1>5, <2>2 DEF Serves
<1>6. ASSUME NEW k, AnswerDue(k)
      PROVE  AnswerDue(k)'
  BY <1>0, <1>1, <1>2, <1>3, <1>6 DEF AnswerDue
<1>7. PICK c : c = calls
  OBVIOUS
<1>8. calls' = c
  BY <1>1, <1>7
<1>9. CASE ~open["client"]
  BY <1>1, <1>4, <1>5, <1>6, <1>9 DEF IInv, Protocol, Gone
<1>10. CASE open["client"] /\ Between
  BY <1>0, <1>1, <1>2, <1>4, <1>10 DEF Protocol, Between, InStep
<1>11. CASE open["client"] /\ Begun
  BY <1>0, <1>1, <1>2, <1>3, <1>4, <1>11 DEF Protocol, Begun, InStep
<1>12. CASE open["client"] /\ Waiting
  <2>1. Serves(c)' \/ AnswerDue(c)'
    BY <1>5, <1>6, <1>7, <1>12 DEF Waiting
  <2>2. Serves(calls)' \/ AnswerDue(calls)'
    BY <1>8, <2>1
  <2> QED BY <1>0, <1>1, <1>2, <1>12, <2>2 DEF Protocol, Waiting
<1>13. CASE open["client"] /\ Answered
  <2>1. PICK n \in DataSizes, ok \in BOOLEAN :
          Stream("client", c, n, ok) /\ (ok => c \in Calls!Executed)
    BY <1>7, <1>13 DEF Answered
  <2>2. Stream("client", c, n, ok)'
    BY <1>0, <2>1, CutStream
  <2>3. (Stream("client", calls, n, ok) /\ (ok => calls \in Calls!Executed))'
    BY <1>3, <1>8, <2>1, <2>2
  <2>4. Answered'
    BY <1>1, <1>4, <1>13, <2>3 DEF Answered
  <2> QED BY <1>1, <1>13, <2>4 DEF Protocol
<1> QED BY <1>9, <1>10, <1>11, <1>12, <1>13 DEF IInv, Protocol

-----------------------------------------------------------------------------
(* The invariant.                                                          *)

LEMMA Start == Init => IInv
<1> SUFFICES ASSUME Init PROVE IInv
  OBVIOUS
<1>1. /\ phase["client"] = "idle" /\ phase["server"] = "head"
      /\ \A e \in Ends : /\ phase[e] \in Phases(e)
                         /\ open[e] /\ out[e] = <<>> /\ buf[e] = <<>> /\ inbox[e] = <<>>
                         /\ size[e] = 0 /\ need[e] = 0
  BY DEF Init, Ends, Phases
<1>2. calls = 0 /\ executed = <<>> /\ link = TRUE
  BY DEF Init
<1>3. <<>> \in Seq(Bytes) /\ <<>> \in Seq(1..MaxCalls) /\ Len(<<>>) = 0
  BY EmptySeq
<1>4. Shape
  <2>1. /\ phase \in [Ends -> {"idle", "write", "sent", "head", "data", "handle", "ended"}]
        /\ open \in [Ends -> BOOLEAN]
        /\ keepAlive \in BOOLEAN
        /\ size \in [Ends -> DataSizes \cup {0}]
        /\ need \in [Ends -> Nat]
        /\ calls \in 0..MaxCalls
        /\ res \in [1..MaxCalls -> 0..MaxCalls]
    BY ConnectionAssumption DEF Init, Ends
  <2>2. out \in [Ends -> Seq(Bytes)] /\ buf \in [Ends -> Seq(Bytes)]
        /\ inbox \in [Ends -> Seq(Bytes)]
    BY <1>3 DEF Init
  <2> QED BY <1>1, <1>2, <1>3, <2>1, <2>2 DEF Shape, Ends
<1>5. Protocol
  BY <1>1, <1>2 DEF Protocol, Between, InStep, Rests, Clean, Ends
<1>6. Requested /\ Results
  BY <1>1, <1>2 DEF Requested, Results
<1>7. Past
  BY <1>2, <1>3 DEF Past, Calls!Executed
<1> QED BY <1>4, <1>5, <1>6, <1>7 DEF IInv

\* The types, step by step; first the steps that change a sequence.
LEMMA WriteShape ==
  ASSUME IInv, NEW e \in Ends, Write(e)
  PROVE  Shape'
<1>0. Shape /\ Peer(e) \in Ends
  BY Peers DEF IInv
<1>1. /\ phase[e] = "write" /\ open[e]
      /\ phase' = [phase EXCEPT ![e] = "sent"]
      /\ UNCHANGED <<keepAlive, open, out, buf, size, need, link, calls, res, executed>>
  BY DEF Write, Goes
<1>2. inbox' \in [Ends -> Seq(Bytes)]
  <2>1. out[e] \in Seq(Bytes) /\ inbox[Peer(e)] \in Seq(Bytes)
    BY <1>0 DEF Shape
  <2>2. inbox[Peer(e)] \o out[e] \in Seq(Bytes)
    BY <2>1, ConcatProperties
  <2>3. (IF Broken(e) THEN inbox[Peer(e)] ELSE inbox[Peer(e)] \o out[e]) \in Seq(Bytes)
    BY <2>1, <2>2
  <2> QED BY <1>0, <2>3 DEF Write, Shape
<1>3. /\ phase' \in [Ends -> {"idle", "write", "sent", "head", "data", "handle", "ended"}]
      /\ \A f \in Ends : phase'[f] \in Phases(f)
      /\ phase'["server"] = "ended" <=> ~open'["server"]
      /\ ~open'["client"] => phase'["client"] \in {"idle", "write"}
      /\ phase'["client"] # "idle" => calls' > 0
  BY <1>0, <1>1 DEF Shape, Ends, Phases
<1> QED BY <1>0, <1>1, <1>2, <1>3 DEF Shape

LEMMA ReceiveShape ==
  ASSUME IInv, NEW e \in Ends, NEW m \in 1..Longest, Receive(e, m)
  PROVE  Shape'
<1>0. Shape /\ m \in Nat
  BY LongestIsLongest DEF IInv
<1>1. /\ UNCHANGED <<keepAlive, phase, open, out, size, link, calls, res, executed>>
      /\ m <= Len(inbox[e])
      /\ phase[e] = "data" => m <= need[e]
  BY DEF Receive
<1>2. buf[e] \in Seq(Bytes) /\ inbox[e] \in Seq(Bytes) /\ need[e] \in Nat
  BY <1>0 DEF Shape
<1>3. SubSeq(inbox[e], 1, m) \in Seq(Bytes) /\ Rest(inbox[e], m) \in Seq(Bytes)
  BY <1>0, <1>1, <1>2, PrefixIsPart, RestIsPart
<1>4. buf[e] \o SubSeq(inbox[e], 1, m) \in Seq(Bytes)
  BY <1>2, <1>3, ConcatProperties
<1>5. buf' \in [Ends -> Seq(Bytes)] /\ inbox' \in [Ends -> Seq(Bytes)]
  BY <1>0, <1>3, <1>4 DEF Receive, Shape
<1>6. (IF phase[e] = "data" THEN need[e] - m ELSE need[e]) \in Nat
  BY <1>0, <1>1, <1>2
<1>7. need' \in [Ends -> Nat]
  BY <1>0, <1>6 DEF Receive, Shape
<1> QED BY <1>0, <1>1, <1>5, <1>7 DEF Shape

\* Whoever reads reads a message.
LEMMA Reading ==
  ASSUME IInv, NEW e \in Ends,
         \/ phase[e] = "head" /\ ~Clean(e)
         \/ phase[e] \in {"data", "handle"}
  PROVE  \E k, ok : \E n \in DataSizes : Stream(e, k, n, ok)
<1>0. Shape
  BY DEF IInv
<1>1. CASE e = "client"
  <2>1. open["client"]
    BY <1>0, <1>1 DEF Shape
  <2>2. phase["client"] # "handle"
    BY <1>0 DEF Shape, Phases, Ends
  <2>3. Answered
    BY <1>1, <2>1, <2>2, Stages DEF Waiting
  <2> QED BY <1>1, <2>3 DEF Answered
<1>2. CASE e = "server"
  <2>1. ~Rests
    BY <1>2, Resting
  <2>2. \A k : ~AnswerDue(k)
    BY <1>2 DEF AnswerDue
  <2>3. \E k : Serves(k)
    <3>1. CASE open["client"]
      <4>1. Waiting
        BY <2>1, <3>1 DEF IInv, Protocol, Between, Begun, Answered, InStep
      <4> QED BY <2>2, <4>1 DEF Waiting
    <3>2. CASE ~open["client"]
      BY <2>1, <2>2, <3>2 DEF IInv, Protocol, Gone
    <3> QED BY <3>1, <3>2
  <2> QED BY <1>2, <2>3 DEF Serves
<1> QED BY <1>1, <1>2 DEF Ends

LEMMA ReadHeaderShape ==
  ASSUME IInv, NEW e \in Ends, ReadHeader(e)
  PROVE  Shape'
<1>0. Shape
  BY DEF IInv
<1>1. /\ phase' = [phase EXCEPT ![e] = "data"]
      /\ phase[e] = "head" /\ HasLine(buf[e])
      /\ UNCHANGED <<keepAlive, open, out, inbox, link, calls, res, executed>>
      /\ size' = [size EXCEPT ![e] = size'[e]]
      /\ need' = [need EXCEPT ![e] = need'[e]]
      /\ buf' = [buf EXCEPT ![e] = buf'[e]]
  BY <1>0 DEF ReadHeader, Goes, Shape
<1>2. PICK k, ok : \E n \in DataSizes : Stream(e, k, n, ok)
  BY <1>1, NoLine, Reading DEF Clean
<1>3. PICK n \in DataSizes : Stream(e, k, n, ok)
  BY <1>2
<1>4. size'[e] \in DataSizes /\ need'[e] \in Nat /\ buf'[e] \in Seq(Bytes)
  BY <1>0, <1>3, ReadHeaderStream
<1>5. /\ size' \in [Ends -> DataSizes \cup {0}]
      /\ need' \in [Ends -> Nat]
      /\ buf' \in [Ends -> Seq(Bytes)]
  BY <1>0, <1>1, <1>4 DEF Shape
<1>6. /\ phase' \in [Ends -> {"idle", "write", "sent", "head", "data", "handle", "ended"}]
      /\ \A f \in Ends : phase'[f] \in Phases(f)
      /\ phase'["server"] = "ended" <=> ~open'["server"]
      /\ ~open'["client"] => phase'["client"] \in {"idle", "write"}
      /\ phase'["client"] # "idle" => calls' > 0
  BY <1>0, <1>1 DEF Shape, Ends, Phases
<1> QED BY <1>0, <1>1, <1>5, <1>6 DEF Shape

LEMMA CutShape ==
  ASSUME IInv, NEW i \in 0..Longest, NEW j \in 0..Longest, Cut(i, j)
  PROVE  Shape'
<1>0. Shape /\ i \in Nat /\ j \in Nat
  BY LongestIsLongest DEF IInv
<1>1. /\ UNCHANGED <<ends, calls, res, executed>> /\ link' = FALSE
      /\ inbox' = [e \in Ends |-> SubSeq(inbox[e], 1, IF e = "client" THEN i ELSE j)]
      /\ i <= Len(inbox["client"]) /\ j <= Len(inbox["server"])
  BY DEF Cut
<1>2. ASSUME NEW e \in Ends
      PROVE  SubSeq(inbox[e], 1, IF e = "client" THEN i ELSE j) \in Seq(Bytes)
  <2>1. PICK m \in Nat : m = (IF e = "client" THEN i ELSE j)
    BY <1>0
  <2>2. m <= Len(inbox[e]) /\ inbox[e] \in Seq(Bytes)
    BY <1>0, <1>1, <2>1 DEF Ends, Shape
  <2> QED BY <2>1, <2>2, PrefixIsPart
<1>3. inbox' \in [Ends -> Seq(Bytes)]
  BY <1>1, <1>2
<1> QED BY <1>0, <1>1, <1>3 DEF Shape, ends

LEMMA RunShape ==
  ASSUME IInv, NEW n \in DataSizes, Run(n)
  PROVE  Shape'
<1>0. Shape
  BY DEF IInv
<1>1. /\ phase["client"] = "idle" /\ calls < MaxCalls /\ calls' = calls + 1
      /\ out' = [out EXCEPT !["client"] = Message(calls + 1, n, TRUE)]
      /\ buf' = [buf EXCEPT !["client"] = IF calls = 0 THEN @ ELSE <<>>]
      /\ phase' = [phase EXCEPT !["client"] = "write"]
      /\ UNCHANGED <<keepAlive, open, size, need, inbox, link, res, executed>>
  BY DEF Run, RequestBuffer, Goes
<1>2. calls + 1 \in 1..MaxCalls
  BY <1>0, <1>1, ConnectionAssumption DEF Shape
<1>3. PICK c \in 1..MaxCalls : c = calls + 1
  BY <1>2
<1>4. Message(c, n, TRUE) \in Seq(Bytes)
  BY MessageIs
<1>5. out' \in [Ends -> Seq(Bytes)] /\ buf' \in [Ends -> Seq(Bytes)]
  BY <1>0, <1>1, <1>3, <1>4, EmptySeq DEF Shape
<1>6. /\ phase' \in [Ends -> {"idle", "write", "sent", "head", "data", "handle", "ended"}]
      /\ \A f \in Ends : phase'[f] \in Phases(f)
      /\ phase'["server"] = "ended" <=> ~open'["server"]
      /\ ~open'["client"] => phase'["client"] \in {"idle", "write"}
  BY <1>0, <1>1 DEF Shape, Ends, Phases
<1>7. calls' \in 0..MaxCalls /\ calls' > 0
  BY <1>1, <1>2
<1> QED BY <1>0, <1>1, <1>5, <1>6, <1>7 DEF Shape

LEMMA DeliverShape ==
  ASSUME IInv, Deliver
  PROVE  Shape'
<1>0. Shape
  BY DEF IInv
<1>1. /\ open["client"] /\ phase["client"] = "data"
      /\ Data("client")[1].of = calls
      /\ WithoutData("client") = <<>>
  BY CompleteAnswer DEF Deliver, Complete
<1>2. /\ res' = [res EXCEPT ![calls] = calls]
      /\ buf' = [buf EXCEPT !["client"] = <<>>]
      /\ phase' = [phase EXCEPT !["client"] = "idle"]
      /\ open' = open \/ open' = [open EXCEPT !["client"] = FALSE]
      /\ UNCHANGED <<keepAlive, out, size, need, inbox, link, calls, executed>>
  BY <1>1 DEF Deliver, Closes, Goes, Over
<1>3. res' \in [1..MaxCalls -> 0..MaxCalls]
  BY <1>0, <1>2, ConnectionAssumption DEF Shape
<1>4. buf' \in [Ends -> Seq(Bytes)]
  BY <1>0, <1>2, EmptySeq DEF Shape
<1>5. /\ phase' \in [Ends -> {"idle", "write", "sent", "head", "data", "handle", "ended"}]
      /\ \A f \in Ends : phase'[f] \in Phases(f)
      /\ open' \in [Ends -> BOOLEAN]
      /\ phase'["server"] = "ended" <=> ~open'["server"]
      /\ phase'["client"] = "idle"
  BY <1>0, <1>2 DEF Shape, Ends, Phases
<1> QED BY <1>0, <1>2, <1>3, <1>4, <1>5 DEF Shape

LEMMA AnswerShape ==
  ASSUME IInv, NEW n \in DataSizes, Handle(n) \/ Refuse(n)
  PROVE  Shape'
<1>0. Shape /\ Handling
  BY DEF IInv, Handle, Refuse
<1>1. PICK k \in 1..calls :
        IsData(Request) /\ Request[1].of = k /\ WithoutData("server") = <<>>
  BY <1>0, HandledRequest
<1>2. k \in 1..MaxCalls
  BY <1>0, ConnectionAssumption DEF Shape
<1>3. PICK ok \in BOOLEAN :
        /\ out' = [out EXCEPT !["server"] = Message(k, n, ok)]
        /\ buf' = [buf EXCEPT !["server"] = <<>>]
        /\ phase' = [phase EXCEPT !["server"] = "write"]
        /\ UNCHANGED <<keepAlive, open, size, need, inbox, link, calls, res>>
        /\ executed' = executed \/ executed' = Append(executed, k)
  <2>1. CASE Handle(n)
    BY <1>1, <2>1 DEF Handle, Answers, AnswerBuffer, Goes
  <2>2. CASE Refuse(n)
    BY <1>1, <2>2 DEF Refuse, Answers, AnswerBuffer, Goes
  <2> QED BY <2>1, <2>2
<1>4. Message(k, n, ok) \in Seq(Bytes)
  BY <1>2, MessageIs
<1>5. out' \in [Ends -> Seq(Bytes)] /\ buf' \in [Ends -> Seq(Bytes)]
  BY <1>0, <1>3, <1>4, EmptySeq DEF Shape
<1>6. executed' \in Seq(1..MaxCalls)
  <2>1. executed \in Seq(1..MaxCalls)
    BY <1>0 DEF Shape
  <2>2. Append(executed, k) \in Seq(1..MaxCalls)
    BY <1>2, <2>1, AppendProperties, Zenon
  <2> QED BY <1>3, <2>1, <2>2
<1>7. /\ phase' \in [Ends -> {"idle", "write", "sent", "head", "data", "handle", "ended"}]
      /\ \A f \in Ends : phase'[f] \in Phases(f)
      /\ phase'["server"] = "ended" <=> ~open'["server"]
      /\ ~open'["client"] => phase'["client"] \in {"idle", "write"}
      /\ phase'["client"] # "idle" => calls' > 0
  BY <1>0, <1>3 DEF Shape, Ends, Phases, Handling
<1> QED BY <1>0, <1>3, <1>5, <1>6, <1>7 DEF Shape

LEMMA ThrowShape ==
  ASSUME IInv, HandlerThrows
  PROVE  Shape'
<1>0. Shape /\ Handling
  BY DEF IInv, HandlerThrows
<1>1. PICK k \in 1..calls :
        IsData(Request) /\ Request[1].of = k /\ WithoutData("server") = <<>>
  BY <1>0, HandledRequest
<1>2. k \in 1..MaxCalls
  BY <1>0, ConnectionAssumption DEF Shape
<1>3. /\ phase' = [phase EXCEPT !["server"] = "ended"]
      /\ open' = [open EXCEPT !["server"] = FALSE]
      /\ buf' = [buf EXCEPT !["server"] = <<>>]
      /\ UNCHANGED <<keepAlive, out, size, need, inbox, link, calls, res>>
      /\ executed' = executed \/ executed' = Append(executed, k)
  BY <1>0, <1>1 DEF HandlerThrows, Closes, Goes, Over
<1>4. buf' \in [Ends -> Seq(Bytes)] /\ executed' \in Seq(1..MaxCalls)
  <2>1. buf \in [Ends -> Seq(Bytes)] /\ executed \in Seq(1..MaxCalls)
    BY <1>0 DEF Shape
  <2>2. Append(executed, k) \in Seq(1..MaxCalls)
    BY <1>2, <2>1, AppendProperties, Zenon
  <2> QED BY <1>3, <2>1, <2>2, EmptySeq
<1>5. /\ phase' \in [Ends -> {"idle", "write", "sent", "head", "data", "handle", "ended"}]
      /\ \A f \in Ends : phase'[f] \in Phases(f)
      /\ open' \in [Ends -> BOOLEAN]
      /\ phase'["server"] = "ended" <=> ~open'["server"]
      /\ ~open'["client"] => phase'["client"] \in {"idle", "write"}
      /\ phase'["client"] # "idle" => calls' > 0
  BY <1>0, <1>3 DEF Shape, Ends, Phases, Handling
<1> QED BY <1>0, <1>3, <1>4, <1>5 DEF Shape

\* The steps that change no sequence.
LEMMA MovesShape ==
  ASSUME IInv, UNCHANGED <<out, buf, size, need, inbox, link, calls, res, executed>>,
         \/ \E e \in Ends : Closes(e) /\ keepAlive' = keepAlive
         \/ \E e \in Ends : Written(e)
         \/ Process
         \/ \E b \in BOOLEAN : SetSessionAlive(b)
         \/ UNCHANGED <<phase, open, keepAlive>>
  PROVE  Shape'
<1>0. Shape
  BY DEF IInv
<1>1. keepAlive' \in BOOLEAN
  BY <1>0 DEF Written, Process, SetSessionAlive, Shape
<1>2. /\ phase' \in [Ends -> {"idle", "write", "sent", "head", "data", "handle", "ended"}]
      /\ \A f \in Ends : phase'[f] \in Phases(f)
      /\ open' \in [Ends -> BOOLEAN]
      /\ phase'["server"] = "ended" <=> ~open'["server"]
      /\ ~open'["client"] => phase'["client"] \in {"idle", "write"}
      /\ phase'["client"] # "idle" => calls' > 0
  <2>1. CASE \E e \in Ends : Closes(e)
    BY <1>0, <2>1 DEF Closes, Goes, Over, Shape, Ends, Phases
  <2>2. CASE \E e \in Ends : Written(e)
    BY <1>0, <2>2 DEF Written, Goes, Shape, Ends, Phases
  <2>3. CASE Process
    BY <1>0, <2>3 DEF Process, Complete, Goes, Shape, Ends, Phases
  <2>4. CASE UNCHANGED <<phase, open>>
    BY <1>0, <2>4 DEF Shape
  <2> QED BY <2>1, <2>2, <2>3, <2>4 DEF SetSessionAlive
<1> QED BY <1>0, <1>1, <1>2 DEF Shape

-----------------------------------------------------------------------------
(* Every step keeps the invariant.                                         *)

\* The steps of Next, told apart.
LEMMA NextSteps ==
  ASSUME Next
  PROVE  \/ \E e \in Ends : Write(e) \/ Written(e) \/ WriteFails(e) \/ ReadFails(e)
                            \/ ReadHeader(e) \/ \E m \in 1..Longest : Receive(e, m)
         \/ Deliver \/ DeliverFails \/ Process \/ HandlerThrows
         \/ \E n \in DataSizes : Handle(n) \/ Refuse(n) \/ Run(n)
         \/ \E b \in BOOLEAN : SetSessionAlive(b)
         \/ CloseClient
         \/ \E i, j \in 0..Longest : Cut(i, j)
         \/ UNCHANGED vars
  BY DEF Next, ClientStep, SessionStep, Step, Finished, Ends

LEMMA StepShape == IInv /\ [Next]_vars => Shape'
<1> SUFFICES ASSUME IInv, [Next]_vars PROVE Shape'
  OBVIOUS
<1>1. CASE \E e \in Ends : Write(e)
  BY <1>1, WriteShape
<1>2. CASE \E e \in Ends : \E m \in 1..Longest : Receive(e, m)
  BY <1>2, ReceiveShape
<1>3. CASE \E e \in Ends : ReadHeader(e)
  BY <1>3, ReadHeaderShape
<1>4. CASE Deliver
  BY <1>4, DeliverShape
<1>5. CASE HandlerThrows
  BY <1>5, ThrowShape
<1>6. CASE \E n \in DataSizes : Handle(n) \/ Refuse(n)
  BY <1>6, AnswerShape
<1>7. CASE \E n \in DataSizes : Run(n)
  BY <1>7, RunShape
<1>8. CASE \E i, j \in 0..Longest : Cut(i, j)
  BY <1>8, CutShape
<1>9. CASE \E e \in Ends : Written(e)
  <2>1. UNCHANGED <<out, buf, size, need, inbox, link, calls, res, executed>>
    BY <1>9 DEF Written
  <2> QED BY <1>9, <2>1, MovesShape
<1>10. CASE \E e \in Ends : WriteFails(e) \/ ReadFails(e)
  <2>1. /\ UNCHANGED <<out, buf, size, need, inbox, link, calls, res, executed>>
        /\ \E e \in Ends : Closes(e) /\ keepAlive' = keepAlive
    BY <1>10 DEF WriteFails, ReadFails
  <2> QED BY <2>1, MovesShape
<1>11. CASE DeliverFails \/ CloseClient
  <2>1. /\ UNCHANGED <<out, buf, size, need, inbox, link, calls, res, executed>>
        /\ Closes("client") /\ keepAlive' = keepAlive /\ "client" \in Ends
    BY <1>11 DEF DeliverFails, CloseClient, Ends
  <2> QED BY <2>1, MovesShape
<1>12. CASE Process
  <2>1. UNCHANGED <<out, buf, size, need, inbox, link, calls, res, executed>>
    BY <1>12 DEF Process
  <2> QED BY <1>12, <2>1, MovesShape
<1>13. CASE \E b \in BOOLEAN : SetSessionAlive(b)
  <2>1. UNCHANGED <<out, buf, size, need, inbox, link, calls, res, executed>>
    BY <1>13 DEF SetSessionAlive
  <2> QED BY <1>13, <2>1, MovesShape
<1>14. CASE UNCHANGED vars
  BY <1>14, MovesShape DEF vars, ends
<1> QED BY <1>1, <1>2, <1>3, <1>4, <1>5, <1>6, <1>7, <1>8, <1>9, <1>10, <1>11, <1>12,
           <1>13, <1>14, NextSteps

LEMMA StepProtocol == IInv /\ [Next]_vars => Protocol'
<1> SUFFICES ASSUME IInv, [Next]_vars PROVE Protocol'
  OBVIOUS
<1>1. CASE \E e \in Ends : Write(e)
  BY <1>1, ClientWrites, SessionWrites DEF Ends
<1>2. CASE \E e \in Ends : \E m \in 1..Longest : Receive(e, m)
  BY <1>2, ClientReceives, SessionReceives DEF Ends
<1>3. CASE \E e \in Ends : ReadHeader(e)
  BY <1>3, ClientReadsHeader, SessionReadsHeader DEF Ends
<1>4. CASE \E e \in Ends : Written(e)
  BY <1>4, ClientWritten, SessionWritten DEF Ends
<1>5. CASE WriteFails("server") \/ ReadFails("server")
  BY <1>5, SessionFails
<1>6. CASE WriteFails("client") \/ ReadFails("client") \/ DeliverFails \/ CloseClient
  <2>1. /\ Closes("client")
        /\ UNCHANGED <<out, buf, size, need, inbox, link, calls, executed>>
    BY <1>6 DEF WriteFails, ReadFails, DeliverFails, CloseClient
  <2> QED BY <2>1, ClientCloses
<1>7. CASE Deliver
  BY <1>7, ClientDelivers
<1>8. CASE Process
  BY <1>8, SessionProcesses
<1>9. CASE HandlerThrows
  BY <1>9, SessionThrows
<1>10. CASE \E n \in DataSizes : Handle(n) \/ Refuse(n)
  BY <1>10, SessionAnswers
<1>11. CASE \E n \in DataSizes : Run(n)
  BY <1>11, ClientRuns
<1>12. CASE \E i, j \in 0..Longest : Cut(i, j)
  BY <1>12, ConnectionCut
<1>13. CASE (\E b \in BOOLEAN : SetSessionAlive(b)) \/ UNCHANGED vars
  <2>1. UNCHANGED <<phase, open, out, buf, size, need, inbox, link, calls, executed>>
    BY <1>13 DEF SetSessionAlive, vars, ends
  <2> QED BY <2>1, NothingMoves
<1> QED
  <2>1. CASE \E e \in Ends : WriteFails(e) \/ ReadFails(e)
    BY <1>5, <1>6, <2>1 DEF Ends
  <2> QED BY <1>1, <1>2, <1>3, <1>4, <1>6, <1>7, <1>8, <1>9, <1>10, <1>11, <1>12, <1>13,
             <2>1, NextSteps

\* What a step does to the calls and their results.
LEMMA CallsStep ==
  ASSUME IInv, [Next]_vars
  PROVE  \/ /\ \E n \in DataSizes : Run(n)
         \/ /\ phase["client"] # "write" => phase'["client"] # "write"
            /\ phase["client"] = "write" /\ phase'["client"] = "write" =>
                 out'["client"] = out["client"]
            /\ calls' = calls
            /\ \/ Deliver
               \/ /\ res' = res
                  /\ phase["client"] # "idle" /\ phase'["client"] = "idle" =>
                       ~open'["client"]
                  /\ phase["client"] = "idle" => phase'["client"] = "idle"
                  /\ ~open["client"] => ~open'["client"]
<1>0. Shape
  BY DEF IInv
<1>1. CASE \E n \in DataSizes : Run(n)
  BY <1>1
<1>2. CASE \E e \in Ends : Write(e) \/ Written(e) \/ WriteFails(e) \/ ReadFails(e)
  BY <1>0, <1>2 DEF Write, Written, WriteFails, ReadFails, Closes, Goes, Over, Shape, Ends
<1>3. CASE \E e \in Ends : ReadHeader(e)
  BY <1>0, <1>3 DEF ReadHeader, Goes, Shape, Ends
<1>4. CASE \E e \in Ends : \E m \in 1..Longest : Receive(e, m)
  BY <1>0, <1>4 DEF Receive
<1>5. CASE Deliver
  BY <1>0, <1>5 DEF Deliver, Closes, Goes, Over, Shape, Ends
<1>6. CASE DeliverFails \/ CloseClient
  BY <1>0, <1>6 DEF DeliverFails, CloseClient, Closes, Goes, Over, Shape, Ends
<1>7. CASE Process \/ HandlerThrows
  BY <1>0, <1>7 DEF Process, HandlerThrows, Closes, Goes, Over, Shape, Ends
<1>8. CASE \E n \in DataSizes : Handle(n) \/ Refuse(n)
  BY <1>0, <1>8 DEF Handle, Refuse, Answers, Goes, Shape, Ends
<1>9. CASE (\E b \in BOOLEAN : SetSessionAlive(b)) \/ UNCHANGED vars
  BY <1>9 DEF SetSessionAlive, vars, ends
<1>10. CASE \E i, j \in 0..Longest : Cut(i, j)
  BY <1>10 DEF Cut, ends
<1> QED BY <1>1, <1>2, <1>3, <1>4, <1>5, <1>6, <1>7, <1>8, <1>9, <1>10, NextSteps

LEMMA StepRequested == IInv /\ [Next]_vars => Requested'
<1> SUFFICES ASSUME IInv, [Next]_vars, phase'["client"] = "write"
             PROVE  \E n \in DataSizes : out'["client"] = Message(calls', n, TRUE)
  BY DEF Requested
<1>0. Shape /\ Requested
  BY DEF IInv
<1>1. CASE \E n \in DataSizes : Run(n)
  <2>1. PICK n \in DataSizes : Run(n)
    BY <1>1
  <2>2. /\ out' = [out EXCEPT !["client"] = Message(calls + 1, n, TRUE)]
        /\ calls' = calls + 1
    BY <2>1 DEF Run, RequestBuffer
  <2>3. out'["client"] = Message(calls + 1, n, TRUE)
    BY <1>0, <2>2 DEF Shape, Ends
  <2> QED BY <2>2, <2>3
<1>2. CASE ~ \E n \in DataSizes : Run(n)
  <2>1. phase["client"] = "write" /\ out'["client"] = out["client"] /\ calls' = calls
    BY <1>2, CallsStep
  <2>2. PICK n \in DataSizes : out["client"] = Message(calls, n, TRUE)
    BY <1>0, <2>1 DEF Requested
  <2> QED BY <2>1, <2>2
<1> QED BY <1>1, <1>2

LEMMA StepResults == IInv /\ [Next]_vars => Results'
<1> SUFFICES ASSUME IInv, [Next]_vars, open'["client"], NEW k \in 1..calls'
             PROVE  res'[k] # 0 \/ (k = calls' /\ phase'["client"] # "idle")
  BY DEF Results
<1>0. Shape /\ Results /\ calls \in Nat
  BY DEF IInv, Shape
<1>1. CASE \E n \in DataSizes : Run(n)
  <2>1. /\ phase["client"] = "idle" /\ open["client"]
        /\ calls' = calls + 1 /\ res' = res
        /\ phase'["client"] = "write"
    BY <1>0, <1>1 DEF Run, Goes, Shape, Ends
  <2>2. k = calls + 1 \/ k \in 1..calls
    BY <1>0, <2>1
  <2> QED BY <1>0, <2>1, <2>2 DEF Results
<1>2. CASE Deliver
  <2>1. /\ open["client"] /\ phase["client"] = "data"
        /\ Data("client")[1].of = calls
    BY <1>2, CompleteAnswer DEF Deliver, Complete
  <2>2. res' = [res EXCEPT ![calls] = calls] /\ calls' = calls
    BY <1>2, <2>1 DEF Deliver
  <2>3. calls > 0 /\ calls <= MaxCalls
    BY <1>0, <2>1, ConnectionAssumption DEF Shape
  <2>4. res'[calls] = calls /\ \A j \in 1..calls : j # calls => res'[j] = res[j]
    BY <1>0, <2>2, <2>3, ConnectionAssumption DEF Shape
  <2> QED BY <1>0, <2>1, <2>2, <2>3, <2>4 DEF Results
<1>3. CASE ~Deliver /\ ~ \E n \in DataSizes : Run(n)
  <2>1. /\ calls' = calls /\ res' = res /\ open["client"]
        /\ phase'["client"] = "idle" => phase["client"] = "idle"
    BY <1>0, <1>3, CallsStep DEF Shape
  <2> QED BY <1>0, <2>1 DEF Results
<1> QED BY <1>1, <1>2, <1>3

\* What a step does to the history: the handler runs for a call that was made,
\* behind those it has run for.
LEMMA ExecutedStep ==
  ASSUME IInv, [Next]_vars
  PROVE  \/ executed' = executed
         \/ /\ \E k \in 1..calls : Fresh(k) /\ executed' = Append(executed, k)
            /\ calls' = calls /\ res' = res
            /\ phase'["client"] = phase["client"]
<1>0. Shape
  BY DEF IInv
<1>1. CASE (\E n \in DataSizes : Handle(n)) \/ HandlerThrows
  <2>1. Handling
    BY <1>1 DEF Handle, HandlerThrows
  <2>2. PICK k \in 1..calls : Serves(k) /\ Request[1].of = k
    BY <2>1, HandledRequest
  <2>3. executed' = executed \/ executed' = Append(executed, k)
    BY <1>1, <2>2 DEF Handle, HandlerThrows
  <2>4. calls' = calls /\ res' = res /\ phase'["client"] = phase["client"]
    BY <1>0, <1>1 DEF Handle, Answers, HandlerThrows, Closes, Goes, Over, Shape, Ends
  <2> QED BY <2>2, <2>3, <2>4 DEF Serves
<1>2. CASE \E n \in DataSizes : Refuse(n) \/ Run(n)
  BY <1>2 DEF Refuse, Run
<1>3. CASE \E e \in Ends : Write(e) \/ Written(e) \/ WriteFails(e) \/ ReadFails(e)
                            \/ ReadHeader(e) \/ \E m \in 1..Longest : Receive(e, m)
  BY <1>3 DEF Write, Written, WriteFails, ReadFails, ReadHeader, Receive
<1>4. CASE Deliver \/ DeliverFails \/ Process \/ CloseClient
  BY <1>4 DEF Deliver, DeliverFails, Process, CloseClient
<1>5. CASE (\E b \in BOOLEAN : SetSessionAlive(b)) \/ UNCHANGED vars
  BY <1>5 DEF SetSessionAlive, vars
<1>6. CASE \E i, j \in 0..Longest : Cut(i, j)
  BY <1>6 DEF Cut
<1> QED BY <1>1, <1>2, <1>3, <1>4, <1>5, <1>6, NextSteps

LEMMA StepPast == IInv /\ [Next]_vars => Past'
<1> SUFFICES ASSUME IInv, [Next]_vars PROVE Past'
  OBVIOUS
<1>1. Shape /\ Past /\ calls \in Nat /\ calls' \in Nat
  <2>1. Shape /\ Past /\ Shape'
    BY StepShape DEF IInv
  <2>2. calls \in 0..MaxCalls /\ calls' \in 0..MaxCalls
    BY <2>1, Zenon DEF Shape
  <2> QED BY <2>1, <2>2, ConnectionAssumption
<1>2. calls <= calls'
  <2>1. calls' = calls \/ calls' = calls + 1
    BY CallsStep DEF Run
  <2> QED BY <1>1, <2>1
<1>3. \A j \in Calls!Executed : j \in Nat
  BY <1>1, ExecutedType
<1>4. CASE executed' = executed
  BY <1>1, <1>2, <1>3, <1>4, ExecutedStays DEF Past
<1>5. CASE executed' # executed
  <2>1. PICK k \in 1..calls : executed' = Append(executed, k)
    BY <1>5, ExecutedStep
  <2>2. Calls!Executed' = Calls!Executed \cup {k}
    BY <1>1, <2>1, ExecutedGrows
  <2> QED BY <1>1, <1>2, <1>3, <2>2 DEF Past
<1> QED BY <1>4, <1>5

\* The invariant of a connection.
LEMMA ConnectionInvariant == Spec => []IInv
<1>1. Init => IInv
  BY Start
<1>2. IInv /\ [Next]_vars => IInv'
  BY StepShape, StepProtocol, StepRequested, StepResults, StepPast DEF IInv
<1> QED BY <1>1, <1>2, PTL DEF Spec

-----------------------------------------------------------------------------
(* The theorems.                                                           *)

\* The buffers hold bytes of messages, and an end that reads data knows how
\* much of it is missing, for any number of calls, sizes of data, pieces in
\* which it arrives, failures and cuts.
THEOREM Typed == Spec => []TypeOK
<1>1. IInv => TypeOK
  <2> SUFFICES ASSUME IInv PROVE TypeOK
    OBVIOUS
  <2>0. Shape
    BY DEF IInv
  <2>1. ASSUME NEW e \in Ends, phase[e] = "data"
        PROVE  Len(buf[e]) + need[e] = size[e]
    <3>1. PICK k, ok : \E n \in DataSizes : Stream(e, k, n, ok)
      BY <2>1, Reading
    <3>2. PICK n \in DataSizes : Stream(e, k, n, ok)
      BY <3>1
    <3>3. size[e] = n /\ need[e] = n - Len(buf[e])
      BY <2>1, <3>2 DEF Stream
    <3>4. buf[e] \in Seq(Bytes) /\ n \in Nat
      BY <2>0, ConnectionAssumption DEF Shape
    <3>5. Len(buf[e]) \in Nat
      BY <3>4, LenProperties
    <3> QED BY <3>3, <3>4, <3>5
  <2>2. /\ phase["client"] \in {"idle", "write", "sent", "head", "data"}
        /\ phase["server"] \in {"head", "data", "handle", "write", "sent", "ended"}
    BY <2>0 DEF Shape, Phases, Ends
  <2>3. \A e \in Ends : /\ {out[e], buf[e], inbox[e]} \subseteq Seq(Bytes)
                        /\ size[e] \in DataSizes \cup {0}
                        /\ need[e] \in Nat
    BY <2>0 DEF Shape
  <2> QED BY <2>0, <2>1, <2>2, <2>3 DEF TypeOK, Shape
<1> QED BY <1>1, ConnectionInvariant, PTL

\* Between two calls on a connection in order, nothing is left over that the
\* next call could take for its own.
THEOREM NothingLeftOver == Spec => []Aligned
<1>1. IInv => Aligned
  <2> SUFFICES ASSUME IInv, phase["client"] = "idle", open["client"], link
               PROVE  /\ \A e \in Ends : buf[e] = <<>> /\ inbox[e] = <<>>
                      /\ phase["server"] \in {"sent", "head"}
    BY DEF Aligned
  <2>1. Between
    BY Stages
  <2> QED BY <2>1, Resting DEF Between, InStep, Clean, Ends
<1> QED BY <1>1, ConnectionInvariant, PTL

-----------------------------------------------------------------------------
(* A connection implements the calls RemoteCall promises.                  *)

\* A new connection is one on which no call was made (client.hpp, server.hpp).
THEOREM CallsStart == Init => Calls!Init
  BY DEF Init, Calls!Init, Ends

\* Run begins a call, Deliver returns its answer, the session's handler executes
\* it, a client that gives up fails it, and no other step is seen.
THEOREM CallsRefined == IInv /\ [Next]_vars => [Calls!Next]_(Calls!callVars)
<1> SUFFICES ASSUME IInv, [Next]_vars
             PROVE  Calls!Next \/ UNCHANGED Calls!callVars
  BY DEF Calls!callVars
<1>0. Shape
  BY DEF IInv
<1>1. CASE executed' # executed
  <2>1. PICK k \in 1..calls :
          /\ Fresh(k) /\ executed' = Append(executed, k)
          /\ calls' = calls /\ res' = res /\ phase'["client"] = phase["client"]
    BY <1>1, ExecutedStep
  <2>2. Calls!Execute
    BY <2>1 DEF Calls!Execute, Fresh
  <2> QED BY <2>2 DEF Calls!Next
<1>2. CASE executed' = executed
  <2>1. CASE \E n \in DataSizes : Run(n)
    <3>1. /\ phase["client"] = "idle" /\ phase'["client"] = "write"
          /\ calls < MaxCalls /\ calls' = calls + 1 /\ res' = res
      BY <1>0, <2>1 DEF Run, Goes, Shape, Ends
    <3>2. Calls!Begin
      BY <1>2, <3>1 DEF Calls!Begin
    <3> QED BY <3>2 DEF Calls!Next
  <2>2. CASE Deliver
    <3>1. /\ open["client"] /\ phase["client"] = "data"
          /\ Data("client")[1].of = calls /\ calls \in Calls!Executed
      BY <2>2, CompleteAnswer DEF Deliver, Complete
    <3>2. /\ res' = [res EXCEPT ![calls] = calls] /\ calls' = calls
          /\ phase'["client"] = "idle"
      BY <1>0, <2>2, <3>1 DEF Deliver, Closes, Goes, Over, Shape, Ends
    <3>3. \A k \in 1..(calls - 1) : res[k] # 0
      <4>1. calls \in Nat
        BY <1>0 DEF Shape
      <4> QED BY <3>1, <4>1 DEF IInv, Results
    <3>4. Calls!Return
      BY <1>2, <3>1, <3>2, <3>3 DEF Calls!Return
    <3> QED BY <3>4 DEF Calls!Next
  <2>3. CASE ~Deliver /\ ~ \E n \in DataSizes : Run(n)
    <3>1. /\ calls' = calls /\ res' = res
          /\ phase["client"] = "idle" => phase'["client"] = "idle"
      BY <2>3, CallsStep
    <3>2. CASE (phase["client"] # "idle") = (phase'["client"] # "idle")
      BY <1>2, <3>1, <3>2 DEF Calls!callVars
    <3>3. CASE phase["client"] # "idle" /\ phase'["client"] = "idle"
      <4>1. Calls!Fail
        BY <1>2, <3>1, <3>3 DEF Calls!Fail
      <4> QED BY <4>1 DEF Calls!Next
    <3> QED BY <3>1, <3>2, <3>3
  <2> QED BY <2>1, <2>2, <2>3
<1> QED BY <1>1, <1>2

\* However the bytes are cut into pieces and whatever fails, a call ends with
\* the answer to its own request or with none, the handler runs at most once
\* for it, and no call is answered after one that was not.
THEOREM ConnectionImplementsCalls == Spec => ImplementsCalls
<1>1. Init => Calls!Init
  BY CallsStart
<1>2. IInv /\ [Next]_vars => [Calls!Next]_(Calls!callVars)
  BY CallsRefined
<1> QED BY <1>1, <1>2, ConnectionInvariant, PTL DEF Spec, ImplementsCalls, Calls!Spec
=============================================================================

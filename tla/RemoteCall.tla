---------------------------- MODULE RemoteCall ----------------------------
(***************************************************************************)
(* What Client::run and a Session of the Server promise together, apart    *)
(* from bytes, buffers and sockets: calls are made one after the other;    *)
(* the server's handler runs at most once for a call, and in the order in  *)
(* which the calls were made; a call ends with its own answer, made by the *)
(* handler, or with none, and after one with none every one ends with none.*)
(***************************************************************************)
EXTENDS Naturals, Sequences

CONSTANT MaxCalls   \* bound: calls made on the connection

VARIABLES
  begun,     \* the number of calls begun, the number of the last one
  busy,      \* the last call has not returned
  executed,  \* the calls the handler has run for, in order
  answer     \* answer[k]: the call whose answer call k returned, 0 for none

callVars == <<begun, busy, executed, answer>>

Executed == {executed[i] : i \in 1..Len(executed)}

Init ==
  /\ begun = 0
  /\ busy = FALSE
  /\ executed = <<>>
  /\ answer = [k \in 1..MaxCalls |-> 0]

Begin ==
  /\ ~busy
  /\ begun < MaxCalls
  /\ begun' = begun + 1
  /\ busy' = TRUE
  /\ UNCHANGED <<executed, answer>>

\* The handler may still run for a call the client has given up, even when
\* the client has begun others since; it never goes back.
Execute ==
  /\ \E k \in 1..begun :
       /\ \A j \in Executed : j < k
       /\ executed' = Append(executed, k)
  /\ UNCHANGED <<begun, busy, answer>>

Return ==
  /\ busy
  /\ begun \in Executed
  /\ \A k \in 1..(begun - 1) : answer[k] # 0
  /\ answer' = [answer EXCEPT ![begun] = begun]
  /\ busy' = FALSE
  /\ UNCHANGED <<begun, executed>>

Fail ==
  /\ busy
  /\ busy' = FALSE
  /\ UNCHANGED <<begun, executed, answer>>

Next == Begin \/ Execute \/ Return \/ Fail

Spec == Init /\ [][Next]_callVars

=============================================================================

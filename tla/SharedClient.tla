---------------------------- MODULE SharedClient ----------------------------
(***************************************************************************)
(* Client::run (include/node/client.hpp) called from several threads on    *)
(* one Client, as the compute node's server threads do with the clients of *)
(* its one SMPCClient.  Nothing locks.                                     *)
(*                                                                         *)
(* Connection follows the bytes of a client whose calls come one after the *)
(* other; here messages are whole, the network does not fail, sessions are *)
(* kept alive, and what calls that overlap may do to each other's bytes is *)
(* a choice: a request is torn when its buffer is assigned while it is     *)
(* being written, an answer is lost or mixed when two read operations      *)
(* share the read buffer or it is cleared under one.                       *)
(***************************************************************************)
EXTENDS Sequences

CONSTANTS
  Calls,  \* bound: the calls made, each by a thread of its own
  None,   \* no message
  Torn    \* a message that belongs to no call

ASSUME CallsAssumption == None # Torn /\ {None, Torn} \cap Calls = {}

VARIABLES
  at,       \* at[k]: where call k is in run()
  stopped,  \* io_context_m.stopped()
  out,      \* write_buffer: the call whose request it holds
  op,       \* op[k]: the asynchronous operation of call k that is pending
  text,     \* text[k]: the request that operation writes
  asks,     \* requests on their way to the session
  answers,  \* answers on their way to the client
  session,  \* "serves", "waits" for bytes that never come, or is "closed"
  open,     \* the client has not ended its side
  res,      \* res[k]: what *res of call k was set to
  apart,    \* history: calls begun on a quiet client and not overlapped
  hurried,  \* history: calls whose io_context_m.run() returned at once
            \* though their operation was pending
  late,     \* history: calls whose *res was set after they returned
  lossy     \* history: a message was torn, mixed or lost

client == <<at, stopped, out, op, text, open, res>>
server == <<asks, answers, session>>
marks == <<apart, hurried, late, lossy>>
clientvars == <<client, server, marks>>

Active(k) == at[k] \notin {"idle", "done"}
Pending == {k \in Calls : op[k] # "none"}
GoesTo(k, p) == at' = [at EXCEPT ![k] = p]

\* Nothing is left of earlier calls.
Quiet ==
  /\ open /\ session = "serves"
  /\ Pending = {}
  /\ asks = <<>> /\ answers = <<>>

ClientInit ==
  /\ at = [k \in Calls |-> "idle"]
  /\ stopped = FALSE
  /\ out = None
  /\ op = [k \in Calls |-> "none"]
  /\ text = [k \in Calls |-> None]
  /\ asks = <<>> /\ answers = <<>>
  /\ session = "serves"
  /\ open = TRUE
  /\ res = [k \in Calls |-> None]
  /\ apart = {} /\ hurried = {} /\ late = {}
  /\ lossy = FALSE

-----------------------------------------------------------------------------
(* run.                                                                    *)

\* if (io_context_m.stopped())
AfterCheck == IF stopped THEN "restart" ELSE "fill"

Begin(k) ==
  /\ at[k] = "idle"
  /\ GoesTo(k, AfterCheck)
  /\ apart' = LET others == {j \in Calls : Active(j)}
              IN  IF others = {} /\ Quiet THEN apart \cup {k} ELSE apart \ others
  /\ UNCHANGED <<stopped, out, op, text, open, res, server, hurried, late, lossy>>

\* restart(), which does not look whether other threads are still in run().
Restart(k) ==
  /\ at[k] = "restart"
  /\ stopped' = FALSE
  /\ GoesTo(k, "clear")
  /\ UNCHANGED <<out, op, text, open, res, server, marks>>

Reading == {k \in Calls : op[k] = "read"}

\* read_buffer.clear(), which may hold a part of an answer that is being read.
ClearBuffer(k) ==
  /\ at[k] = "clear"
  /\ GoesTo(k, "fill")
  /\ \/ UNCHANGED <<answers, lossy>>
     \/ /\ Reading # {} /\ answers # <<>>
        /\ answers' = Tail(answers) /\ lossy' = TRUE
  /\ UNCHANGED <<stopped, out, op, text, open, res, asks, session,
                 apart, hurried, late>>

\* Mutant: the buffer is filled once.
FilledOnce(k) == {IF out = None THEN k ELSE out}

\* What write_buffer holds when it has been assigned: two assignments at the same
\* time may tear it.
Assigned(k) ==
  {k} \cup IF \E j \in Calls \ {k} : at[j] = "fill" THEN {Torn} ELSE {}

\* write_buffer = req.to_string().  Requests that are being written may be
\* torn by it.
Fill(k) ==
  /\ at[k] = "fill"
  /\ GoesTo(k, "write")
  /\ \E torn \in SUBSET {j \in Calls : op[j] = "write" /\ text[j] # Torn} :
       \E s \in Assigned(k) :
         /\ text' = [j \in Calls |-> IF j \in torn THEN Torn ELSE text[j]]
         /\ out' = s
         /\ lossy' = (lossy \/ torn # {} \/ s = Torn)
  /\ UNCHANGED <<stopped, op, open, res, server, apart, hurried, late>>

\* do_write: the operation begins to write what the buffer holds.
StartWrite(k) ==
  /\ at[k] = "write"
  /\ op' = [op EXCEPT ![k] = "write"]
  /\ text' = [text EXCEPT ![k] = out]
  /\ GoesTo(k, "enter")
  /\ UNCHANGED <<stopped, out, open, res, server, marks>>

\* io_context_m.run() returns at once when the context is stopped, whoever's
\* operations are pending, and stops it when none is.
EnterRun(k) ==
  /\ at[k] = "enter"
  /\ IF stopped \/ Pending = {}
     THEN /\ GoesTo(k, "done") /\ stopped' = TRUE
          /\ hurried' = IF op[k] = "none" THEN hurried ELSE hurried \cup {k}
     ELSE /\ GoesTo(k, "in") /\ UNCHANGED <<stopped, hurried>>
  /\ UNCHANGED <<out, op, text, open, res, server, apart, late, lossy>>

\* Mutant: run_one(), which returns when one callback has run.
ReturnsAfterOne(k) == stopped \/ op[k] = "read"

\* It returns when the context has stopped.
RunReturns(k) == stopped

LeaveRun(k) ==
  /\ at[k] = "in"
  /\ RunReturns(k)
  /\ GoesTo(k, "done")
  /\ UNCHANGED <<stopped, out, op, text, open, res, server, marks>>

-----------------------------------------------------------------------------
(* Callbacks, run by any thread that is in io_context_m.run().             *)

Run == ~stopped /\ \E k \in Calls : at[k] = "in"

\* Mutant: the operation stays where it is.
StaysPending(k) == UNCHANGED <<op, stopped>>

\* The operation ends; with the last one the context stops.
Ends(k) ==
  /\ op' = [op EXCEPT ![k] = "none"]
  /\ stopped' = (Pending = {k})

\* The bytes are sent from StartWrite on, whether a thread is in run() or not.
Send(k) ==
  /\ op[k] = "write"
  /\ op' = [op EXCEPT ![k] = "sent"]
  /\ asks' = IF open /\ session # "closed" THEN Append(asks, text[k]) ELSE asks
  /\ UNCHANGED <<at, stopped, out, text, open, res, answers, session, marks>>

\* The callback of async_write: do_read.
Written(k) ==
  /\ Run /\ op[k] = "sent"
  /\ op' = [op EXCEPT ![k] = "read"]
  /\ UNCHANGED <<at, stopped, out, text, open, res, server, marks>>

\* process_request: *res is set, wherever it points by now.
Deliver(k) ==
  /\ Run /\ op[k] = "read"
  /\ answers # <<>>
  /\ res' = [res EXCEPT ![k] = Head(answers)]
  /\ late' = IF at[k] = "done" THEN late \cup {k} ELSE late
  /\ answers' = Tail(answers)
  /\ Ends(k)
  /\ UNCHANGED <<at, out, text, open, asks, session, apart, hurried, lossy>>

\* Two operations read into one buffer: the answer is lost to both, or what one
\* finds does not parse, and it ends the session.
Mixed(k) ==
  /\ Run /\ op[k] = "read" /\ Reading # {k}
  /\ answers # <<>>
  /\ answers' = Tail(answers)
  /\ lossy' = TRUE
  /\ \/ UNCHANGED <<op, stopped, open>>
     \/ Ends(k) /\ open' = FALSE
  /\ UNCHANGED <<at, out, text, res, asks, session, apart, hurried, late>>

\* Nothing more comes from a connection that has ended.
Fails(k) ==
  /\ Run /\ op[k] \in {"sent", "read"}
  /\ ~open \/ (session = "closed" /\ answers = <<>>)
  /\ Ends(k) /\ open' = FALSE
  /\ UNCHANGED <<at, out, text, res, server, marks>>

-----------------------------------------------------------------------------
(* The session answers requests in order; one that is torn is answered     *)
(* somehow, ends the session, or leaves it waiting for the rest.           *)

Serve ==
  /\ session = "serves" /\ asks # <<>>
  /\ asks' = Tail(asks)
  /\ \/ answers' = Append(answers, Head(asks)) /\ UNCHANGED session
     \/ /\ Head(asks) = Torn
        /\ session' \in {"closed", "waits"} /\ UNCHANGED answers
  /\ UNCHANGED <<client, marks>>

\* Nothing goes on: no call is under way, or those that are wait for answers
\* that never come.
Stuck ==
  /\ \A k \in Calls : at[k] \in {"in", "done"}
  /\ ~stopped \/ \A k \in Calls : at[k] = "done"
  /\ session = "serves" => asks = <<>>
  /\ answers = <<>> \/ ~Run
  /\ \A k \in Calls : op[k] # "write"
  /\ Run => open /\ session # "closed" /\ \A k \in Calls : op[k] # "sent"

Stops == Stuck /\ UNCHANGED clientvars

CallStep(k) ==
  \/ Begin(k) \/ Restart(k) \/ ClearBuffer(k) \/ Fill(k) \/ StartWrite(k)
  \/ EnterRun(k) \/ LeaveRun(k)
Callback(k) == Send(k) \/ Written(k) \/ Deliver(k) \/ Mixed(k) \/ Fails(k)

ClientNext ==
  \/ \E k \in Calls : CallStep(k) \/ Callback(k)
  \/ Serve
  \/ Stops

ClientSpec == ClientInit /\ [][ClientNext]_clientvars

\* Of the calls that began, of their callbacks and of the session something goes
\* on while it can.
Progress ==
  \/ \E k \in Calls : (CallStep(k) /\ at[k] # "idle") \/ Callback(k)
  \/ Serve

FairSpec == ClientSpec /\ WF_clientvars(Progress)

-----------------------------------------------------------------------------
(* Properties.                                                             *)

\* A call that nothing overlaps, begun on a client with nothing left of earlier
\* ones, gets its own answer and leaves nothing either: what went wrong before,
\* when calls overlapped, reaches no further than a client that is not quiet.
ApartIsRight ==
  [][\A k \in apart : at[k] # "done" /\ at'[k] = "done" => res'[k] = k /\ Quiet']_clientvars

\* A call returns without an answer on a connection that is open, or has *res
\* set after it returned, where the caller's variable is gone, only when it saw
\* the context running and entered it stopped.
UnansweredHurried ==
  /\ late \subseteq hurried
  /\ \A k \in Calls : at[k] = "done" /\ res[k] = None /\ open => k \in hurried

\* Calls that overlap hang only when a message was torn, mixed or lost; answers
\* that were only exchanged let every call return.
HangsOnlyByLoss ==
  (\E k \in Calls : at[k] = "in") ~> (lossy \/ \A k \in Calls : at[k] # "in")
=============================================================================

------------------------------ MODULE EventTask ------------------------------
(***************************************************************************)
(* Framework::Task::EventTaskBase<T, Aggregator>: a thread (main_loop)     *)
(* that takes MessageContents from a queue and the threads that talk to    *)
(* it, through start(), stop(), send_event() and rpc_event().              *)
(*                                                                         *)
(* The queue is the one IMessageQueue promises: its actions are those of   *)
(* FifoQueue, with the main thread as its only receiver.  The stamp of a   *)
(* message indexes `posted', what the message holds, and `response', the   *)
(* state of the promise it carries.                                        *)
(***************************************************************************)
EXTENDS Integers, Sequences, FiniteSets

CONSTANTS Clients,     \* the threads that call the task's methods
          Main,        \* the thread that runs main_loop
          Commands,    \* the values of T that clients send
          Handled,     \* the commands the aggregator has a handler for
          MaxCalls     \* bound on start, send_event and rpc_event calls

(* InternalCommands: T's own values 0 and 1 are the clients' to use too. *)
kStart == 0
kStop == 1

ASSUME ClientsAssumption == IsFiniteSet(Clients)
ASSUME CommandsAssumption == Commands \subseteq Int /\ Handled \subseteq Commands
ASSUME MaxCallsAssumption == MaxCalls \in Nat

VARIABLES queue, sent, delivered, waiting, \* message_queue_, see FifoQueue
          posted,      \* posted[n]: what the n-th message holds
          response,    \* response[n]: the promise of the n-th message
          thread,      \* thread_, as joinable() and join() see it
          stopped,     \* stopped_
          content,     \* the message main_loop holds, 0 for none
          handled,     \* the stamps of the messages processed (history)
          pc,          \* where each client is
          call         \* the call each client is in

queueVars == <<queue, sent, delivered, waiting>>
threadVars == <<thread, stopped, content, handled>>
vars == <<queueVars, posted, response, threadVars, pc, call>>

(* Every client may find the thread joinable and post one kStop. *)
Room == MaxCalls + Cardinality(Clients)

MessageQueue == INSTANCE FifoQueue
  WITH Receivers <- {Main}, MaxSent <- Room

Attributes == {"internal", "external"}
Messages == [attribute : Attributes, command : Commands \cup {kStart, kStop}]
Answers == {"true", "false", "exception"}
NoCall == [method |-> "none", stamp |-> 0, forever |-> TRUE]
Calls == [method : {"none", "start", "stop", "rpc"}, stamp : 0..Room, forever : BOOLEAN]

Init ==
  /\ MessageQueue!Init
  /\ posted = <<>>
  /\ response = <<>>
  /\ thread = "running"
  /\ stopped = FALSE
  /\ content = 0
  /\ handled = <<>>
  /\ pc = [c \in Clients |-> "out"]
  /\ call = [c \in Clients |-> NoCall]

-----------------------------------------------------------------------------
(* The callers. *)

(* Sender::send: promise is "pending" when a response is wanted. *)
Post(attribute, command, promise) ==
  /\ MessageQueue!Send
  /\ posted' = Append(posted, [attribute |-> attribute, command |-> command])
  /\ response' = Append(response, promise)

(* The client posts and goes on to wait_for_response. *)
PostAndWait(c, method, attribute, command, forever) ==
  /\ Post(attribute, command, "pending")
  /\ pc' = [pc EXCEPT ![c] = "waiting"]
  /\ call' = [call EXCEPT ![c] =
                [method |-> method, stamp |-> sent + 1, forever |-> forever]]
  /\ UNCHANGED threadVars

start(c) ==
  /\ pc[c] = "out"
  /\ sent < MaxCalls
  /\ PostAndWait(c, "start", "internal", kStart, TRUE)

rpc_event(c, command, forever) ==
  /\ pc[c] = "out"
  /\ sent < MaxCalls
  /\ PostAndWait(c, "rpc", "external", command, forever)

(* Fire and forget: by a client, by a handler, by a callback of the task. *)
send_event(command) ==
  /\ sent < MaxCalls
  /\ Post("external", command, "none")
  /\ UNCHANGED <<threadVars, pc, call>>

(* stop(): is_running() was true; otherwise stop() returns at once. *)
stop(c) ==
  /\ pc[c] = "out"
  /\ thread # "joined"
  /\ pc' = [pc EXCEPT ![c] = "stopping"]
  /\ UNCHANGED <<queueVars, posted, response, threadVars, call>>

(* stop(), past its check: by now another client may have joined. *)
post_stop(c) ==
  /\ pc[c] = "stopping"
  /\ PostAndWait(c, "stop", "internal", kStop, TRUE)

Pending(c) == response[call[c].stamp] = "pending"

(* Slip: stop() leaves the thread running. *)
wait_for_response_NoJoin(c) ==
  /\ pc[c] = "waiting"
  /\ ~Pending(c)
  /\ pc' = [pc EXCEPT ![c] = "out"]
  /\ call' = [call EXCEPT ![c] = NoCall]
  /\ UNCHANGED <<queueVars, posted, response, threadVars>>

(* The future is ready: future.get() returns or throws, and stop() joins. *)
wait_for_response(c) ==
  /\ pc[c] = "waiting"
  /\ ~Pending(c)
  /\ IF call[c].method = "stop" /\ response[call[c].stamp] = "true"
     THEN /\ pc' = [pc EXCEPT ![c] = "joining"]
          /\ UNCHANGED call
     ELSE /\ pc' = [pc EXCEPT ![c] = "out"]
          /\ call' = [call EXCEPT ![c] = NoCall]
  /\ UNCHANGED <<queueVars, posted, response, threadVars>>

(* future.wait_for timed out: false, and the message stays in the queue. *)
timeout(c) ==
  /\ pc[c] = "waiting"
  /\ Pending(c)
  /\ ~call[c].forever
  /\ pc' = [pc EXCEPT ![c] = "out"]
  /\ call' = [call EXCEPT ![c] = NoCall]
  /\ UNCHANGED <<queueVars, posted, response, threadVars>>

(* thread_.join(), after which the thread is no longer joinable. *)
join(c) ==
  /\ pc[c] = "joining"
  /\ thread = "finished"
  /\ thread' = "joined"
  /\ pc' = [pc EXCEPT ![c] = "out"]
  /\ call' = [call EXCEPT ![c] = NoCall]
  /\ UNCHANGED <<queueVars, posted, response, stopped, content, handled>>

-----------------------------------------------------------------------------
(* The main loop. *)

(* Slip: while (true). *)
enter_receive_Always ==
  /\ thread = "running"
  /\ content = 0
  /\ MessageQueue!Call(Main)
  /\ UNCHANGED <<posted, response, threadVars, pc, call>>

(* while (!stopped_): enter receive() again. *)
enter_receive ==
  /\ thread = "running"
  /\ ~stopped
  /\ content = 0
  /\ MessageQueue!Call(Main)
  /\ UNCHANGED <<posted, response, threadVars, pc, call>>

(* Slip: the sender is answered before its message is processed. *)
receive_Early ==
  /\ MessageQueue!Deliver(Main)
  /\ content' = Head(queue)
  /\ response' = IF response[content'] = "none" THEN response
                 ELSE [response EXCEPT ![content'] = "true"]
  /\ UNCHANGED <<posted, thread, stopped, handled, pc, call>>

receive ==
  /\ MessageQueue!Deliver(Main)
  /\ content' = Head(queue)
  /\ UNCHANGED <<posted, response, thread, stopped, handled, pc, call>>

is_kStop(m) == m.attribute = "internal" /\ m.command = kStop

(* What processing may come to: on_start_ may throw, a handler may return  *)
(* either value or throw, publish throws when there is no handler.         *)
Outcomes(m) ==
  CASE is_kStop(m)                 -> {"true"}
    [] m.attribute = "internal" /\ ~is_kStop(m) -> {"true", "exception"}
    [] m.attribute = "external" /\ m.command \in Handled -> Answers
    [] m.attribute = "external" /\ m.command \notin Handled -> {"exception"}

(* Slip: no handle_exception. *)
Respond_NotOnThrow(n, answer) ==
  response' = IF response[n] = "none" \/ answer = "exception" THEN response
              ELSE [response EXCEPT ![n] = answer]

(* The promise is set, or given the exception, when the sender wants it. *)
Respond(n, answer) ==
  response' = IF response[n] = "none" THEN response
              ELSE [response EXCEPT ![n] = answer]

(* Slip: the attribute is not looked at, 1 is kStop for everybody. *)
process_AnyStop(answer) ==
  /\ content # 0
  /\ answer \in Outcomes(posted[content])
  /\ Respond(content, answer)
  /\ stopped' = (stopped \/ posted[content].command = kStop)
  /\ handled' = Append(handled, content)
  /\ content' = 0
  /\ UNCHANGED <<queueVars, posted, thread, pc, call>>

(* Slip: a message whose processing threw is processed again. *)
process_Retry(answer) ==
  /\ content # 0
  /\ answer \in Outcomes(posted[content])
  /\ Respond(content, answer)
  /\ stopped' = (stopped \/ is_kStop(posted[content]))
  /\ handled' = Append(handled, content)
  /\ content' = IF answer = "exception" THEN content ELSE 0
  /\ UNCHANGED <<queueVars, posted, thread, pc, call>>

(* process_internal_command or process_event, then the response. *)
process(answer) ==
  /\ content # 0
  /\ answer \in Outcomes(posted[content])
  /\ Respond(content, answer)
  /\ stopped' = (stopped \/ is_kStop(posted[content]))
  /\ handled' = Append(handled, content)
  /\ content' = 0
  /\ UNCHANGED <<queueVars, posted, thread, pc, call>>

(* Slip: what is still queued is answered on the way out. *)
finish_AnswersRest ==
  /\ thread = "running"
  /\ stopped
  /\ thread' = "finished"
  /\ response' = [n \in 1..sent |-> IF response[n] = "pending" THEN "true" ELSE response[n]]
  /\ UNCHANGED <<queueVars, posted, stopped, content, handled, pc, call>>

(* The loop has ended: on_finish_ runs and the thread exits. *)
finish ==
  /\ thread = "running"
  /\ stopped
  /\ thread' = "finished"
  /\ UNCHANGED <<queueVars, posted, response, stopped, content, handled, pc, call>>

main_loop ==
  \/ enter_receive
  \/ receive
  \/ \E answer \in Answers : process(answer)
  \/ finish

-----------------------------------------------------------------------------

(* What a client inside a call does next without being asked. *)
Continue(c) == post_stop(c) \/ wait_for_response(c) \/ timeout(c) \/ join(c)

Next ==
  \/ main_loop
  \/ \E command \in Commands : send_event(command)
  \/ \E c \in Clients :
       \/ start(c)
       \/ \E command \in Commands, forever \in BOOLEAN : rpc_event(c, command, forever)
       \/ stop(c)
       \/ Continue(c)

(* Threads run, handlers and callbacks return, clocks advance; no client  *)
(* is obliged to call anything.                                            *)
Fairness == WF_vars(main_loop) /\ \A c \in Clients : WF_vars(Continue(c))

Safety == Init /\ [][Next]_vars

Spec == Safety /\ Fairness

-----------------------------------------------------------------------------

(* Types of the state. *)
TypeOK ==
  /\ queue \in Seq(1..sent)
  /\ sent \in 0..Room
  /\ delivered \in Seq(1..sent)
  /\ waiting \subseteq {Main}
  /\ posted \in Seq(Messages) /\ Len(posted) = sent
  /\ response \in Seq(Answers \cup {"none", "pending"}) /\ Len(response) = sent
  /\ thread \in {"running", "finished", "joined"}
  /\ stopped \in BOOLEAN
  /\ content \in 0..sent
  /\ handled \in Seq(1..sent)
  /\ pc \in [Clients -> {"out", "stopping", "waiting", "joining"}]
  /\ call \in [Clients -> Calls]

(* Every message is processed in the order of the sends, none is skipped   *)
(* and none is processed twice, whoever sent it and however many senders   *)
(* interleave with the main loop.                                          *)
InOrder ==
  LET held == IF content = 0 THEN 0 ELSE 1 IN
  /\ \A i \in DOMAIN handled : handled[i] = i
  /\ content # 0 => content = Len(handled) + 1
  /\ \A i \in DOMAIN queue : queue[i] = Len(handled) + held + i
  /\ sent = Len(handled) + held + Len(queue)

(* The first internal kStop is the last message processed: everything sent *)
(* before it is, nothing after it, and no command of a client's, whatever  *)
(* its value, ends the loop.                                               *)
StopIsLast ==
  /\ \A i \in 1..(Len(handled) - 1) : ~is_kStop(posted[handled[i]])
  /\ stopped <=> (handled # <<>> /\ is_kStop(posted[handled[Len(handled)]]))
  /\ stopped => content = 0
  /\ thread # "running" => stopped

(* However many clients stop the task at once, one of them joins, once:    *)
(* the thread it joins is not joined yet and nobody joins beside it.       *)
JoinedOnce ==
  \A c \in Clients : pc[c] = "joining" =>
    /\ stopped
    /\ thread # "joined"
    /\ \A d \in Clients : pc[d] = "joining" => c = d

(* A promise is settled by the processing of its own message and by        *)
(* nothing else; a client that still waits waits for its own message.      *)
AnswersMatch ==
  /\ \A n \in 1..sent :
       response[n] \in Answers =>
         /\ \E i \in DOMAIN handled : handled[i] = n
         /\ response[n] \in Outcomes(posted[n])
  /\ \A c, d \in Clients :
       pc[c] = "waiting" /\ pc[d] = "waiting" /\ c # d => call[c].stamp # call[d].stamp

(* The message a client waits for was sent before any kStop, or is the     *)
(* first kStop.                                                            *)
BeforeStop(c) ==
  \A n \in 1..(call[c].stamp - 1) : ~is_kStop(posted[n])

(* A call that reached the queue no later than the first kStop returns.    *)
CallsBeforeStopReturn ==
  \A c \in Clients : (pc[c] = "waiting" /\ BeforeStop(c)) ~> pc[c] = "out"

(* Once a client has found the thread joinable in stop(), the thread ends  *)
(* and is joined: by that client or by another one.                        *)
StopJoins ==
  (\E c \in Clients : pc[c] = "stopping") ~> thread = "joined"

(* The other side of it: a call that is queued behind a kStop is never     *)
(* answered, by an exception or otherwise; only its own deadline ends it.  *)
BehindStopNeverAnswered ==
  [][\A n \in 1..sent :
       (\E k \in 1..(n - 1) : is_kStop(posted[k])) => response'[n] = response[n]]_vars
==============================================================================

------------------------------ MODULE FifoQueue ------------------------------
(***************************************************************************)
(* What every implementation of IMessageQueue<T> promises its callers,     *)
(* with no mutex, no condition variable and no wait set: a FIFO that       *)
(* hands each message to one receiver, in the order of the sends.          *)
(*                                                                         *)
(* A message is its stamp: the n-th message sent is the number n, so that  *)
(* "in order", "once" and "lost" can be said of the queue's contents.      *)
(***************************************************************************)
EXTENDS Naturals, Sequences

CONSTANTS Receivers,   \* the threads that call receive() or timed_receive()
          MaxSent      \* bound on the number of messages sent

VARIABLES queue,       \* the messages waiting, oldest first
          sent,        \* how many messages have been sent (history)
          delivered,   \* the messages received so far, in order (history)
          waiting      \* the receivers inside receive() or timed_receive()

vars == <<queue, sent, delivered, waiting>>

Init ==
  /\ queue = <<>>
  /\ sent = 0
  /\ delivered = <<>>
  /\ waiting = {}

(* send(): never blocks, never refuses. *)
Send ==
  /\ sent < MaxSent
  /\ sent' = sent + 1
  /\ queue' = Append(queue, sent + 1)
  /\ UNCHANGED <<delivered, waiting>>

(* A receiver enters receive() or timed_receive(). *)
Call(c) ==
  /\ c \notin waiting
  /\ waiting' = waiting \cup {c}
  /\ UNCHANGED <<queue, sent, delivered>>

(* A receiver returns with the oldest message. *)
Deliver(c) ==
  /\ c \in waiting
  /\ queue # <<>>
  /\ delivered' = Append(delivered, Head(queue))
  /\ queue' = Tail(queue)
  /\ waiting' = waiting \ {c}
  /\ UNCHANGED sent

(* timed_receive() returns {false, T{}}: only while there is nothing.      *)
(* Which of the receivers have a deadline is left to the implementation.   *)
GiveUp(c) ==
  /\ c \in waiting
  /\ queue = <<>>
  /\ waiting' = waiting \ {c}
  /\ UNCHANGED <<queue, sent, delivered>>

(* clear(): drops waiting messages, the oldest first; an implementation    *)
(* may do so in several steps.                                             *)
Clear ==
  /\ \E k \in 1..Len(queue) : queue' = SubSeq(queue, k + 1, Len(queue))
  /\ UNCHANGED <<sent, delivered, waiting>>

Next ==
  \/ Send
  \/ Clear
  \/ \E c \in Receivers : Call(c) \/ Deliver(c) \/ GiveUp(c)

(* A message that stays is handed to somebody, though not to a chosen one. *)
SomeDelivery == \E c \in Receivers : Deliver(c)

Safety == Init /\ [][Next]_vars

Spec == Safety /\ WF_vars(SomeDelivery)
==============================================================================

-------------------------- MODULE SynchronizedDeque --------------------------
(***************************************************************************)
(* Framework::Message::SynchronizedDeque<T>: a std::deque, one mutex and   *)
(* one condition variable.                                                 *)
(*                                                                         *)
(* Every method holds mutex_ from its first statement to its last, and     *)
(* condition_.wait releases it atomically with joining the wait set, so a  *)
(* critical section is one step.  What happens between critical sections   *)
(* is kept: a receiver that was woken (by notify_all, by its deadline or   *)
(* for no reason) has still to win the mutex and look at the queue again,  *)
(* and by then another receiver, or clear(), may have emptied it.          *)
(***************************************************************************)
EXTENDS Naturals, Sequences, Functions

CONSTANTS Receivers,   \* the threads that call receive() or timed_receive()
          MaxSent      \* bound on the number of messages sent

ASSUME MaxSentAssumption == MaxSent \in Nat

VARIABLES queue,       \* queue_: the stamps of the messages, oldest first
          pc,          \* where each receiver is, see States
          timed,       \* whether its call is timed_receive()
          sent,        \* number of sends, the stamp of the last (history)
          delivered,   \* the stamps received, in order (history)
          cleared      \* the stamps dropped by clear() (history)

vars == <<queue, pc, timed, sent, delivered, cleared>>

(* "out":     not in a call;                                               *)
(* "check":   about to take mutex_ and evaluate is_not_empty();            *)
(* "blocked": in the wait set of condition_;                               *)
(* "expired": the deadline has passed, about to evaluate the predicate for *)
(*            the last time, as wait_for(lock, time, predicate) does.      *)
States == {"out", "check", "blocked", "expired"}

Init ==
  /\ queue = <<>>
  /\ pc = [c \in Receivers |-> "out"]
  /\ timed = [c \in Receivers |-> FALSE]
  /\ sent = 0
  /\ delivered = <<>>
  /\ cleared = {}

(* Slip: the notification of send() is left out. *)
NotifyNobody(p) == p

(* condition_.notify_all(): the wait set is emptied. *)
NotifyAll(p) == [c \in Receivers |-> IF p[c] = "blocked" THEN "check" ELSE p[c]]

is_not_empty == queue # <<>>

send ==
  /\ sent < MaxSent
  /\ sent' = sent + 1
  /\ queue' = Append(queue, sent + 1)
  /\ pc' = NotifyAll(pc)
  /\ UNCHANGED <<timed, delivered, cleared>>

clear ==
  /\ is_not_empty
  /\ queue' = <<>>
  /\ cleared' = cleared \cup Range(queue)
  /\ UNCHANGED <<pc, timed, sent, delivered>>

(* A thread calls receive() (t = FALSE) or timed_receive() (t = TRUE). *)
receive(c, t) ==
  /\ pc[c] = "out"
  /\ pc' = [pc EXCEPT ![c] = "check"]
  /\ timed' = [timed EXCEPT ![c] = t]
  /\ UNCHANGED <<queue, sent, delivered, cleared>>

(* The predicate holds: the call returns with the front of the queue. *)
get_front(c) ==
  /\ pc[c] \in {"check", "expired"}
  /\ is_not_empty
  /\ delivered' = Append(delivered, Head(queue))
  /\ queue' = Tail(queue)
  /\ pc' = [pc EXCEPT ![c] = "out"]
  /\ UNCHANGED <<timed, sent, cleared>>

(* The predicate fails: join the wait set, releasing mutex_ in one step. *)
Block(c) ==
  /\ pc[c] = "check"
  /\ ~is_not_empty
  /\ pc' = [pc EXCEPT ![c] = "blocked"]
  /\ UNCHANGED <<queue, timed, sent, delivered, cleared>>

(* A spurious wake-up, which both waits answer by evaluating again. *)
Spurious(c) ==
  /\ pc[c] = "blocked"
  /\ pc' = [pc EXCEPT ![c] = "check"]
  /\ UNCHANGED <<queue, timed, sent, delivered, cleared>>

(* The deadline of timed_receive() passes, notified meanwhile or not. *)
Expire(c) ==
  /\ timed[c]
  /\ pc[c] \in {"blocked", "check"}
  /\ pc' = [pc EXCEPT ![c] = "expired"]
  /\ UNCHANGED <<queue, timed, sent, delivered, cleared>>

(* Slip: the deadline is believed, the predicate is not evaluated again. *)
GiveUp_Unchecked(c) ==
  /\ pc[c] = "expired"
  /\ pc' = [pc EXCEPT ![c] = "out"]
  /\ UNCHANGED <<queue, timed, sent, delivered, cleared>>

(* wait_for returns the predicate, false: {false, T{}}. *)
GiveUp(c) ==
  /\ pc[c] = "expired"
  /\ ~is_not_empty
  /\ pc' = [pc EXCEPT ![c] = "out"]
  /\ UNCHANGED <<queue, timed, sent, delivered, cleared>>

(* A woken receiver takes the mutex and evaluates the predicate. *)
Evaluate(c) == get_front(c) \/ Block(c) \/ GiveUp(c)

Next ==
  \/ send
  \/ clear
  \/ \E c \in Receivers :
       \/ \E t \in BOOLEAN : receive(c, t)
       \/ Evaluate(c)
       \/ Spurious(c)
       \/ Expire(c)

(* The scheduler runs a runnable thread and the clock advances; nobody is  *)
(* obliged to send, to clear or to call, and no wake-up is obliged to be   *)
(* spurious.                                                               *)
Fairness == \A c \in Receivers : WF_vars(Evaluate(c)) /\ WF_vars(Expire(c))

Safety == Init /\ [][Next]_vars

Spec == Safety /\ Fairness

-----------------------------------------------------------------------------

Increasing(s) == \A i, j \in DOMAIN s : i < j => s[i] < s[j]

(* Types of the state. *)
TypeOK ==
  /\ queue \in Seq(1..sent)
  /\ pc \in [Receivers -> States]
  /\ timed \in [Receivers -> BOOLEAN]
  /\ sent \in 0..MaxSent
  /\ delivered \in Seq(1..sent)
  /\ cleared \subseteq 1..sent

(* No receiver sleeps beside a message: the notification of send() is     *)
(* enough, whatever the interleaving with checks, deadlines and clear().   *)
NoMissedMessage ==
  is_not_empty => \A c \in Receivers : pc[c] # "blocked"

(* Messages leave in the order of the sends, whatever the number of        *)
(* receivers and however clear() cuts in between, and none leaves twice.   *)
InOrder ==
  /\ Increasing(delivered)
  /\ Increasing(queue)
  /\ \A d \in Range(delivered), q \in Range(queue) : d < q

(* No message disappears: one that was sent is waiting, was received, or   *)
(* was dropped by a clear(), and a dropped one is never received.          *)
Conserved ==
  /\ 1..sent = Range(queue) \cup Range(delivered) \cup cleared
  /\ cleared \cap (Range(queue) \cup Range(delivered)) = {}

(* The promise of the interface, safety and liveness: a receiver inside a  *)
(* call is waiting, and the wait set and the wake-ups are stuttering.      *)
Abstract == INSTANCE FifoQueue
  WITH waiting <- {c \in Receivers : pc[c] # "out"}

ImplementsFifoQueue == Abstract!Spec
==============================================================================

-------------------------- MODULE PosixMessageQueue --------------------------
(***************************************************************************)
(* Framework::Message::PosixMessageQueue<T>: the kernel's message queue of *)
(* one name, and the objects that have it open, each with a descriptor and *)
(* that descriptor's O_NONBLOCK flag.                                      *)
(*                                                                         *)
(* The kernel makes each system call one step, unless the call has to      *)
(* wait.  O_NONBLOCK belongs to the descriptor: while one thread clears,   *)
(* it holds for every thread that uses the same object.                    *)
(***************************************************************************)
EXTENDS Integers, Sequences, Functions

CONSTANTS Senders,     \* the threads that call send()
          Receivers,   \* the threads that call receive() or timed_receive()
          Clearers,    \* the threads that call clear()
          Objects,     \* the PosixMessageQueue objects with that name
          Uses,        \* Uses[t]: the object thread t uses
          Capacity,    \* max_msg
          Timeouts,    \* the arguments of timed_receive(), milliseconds
          Clocks,      \* how far into its second the clock may be found
          MaxSent      \* bound on the number of messages sent

Threads == Senders \cup Receivers \cup Clearers

ASSUME UsesAssumption == Uses \in [Threads -> Objects]
ASSUME CapacityAssumption == Capacity \in Nat \ {0}
ASSUME TimeoutsAssumption == Timeouts \subseteq Int
ASSUME ClocksAssumption == Clocks \subseteq 0..999
ASSUME MaxSentAssumption == MaxSent \in Nat

VARIABLES queue,       \* the kernel's messages, by their stamps
          nonblock,    \* the O_NONBLOCK flag of each object's descriptor
          pc,          \* where each thread is, see Positions
          timer,       \* the deadline each receiver has, see Timer
          old_attr,    \* the flag each clear() found, and puts back
          sent,        \* how many messages the kernel accepted (history)
          delivered,   \* the stamps received, in order (history)
          dropped,     \* the stamps that a clear() took out (history)
          overlapped   \* the objects on which two clear() met (history)

history == <<sent, delivered, dropped, overlapped>>
vars == <<queue, nonblock, pc, timer, old_attr, history>>

(* A call enters the kernel ("send", "receive", "drain") and returns, or   *)
(* waits there ("..._blocked"); "restore": clear() is about to return.     *)
Positions ==
  {"out", "send", "send_blocked", "receive", "receive_blocked",
   "drain", "drain_blocked", "restore"}

(* A timespec relative to the second of the call.  The clock counts in     *)
(* milliseconds, a thousand to the second: tv_nsec counts them here.       *)
Timer(timed, ms, now, until) == [timed |-> timed, ms |-> ms, now |-> now, until |-> until]
NoTimer == Timer(FALSE, 0, 0, [tv_sec |-> 0, tv_nsec |-> 0])

Init ==
  /\ queue = <<>>
  /\ nonblock = [o \in Objects |-> FALSE]
  /\ pc = [t \in Threads |-> "out"]
  /\ timer = [t \in Receivers |-> NoTimer]
  /\ old_attr = [t \in Clearers |-> FALSE]
  /\ sent = 0
  /\ delivered = <<>>
  /\ dropped = {}
  /\ overlapped = {}

Goto(t, p) == pc' = [pc EXCEPT ![t] = p]

is_empty == queue = <<>>

Full == Len(queue) >= Capacity

NonBlocking(t) == nonblock[Uses[t]]

-----------------------------------------------------------------------------
(* send() *)

send(t) ==
  /\ pc[t] = "out"
  /\ Goto(t, "send")
  /\ UNCHANGED <<queue, nonblock, timer, old_attr, history>>

(* Slip: mq_maxmsg is not kept to. *)
accept_NoLimit(t) ==
  /\ pc[t] \in {"send", "send_blocked"}
  /\ sent < MaxSent
  /\ sent' = sent + 1
  /\ queue' = Append(queue, sent')
  /\ Goto(t, "out")
  /\ UNCHANGED <<nonblock, timer, old_attr, delivered, dropped, overlapped>>

(* mq_send, priority 0: the message goes to the end of the queue. *)
accept(t) ==
  /\ pc[t] \in {"send", "send_blocked"}
  /\ ~Full
  /\ sent < MaxSent
  /\ sent' = sent + 1
  /\ queue' = Append(queue, sent')
  /\ Goto(t, "out")
  /\ UNCHANGED <<nonblock, timer, old_attr, delivered, dropped, overlapped>>

(* No room: EAGAIN, which send() throws, or the call waits. *)
refuse(t) ==
  /\ pc[t] = "send"
  /\ Full
  /\ Goto(t, IF NonBlocking(t) THEN "out" ELSE "send_blocked")
  /\ UNCHANGED <<queue, nonblock, timer, old_attr, history>>

-----------------------------------------------------------------------------
(* receive() and timed_receive() *)

Enter(t, new) ==
  /\ pc[t] = "out"
  /\ timer' = [timer EXCEPT ![t] = new]
  /\ Goto(t, "receive")
  /\ UNCHANGED <<queue, nonblock, old_attr, history>>

Return(t) ==
  /\ timer' = [timer EXCEPT ![t] = NoTimer]
  /\ Goto(t, "out")

receive(t) == Enter(t, NoTimer)

(* Division as C++ has it, towards zero. *)
Quotient(a, b) == IF a >= 0 THEN a \div b ELSE -((-a) \div b)
Remainder(a, b) == a - b * Quotient(a, b)

(* Slip: the milliseconds are added without a carry. *)
to_abs_timespec_NoCarry(ms, now) ==
  [tv_sec |-> Quotient(ms, 1000), tv_nsec |-> now + Remainder(ms, 1000)]

to_abs_timespec(ms, now) ==
  LET nsec == now + Remainder(ms, 1000) IN
    [tv_sec |-> Quotient(ms, 1000) + Quotient(nsec, 1000), tv_nsec |-> Remainder(nsec, 1000)]

timed_receive(t, ms, now) == Enter(t, Timer(TRUE, ms, now, to_abs_timespec(ms, now)))

(* What mq_timedreceive() takes for a time. *)
Valid(ts) == ts.tv_nsec \in 0..999

(* EINVAL, before the kernel looks for a message: an exception. *)
invalid(t) ==
  /\ pc[t] = "receive"
  /\ ~Valid(timer[t].until)
  /\ Return(t)
  /\ UNCHANGED <<queue, nonblock, old_attr, history>>

(* The oldest message, for a call that enters or one that waits. *)
take(t) ==
  /\ pc[t] \in {"receive", "receive_blocked"}
  /\ Valid(timer[t].until)
  /\ ~is_empty
  /\ delivered' = Append(delivered, Head(queue))
  /\ queue' = Tail(queue)
  /\ Return(t)
  /\ UNCHANGED <<nonblock, old_attr, sent, dropped, overlapped>>

(* Nothing: EAGAIN, which the caller gets as an exception, or a wait. *)
no_message(t) ==
  /\ pc[t] = "receive"
  /\ Valid(timer[t].until)
  /\ is_empty
  /\ IF NonBlocking(t)
     THEN Return(t)
     ELSE Goto(t, "receive_blocked") /\ UNCHANGED timer
  /\ UNCHANGED <<queue, nonblock, old_attr, history>>

(* Slip: the buffer was filled, and ETIMEDOUT is reported. *)
expire_Late(t) ==
  /\ pc[t] = "receive_blocked"
  /\ timer[t].timed
  /\ queue' = IF is_empty THEN queue ELSE Tail(queue)
  /\ Return(t)
  /\ UNCHANGED <<nonblock, old_attr, history>>

(* Slip: the deadline alone decides. *)
expire_Unchecked(t) ==
  /\ pc[t] = "receive_blocked"
  /\ timer[t].timed
  /\ Return(t)
  /\ UNCHANGED <<queue, nonblock, old_attr, history>>

(* ETIMEDOUT: {false, T{}}. *)
expire(t) ==
  /\ pc[t] = "receive_blocked"
  /\ timer[t].timed
  /\ is_empty
  /\ Return(t)
  /\ UNCHANGED <<queue, nonblock, old_attr, history>>

-----------------------------------------------------------------------------
(* clear() *)

Clearing(t) == pc[t] \in {"drain", "drain_blocked", "restore"}

(* The object of a clear() that meets another one there. *)
Meets(t) == {Uses[u] : u \in {v \in Clearers : Clearing(v) /\ Uses[v] = Uses[t]}}

(* Slip: the descriptor is left blocking. *)
clear_Blocking(t) ==
  /\ pc[t] = "out"
  /\ old_attr' = [old_attr EXCEPT ![t] = NonBlocking(t)]
  /\ overlapped' = overlapped \cup Meets(t)
  /\ Goto(t, "drain")
  /\ UNCHANGED <<queue, nonblock, timer, sent, delivered, dropped>>

(* mq_setattr: O_NONBLOCK is set, and the flag there was is remembered. *)
clear(t) ==
  /\ pc[t] = "out"
  /\ old_attr' = [old_attr EXCEPT ![t] = NonBlocking(t)]
  /\ overlapped' = overlapped \cup Meets(t)
  /\ nonblock' = [nonblock EXCEPT ![Uses[t]] = TRUE]
  /\ Goto(t, "drain")
  /\ UNCHANGED <<queue, timer, sent, delivered, dropped>>

(* while (mq_receive(...) >= 0) {}: a message is taken out ... *)
drain(t) ==
  /\ pc[t] \in {"drain", "drain_blocked"}
  /\ ~is_empty
  /\ dropped' = dropped \cup {Head(queue)}
  /\ queue' = Tail(queue)
  /\ Goto(t, "drain")
  /\ UNCHANGED <<nonblock, timer, old_attr, sent, delivered, overlapped>>

(* ... until the call fails, or waits if O_NONBLOCK is gone by now. *)
drained(t) ==
  /\ pc[t] = "drain"
  /\ is_empty
  /\ Goto(t, IF NonBlocking(t) THEN "restore" ELSE "drain_blocked")
  /\ UNCHANGED <<queue, nonblock, timer, old_attr, history>>

(* Slip: the attributes are not put back. *)
restore_Nothing(t) ==
  /\ pc[t] = "restore"
  /\ Goto(t, "out")
  /\ UNCHANGED <<queue, nonblock, timer, old_attr, history>>

(* ~AttrRestorer() *)
restore(t) ==
  /\ pc[t] = "restore"
  /\ nonblock' = [nonblock EXCEPT ![Uses[t]] = old_attr[t]]
  /\ Goto(t, "out")
  /\ UNCHANGED <<queue, timer, old_attr, history>>

-----------------------------------------------------------------------------

Send(t) == accept(t) \/ refuse(t)

Receive(t) == invalid(t) \/ take(t) \/ no_message(t) \/ expire(t)

Clear(t) == drain(t) \/ drained(t) \/ restore(t)

Next ==
  \/ \E t \in Senders : send(t) \/ Send(t)
  \/ \E t \in Receivers :
       \/ receive(t) \/ Receive(t)
       \/ \E ms \in Timeouts, now \in Clocks : timed_receive(t, ms, now)
  \/ \E t \in Clearers : clear(t) \/ Clear(t)

(* The kernel serves a call that can go on, and the clock advances; nobody *)
(* is obliged to call.                                                     *)
Fairness ==
  /\ \A t \in Receivers : WF_vars(Receive(t))
  /\ \A t \in Clearers : WF_vars(Clear(t))

Safety == Init /\ [][Next]_vars

Spec == Safety /\ Fairness

-----------------------------------------------------------------------------

Timers ==
  [timed : BOOLEAN, ms : Timeouts \cup {0}, now : Clocks \cup {0},
   until : [tv_sec : Int, tv_nsec : -999..999]]

(* Types of the state; the kernel keeps to mq_maxmsg. *)
TypeOK ==
  /\ queue \in Seq(1..sent) /\ Len(queue) <= Capacity
  /\ nonblock \in [Objects -> BOOLEAN]
  /\ pc \in [Threads -> Positions]
  /\ timer \in [Receivers -> Timers]
  /\ old_attr \in [Clearers -> BOOLEAN]
  /\ sent \in 0..MaxSent
  /\ delivered \in Seq(1..sent)
  /\ dropped \subseteq 1..sent
  /\ overlapped \subseteq Objects

Increasing(s) == \A i, j \in DOMAIN s : i < j => s[i] < s[j]

(* However receivers and clear() calls of any object of the name           *)
(* interleave, messages are received once and in the order of the sends,   *)
(* what waits is in that order behind them, and a message that neither     *)
(* waits nor was received is one that a clear() took out.                  *)
Conserved ==
  /\ Increasing(delivered)
  /\ Increasing(queue)
  /\ \A d \in Range(delivered), q \in Range(queue) : d < q
  /\ dropped = 1..sent \ (Range(delivered) \cup Range(queue))

(* "The attributes are always put back": a descriptor is non-blocking only *)
(* while a clear() on it is under way, and afterwards receive() and send() *)
(* wait again instead of throwing.  Two clear() that overlap on one object *)
(* break this for good: the second may find, and put back, the first's.    *)
AttributesPutBack ==
  \A o \in Objects \ overlapped :
    nonblock[o] <=> \E t \in Clearers : Uses[t] = o /\ Clearing(t)

(* timed_receive() waits until ms after the call, whenever in a second it  *)
(* is made; only with a negative timeout, where a SynchronizedDeque would  *)
(* answer that there is no message, it may get no valid time and throw.    *)
WaitsAsLong ==
  \A t \in Receivers :
    LET until == timer[t].until IN
      /\ timer[t].ms >= 0 => Valid(until)
      /\ Valid(until) => until.tv_sec * 1000 + until.tv_nsec = timer[t].now + timer[t].ms

(* clear() returns, once the senders stop: it never waits for a message,   *)
(* unless it has met another one on its object.                            *)
ClearReturns ==
  \A t \in Clearers :
    Clearing(t) ~> (pc[t] = "out" \/ Uses[t] \in overlapped)

(* The queue of a name, however many objects have it open, is the one the  *)
(* interface promises.  A message is sent when the kernel takes it, and a  *)
(* receive() that fails with EAGAIN is one that gives up: it does so only  *)
(* where there is no message.  A timed_receive() that has no valid time is *)
(* none of the interface's: it throws whether there is a message or not.   *)
Abstract == INSTANCE FifoQueue
  WITH waiting <- {t \in Receivers : /\ pc[t] \in {"receive", "receive_blocked"}
                                    /\ Valid(timer[t].until)}

ImplementsFifoQueue == Abstract!Spec
==============================================================================

------------------------ MODULE PosixMessageQueue_proofs ------------------------
(***************************************************************************)
(* Proofs about PosixMessageQueue, for any threads, objects, capacity and  *)
(* timeouts, and about PosixQueueName, for any processes, objects and      *)
(* queues.                                                                 *)
(***************************************************************************)
EXTENDS PosixMessageQueue, PosixQueueName, SequenceTheorems, TLAPS

(* What appending does to the set of values of a sequence. *)
LEMMA RangeAppend ==
  ASSUME NEW S, NEW s \in Seq(S), NEW e \in S
  PROVE  Range(Append(s, e)) = Range(s) \cup {e}
<1>1. <<e>> \in Seq(S) /\ Append(s, e) = s \o <<e>>
  OBVIOUS
<1>2. Range(<<e>>) = {e}
  BY DEF Range
<1>3. Range(s \o <<e>>) = Range(s) \cup Range(<<e>>)
  BY <1>1, RangeConcatenation
<1> QED
  BY <1>1, <1>2, <1>3

(* What removing the head does to it. *)
LEMMA RangeTail ==
  ASSUME NEW S, NEW s \in Seq(S), s # <<>>
  PROVE  /\ Range(s) = {Head(s)} \cup Range(Tail(s))
         /\ Head(s) \in S
<1> DEFINE h == <<Head(s)>>
           t == Tail(s)
<1>1. Head(s) \in S /\ h \in Seq(S) /\ t \in Seq(S) /\ s = h \o t
  OBVIOUS
<1>2. Range(h) = {Head(s)}
  BY DEF Range
<1>3. Range(h \o t) = Range(h) \cup Range(t)
  <2> HIDE DEF h, t
  <2> QED
    BY <1>1, RangeConcatenation
<1> QED
  BY <1>1, <1>2, <1>3

-----------------------------------------------------------------------------
(* What goes on in a queue. *)

(* Division of a natural number by a thousand, and what it leaves. *)
LEMMA DivisionOfNatural ==
  ASSUME NEW a \in Nat
  PROVE  a \div 1000 \in Nat /\ a - 1000 * (a \div 1000) \in 0..999
  OBVIOUS

(* Division of any number, towards zero. *)
LEMMA Division ==
  ASSUME NEW a \in Int
  PROVE  /\ Quotient(a, 1000) \in Int
         /\ Remainder(a, 1000) \in -999..999
         /\ a >= 0 => Remainder(a, 1000) \in 0..999
         /\ a = 1000 * Quotient(a, 1000) + Remainder(a, 1000)
<1> DEFINE q == Quotient(a, 1000)
<1>1. q \in Int /\ a - 1000 * q \in -999..999 /\ (a >= 0 => a - 1000 * q \in 0..999)
  <2>1. CASE a >= 0
    <3>1. a \in Nat
      BY <2>1
    <3> QED
      BY <2>1, <3>1, DivisionOfNatural DEF Quotient
  <2>2. CASE ~(a >= 0)
    <3>1. -a \in Nat
      BY <2>2
    <3>2. (-a) \div 1000 \in Nat /\ -a - 1000 * ((-a) \div 1000) \in 0..999
      BY <3>1, DivisionOfNatural
    <3>3. q = -((-a) \div 1000)
      BY <2>2 DEF Quotient
    <3> HIDE DEF q
    <3> QED
      BY <2>2, <3>2, <3>3
  <2> QED
    BY <2>1, <2>2
<1> DEFINE r == Remainder(a, 1000)
<1>2. r = a - 1000 * q
  BY DEF Remainder
<1>3. q \in Int /\ r \in -999..999 /\ (a >= 0 => r \in 0..999) /\ a = 1000 * q + r
  <2> HIDE DEF q, r
  <2> QED
    BY <1>1, <1>2
<1> QED
  BY <1>3

(* The time of a deadline is the one asked for, whatever the clock says,   *)
(* and the kernel takes it for a time if it is not in the past.            *)
LEMMA Deadline ==
  ASSUME NEW ms \in Int, NEW now \in Int, now \in 0..999
  PROVE  LET until == to_abs_timespec(ms, now) IN
           /\ until \in [tv_sec : Int, tv_nsec : -999..999]
           /\ ms >= 0 => Valid(until)
           /\ until.tv_sec * 1000 + until.tv_nsec = now + ms
<1> DEFINE sec == Quotient(ms, 1000)
           rest == Remainder(ms, 1000)
           nsec == now + rest
           carry == Quotient(nsec, 1000)
           rem == Remainder(nsec, 1000)
           until == [tv_sec |-> sec + carry, tv_nsec |-> rem]
<1>1. sec \in Int /\ rest \in -999..999 /\ (ms >= 0 => rest \in 0..999) /\ ms = 1000 * sec + rest
  BY Division
<1>2. nsec \in Int /\ (ms >= 0 => nsec >= 0)
  <2>1. rest \in -999..999 /\ (ms >= 0 => rest \in 0..999)
    BY <1>1
  <2> HIDE DEF rest
  <2> QED
    BY <2>1
<1>3. carry \in Int /\ rem \in -999..999 /\ (nsec >= 0 => rem \in 0..999) /\ nsec = 1000 * carry + rem
  <2> HIDE DEF nsec
  <2> QED
    BY <1>2, Division
<1>4. until = to_abs_timespec(ms, now)
  BY DEF to_abs_timespec
<1>5. /\ until \in [tv_sec : Int, tv_nsec : -999..999]
      /\ ms >= 0 => Valid(until)
      /\ until.tv_sec * 1000 + until.tv_nsec = now + ms
  <2> HIDE DEF sec, rest, carry, rem
  <2> QED
    BY <1>1, <1>2, <1>3 DEF Valid
<1> QED
  BY <1>4, <1>5

(* The deadline of a timer is right. *)
Right(new) ==
  /\ new.ms >= 0 => Valid(new.until)
  /\ Valid(new.until) => new.until.tv_sec * 1000 + new.until.tv_nsec = new.now + new.ms

(* The timers there are. *)
LEMMA TimersAreRight ==
  /\ NoTimer \in Timers /\ Right(NoTimer) /\ Valid(NoTimer.until)
  /\ \A ms \in Timeouts, now \in Clocks :
       LET new == Timer(TRUE, ms, now, to_abs_timespec(ms, now)) IN
         new \in Timers /\ Right(new)
<1>1. NoTimer \in Timers /\ Right(NoTimer) /\ Valid(NoTimer.until)
  BY DEF NoTimer, Timer, Timers, Right, Valid
<1>2. ASSUME NEW ms \in Timeouts, NEW now \in Clocks
      PROVE  LET new == Timer(TRUE, ms, now, to_abs_timespec(ms, now)) IN
               new \in Timers /\ Right(new)
  <2> DEFINE until == to_abs_timespec(ms, now)
  <2>1. ms \in Int /\ now \in 0..999
    BY TimeoutsAssumption, ClocksAssumption
  <2>2. /\ until \in [tv_sec : Int, tv_nsec : -999..999]
        /\ ms >= 0 => Valid(until)
        /\ until.tv_sec * 1000 + until.tv_nsec = now + ms
    BY <2>1, Deadline
  <2> HIDE DEF until
  <2>3. Timer(TRUE, ms, now, until) \in Timers /\ Right(Timer(TRUE, ms, now, until))
    BY <2>2 DEF Timer, Timers, Right
  <2> QED
    BY <2>3 DEF until
<1> QED
  BY <1>1, <1>2

(* Every step, as far as the queue and its messages are concerned. *)
LEMMA MessageSteps ==
  ASSUME [Next]_vars
  PROVE  \/ \E t \in Senders : accept(t)
         \/ \E t \in Receivers : take(t)
         \/ \E t \in Clearers : drain(t)
         \/ UNCHANGED <<queue, sent, delivered, dropped>>
<1> USE DEF Next, Send, Receive, Clear, vars, history, send, refuse, receive, timed_receive,
            Enter, invalid, no_message, expire, clear, drained, restore
<1>1. CASE UNCHANGED vars
  BY <1>1
<1>2. CASE Next
  BY <1>2
<1> QED
  BY <1>1, <1>2

(* Every step, as far as the timers are concerned. *)
LEMMA TimerSteps ==
  ASSUME [Next]_vars
  PROVE  \/ timer' = timer
         \/ \E t \in Receivers, new \in Timers :
              Right(new) /\ timer' = [timer EXCEPT ![t] = new]
<1> USE DEF Enter, Return
<1>1. CASE UNCHANGED vars
  BY <1>1 DEF vars
<1>2. ASSUME NEW t \in Receivers, receive(t) PROVE timer' = [timer EXCEPT ![t] = NoTimer]
  BY <1>2 DEF receive
<1>3. ASSUME NEW t \in Receivers, NEW ms \in Timeouts, NEW now \in Clocks,
             timed_receive(t, ms, now)
      PROVE  timer' = [timer EXCEPT ![t] = Timer(TRUE, ms, now, to_abs_timespec(ms, now))]
  BY <1>3 DEF timed_receive
<1>4. ASSUME NEW t \in Receivers, Receive(t)
      PROVE  timer' = timer \/ timer' = [timer EXCEPT ![t] = NoTimer]
  BY <1>4 DEF Receive, invalid, take, no_message, expire
<1>5. CASE \/ \E t \in Senders : send(t) \/ Send(t)
           \/ \E t \in Clearers : clear(t) \/ Clear(t)
  BY <1>5 DEF Send, Clear, send, accept, refuse, clear, drain, drained, restore
<1>6. CASE \E t \in Receivers : receive(t) \/ Receive(t)
  BY <1>2, <1>4, <1>6, TimersAreRight
<1>7. CASE \E t \in Receivers, ms \in Timeouts, now \in Clocks : timed_receive(t, ms, now)
  <2>1. PICK t \in Receivers, ms \in Timeouts, now \in Clocks : timed_receive(t, ms, now)
    BY <1>7
  <2> DEFINE new == Timer(TRUE, ms, now, to_abs_timespec(ms, now))
  <2>2. new \in Timers /\ Right(new)
    BY TimersAreRight
  <2>3. timer' = [timer EXCEPT ![t] = new]
    BY <1>3, <2>1
  <2> HIDE DEF new
  <2> QED
    BY <2>2, <2>3
<1> QED
  BY <1>1, <1>5, <1>6, <1>7 DEF Next

(* The types hold in every reachable state. *)
THEOREM TypeCorrect == Safety => []TypeOK
<1>1. Init => TypeOK
  <2> SUFFICES ASSUME Init PROVE TypeOK
    OBVIOUS
  <2>1. queue \in Seq(1..sent) /\ Len(queue) <= Capacity /\ delivered \in Seq(1..sent)
    BY CapacityAssumption DEF Init
  <2>2. sent \in 0..MaxSent
    BY MaxSentAssumption DEF Init
  <2>3. timer \in [Receivers -> Timers]
    BY TimersAreRight DEF Init
  <2> QED
    BY <2>1, <2>2, <2>3 DEF Init, TypeOK, Positions
<1>2. TypeOK /\ [Next]_vars => TypeOK'
  <2> SUFFICES ASSUME TypeOK, [Next]_vars PROVE TypeOK'
    OBVIOUS
  <2> USE UsesAssumption DEF Threads, Positions, Goto, history
  <2>1. /\ queue' \in Seq(1..sent') /\ Len(queue') <= Capacity /\ sent' \in 0..MaxSent
        /\ delivered' \in Seq(1..sent') /\ dropped' \subseteq 1..sent'
    <3>0. /\ queue \in Seq(1..sent) /\ Len(queue) <= Capacity /\ sent \in 0..MaxSent
          /\ delivered \in Seq(1..sent) /\ dropped \subseteq 1..sent
          /\ MaxSent \in Nat /\ Capacity \in Nat
      BY MaxSentAssumption, CapacityAssumption DEF TypeOK
    <3>1. CASE \E t \in Senders : accept(t)
      <4>1. /\ Len(queue) < Capacity /\ sent < MaxSent /\ sent' = sent + 1
            /\ queue' = Append(queue, sent + 1) /\ delivered' = delivered /\ dropped' = dropped
        BY <3>0, <3>1 DEF accept, Full
      <4>2. queue \in Seq(1..sent') /\ delivered \in Seq(1..sent') /\ sent' \in 1..sent'
        BY <3>0, <4>1
      <4>3. dropped \subseteq 1..sent'
        BY <3>0, <4>1
      <4> QED
        BY <3>0, <4>1, <4>2, <4>3
    <3>2. ASSUME queue # <<>>
          PROVE  /\ Head(queue) \in 1..sent /\ Tail(queue) \in Seq(1..sent)
                 /\ Len(Tail(queue)) <= Capacity
      BY <3>0, <3>2
    <3>3. CASE \E t \in Receivers : take(t)
      <4>1. /\ queue # <<>> /\ queue' = Tail(queue) /\ delivered' = Append(delivered, Head(queue))
            /\ sent' = sent /\ dropped' = dropped
        BY <3>3 DEF take, is_empty
      <4> QED
        BY <3>0, <3>2, <4>1
    <3>4. CASE \E t \in Clearers : drain(t)
      <4>1. /\ queue # <<>> /\ queue' = Tail(queue) /\ dropped' = dropped \cup {Head(queue)}
            /\ sent' = sent /\ delivered' = delivered
        BY <3>4 DEF drain, is_empty
      <4>2. dropped' \subseteq 1..sent
        BY <3>0, <3>2, <4>1
      <4> QED
        BY <3>0, <3>2, <4>1, <4>2
    <3>5. CASE UNCHANGED <<queue, sent, delivered, dropped>>
      BY <3>0, <3>5
    <3> QED
      BY <3>1, <3>3, <3>4, <3>5, MessageSteps
  <2>2. timer' \in [Receivers -> Timers]
    <3>1. timer \in [Receivers -> Timers]
      BY DEF TypeOK
    <3> QED
      BY <3>1, TimerSteps
  <2>3. /\ pc' \in [Threads -> Positions] /\ nonblock' \in [Objects -> BOOLEAN]
        /\ old_attr' \in [Clearers -> BOOLEAN] /\ overlapped' \subseteq Objects
    <3>0. /\ pc \in [Threads -> Positions] /\ nonblock \in [Objects -> BOOLEAN]
          /\ old_attr \in [Clearers -> BOOLEAN] /\ overlapped \subseteq Objects
      BY DEF TypeOK
    <3>1. CASE \E t \in Senders : send(t) \/ Send(t)
      BY <3>0, <3>1 DEF send, Send, accept, refuse
    <3>2. ASSUME NEW t \in Receivers, NEW new, Enter(t, new)
          PROVE  /\ pc' \in [Threads -> Positions]
                 /\ UNCHANGED <<nonblock, old_attr, overlapped>>
      BY <3>0, <3>2 DEF Enter
    <3>3. CASE \E t \in Receivers : Receive(t)
      BY <3>0, <3>3 DEF Receive, Return, invalid, take, no_message, expire
    <3>4. CASE \E t \in Clearers : clear(t)
      BY <3>0, <3>4 DEF clear, NonBlocking, Meets
    <3>5. CASE \E t \in Clearers : Clear(t)
      BY <3>0, <3>5 DEF Clear, drain, drained, restore
    <3>6. CASE UNCHANGED vars
      BY <3>0, <3>6 DEF vars
    <3>7. CASE \E t \in Receivers :
                 receive(t) \/ \E ms \in Timeouts, now \in Clocks : timed_receive(t, ms, now)
      BY <3>0, <3>2, <3>7 DEF receive, timed_receive
    <3> QED
      BY <3>1, <3>3, <3>4, <3>5, <3>6, <3>7 DEF Next
  <2> QED
    BY <2>1, <2>2, <2>3 DEF TypeOK
<1> QED
  BY <1>1, <1>2, PTL DEF Safety

(* Whenever in a second it is called, and with whatever timeout, a         *)
(* timed_receive() asks the kernel for the right time.                     *)
THEOREM DeadlinesAreRight == Safety => []WaitsAsLong
<1> DEFINE Inv == \A t \in Receivers : Right(timer[t])
<1>1. Init => Inv
  BY TimersAreRight DEF Init
<1>2. TypeOK /\ Inv /\ [Next]_vars => Inv'
  <2> SUFFICES ASSUME TypeOK, Inv, [Next]_vars PROVE Inv'
    OBVIOUS
  <2>1. timer \in [Receivers -> Timers]
    BY DEF TypeOK
  <2> QED
    BY <2>1, TimerSteps
<1>3. Inv <=> WaitsAsLong
  BY DEF WaitsAsLong, Right
<1> QED
  BY <1>1, <1>2, <1>3, TypeCorrect, PTL DEF Safety

-----------------------------------------------------------------------------

(* An increasing sequence stays one when something larger is appended. *)
LEMMA IncreasingAppend ==
  ASSUME NEW s \in Seq(Nat), NEW e \in Nat, Increasing(s), \A d \in Range(s) : d < e
  PROVE  Increasing(Append(s, e))
<1>1. /\ DOMAIN Append(s, e) = 1..(Len(s) + 1) /\ DOMAIN s = 1..Len(s) /\ Len(s) \in Nat
      /\ \A i \in 1..Len(s) : Append(s, e)[i] = s[i] /\ s[i] < e
      /\ Append(s, e)[Len(s) + 1] = e
  BY DEF Range
<1> QED
  BY <1>1 DEF Increasing

(* The stamps up to sent are numbers. *)
LEMMA Stamps ==
  ASSUME TypeOK
  PROVE  /\ queue \in Seq(Nat) /\ delivered \in Seq(Nat) /\ sent \in Nat
         /\ Range(queue) \subseteq 1..sent /\ Range(delivered) \subseteq 1..sent
         /\ dropped \subseteq 1..sent
<1>1. /\ Range(queue) \subseteq 1..sent /\ Range(delivered) \subseteq 1..sent
      /\ dropped \subseteq 1..sent
  BY DEF TypeOK, Range
<1>2. sent \in Nat
  BY MaxSentAssumption DEF TypeOK
<1> QED
  BY <1>1, <1>2 DEF TypeOK

(* Taking the oldest message out leaves later ones. *)
LEMMA Oldest ==
  ASSUME TypeOK, Conserved, queue # <<>>, queue' = Tail(queue)
  PROVE  /\ Head(queue) \in 1..sent
         /\ Range(queue) = {Head(queue)} \cup Range(queue')
         /\ Increasing(queue')
         /\ \A q \in Range(queue') : Head(queue) < q
         /\ \A d \in Range(delivered) : d < Head(queue)
<1>1. queue \in Seq(Nat) /\ Range(queue) \subseteq 1..sent
  BY Stamps
<1>2. Range(queue) = {Head(queue)} \cup Range(queue')
  BY <1>1, RangeTail
<1>3. /\ DOMAIN queue' = 1..(Len(queue) - 1) /\ DOMAIN queue = 1..Len(queue)
      /\ Len(queue) \in Nat \ {0} /\ Head(queue) = queue[1]
      /\ \A i \in 1..(Len(queue) - 1) : queue'[i] = queue[i + 1]
  BY <1>1
<1>4. Increasing(queue') /\ \A i \in DOMAIN queue' : queue[1] < queue'[i]
  BY <1>3 DEF Conserved, Increasing
<1>5. \A q \in Range(queue') : Head(queue) < q
  BY <1>3, <1>4 DEF Range
<1>6. Head(queue) \in Range(queue) /\ \A d \in Range(delivered) : d < Head(queue)
  BY <1>2 DEF Conserved
<1> QED
  BY <1>1, <1>2, <1>4, <1>5, <1>6

(* Whoever takes messages out, receivers or clear(), every message the     *)
(* kernel accepted is received once and in order, waits in order behind    *)
(* those, or is one that a clear() took out.                               *)
THEOREM MessagesAreConserved == Safety => []Conserved
<1>1. Init => Conserved
  BY DEF Init, Conserved, Increasing, Range
<1>2. TypeOK /\ Conserved /\ [Next]_vars => Conserved'
  <2> SUFFICES ASSUME TypeOK, Conserved, [Next]_vars PROVE Conserved'
    OBVIOUS
  <2> DEFINE Q == Range(queue)
             D == Range(delivered)
  <2>1. /\ Q \subseteq 1..sent /\ D \subseteq 1..sent /\ sent \in Nat
        /\ dropped = 1..sent \ (D \cup Q)
    BY Stamps DEF Conserved
  <2>2. ASSUME NEW t \in Senders, accept(t) PROVE Conserved'
    <3>1. /\ queue' = Append(queue, sent + 1) /\ sent' = sent + 1
          /\ delivered' = delivered /\ dropped' = dropped
      BY <2>2 DEF accept
    <3>2. queue \in Seq(Nat) /\ sent + 1 \in Nat /\ \A n \in 1..sent : n < sent + 1
      BY Stamps
    <3>3. Q' = Q \cup {sent + 1}
      BY <3>1, <3>2, RangeAppend
    <3>4. D' = D /\ Increasing(delivered')
      BY <3>1 DEF Conserved, Range, Increasing
    <3>5. Increasing(queue')
      <4>1. \A q \in Range(queue) : q < sent + 1
        BY <2>1, <3>2
      <4> QED
        BY <3>1, <3>2, <4>1, IncreasingAppend DEF Conserved
    <3>6. \A d \in D', q \in Q' : d < q
      <4>1. \A d \in D, q \in Q : d < q
        BY DEF Conserved
      <4> HIDE DEF Q, D
      <4> QED
        BY <2>1, <3>2, <3>3, <3>4, <4>1
    <3>7. dropped' = 1..sent' \ (D' \cup Q')
      <4>1. 1..(sent + 1) = 1..sent \cup {sent + 1} /\ sent + 1 \notin 1..sent
        BY <2>1
      <4> HIDE DEF Q, D
      <4> QED
        BY <2>1, <3>1, <3>3, <3>4, <4>1
    <3> QED
      BY <3>4, <3>5, <3>6, <3>7 DEF Conserved
  <2>3. ASSUME NEW t \in Receivers, take(t) PROVE Conserved'
    <3>1. /\ queue # <<>> /\ queue' = Tail(queue) /\ delivered' = Append(delivered, Head(queue))
          /\ sent' = sent /\ dropped' = dropped
      BY <2>3 DEF take, is_empty
    <3>2. /\ Head(queue) \in Nat /\ Q = {Head(queue)} \cup Q' /\ Increasing(queue')
          /\ \A q \in Q' : Head(queue) < q
          /\ \A d \in D : d < Head(queue)
      BY <2>1, <3>1, Oldest
    <3>3. delivered \in Seq(Nat) /\ Increasing(delivered)
      BY Stamps DEF Conserved
    <3>4. D' = D \cup {Head(queue)}
      BY <3>1, <3>2, <3>3, RangeAppend
    <3>5. Increasing(delivered')
      BY <3>1, <3>2, <3>3, IncreasingAppend
    <3>6. \A d \in D', q \in Q' : d < q
      <4>1. \A d \in D, q \in Q : d < q
        BY DEF Conserved
      <4> HIDE DEF Q, D
      <4> QED
        BY <3>2, <3>4, <4>1
    <3>7. dropped' = 1..sent' \ (D' \cup Q')
      <4> HIDE DEF Q, D
      <4> QED
        BY <2>1, <3>1, <3>2, <3>4
    <3> QED
      BY <3>2, <3>5, <3>6, <3>7 DEF Conserved
  <2>4. ASSUME NEW t \in Clearers, drain(t) PROVE Conserved'
    <3>1. /\ queue # <<>> /\ queue' = Tail(queue) /\ delivered' = delivered
          /\ sent' = sent /\ dropped' = dropped \cup {Head(queue)}
      BY <2>4 DEF drain, is_empty
    <3>2. /\ Head(queue) \in 1..sent /\ Q = {Head(queue)} \cup Q' /\ Increasing(queue')
          /\ \A q \in Q' : Head(queue) < q
          /\ \A d \in D : d < Head(queue)
      BY <3>1, Oldest
    <3>3. D' = D /\ Increasing(delivered')
      BY <3>1 DEF Conserved, Range, Increasing
    <3>4. \A d \in D', q \in Q' : d < q
      <4>1. \A d \in D, q \in Q : d < q
        BY DEF Conserved
      <4> HIDE DEF Q, D
      <4> QED
        BY <3>2, <3>3, <4>1
    <3>5. Head(queue) \notin Q' \cup D
      <4>1. ~(Head(queue) < Head(queue))
        BY <2>1, <3>2
      <4> HIDE DEF Q, D
      <4> QED
        BY <3>2, <4>1
    <3>6. dropped' = 1..sent' \ (D' \cup Q')
      <4> HIDE DEF Q, D
      <4> QED
        BY <2>1, <3>1, <3>2, <3>3, <3>5
    <3> QED
      BY <3>2, <3>3, <3>4, <3>6 DEF Conserved
  <2>5. CASE UNCHANGED <<queue, sent, delivered, dropped>>
    BY <2>5 DEF Conserved, Range, Increasing
  <2> QED
    BY <2>2, <2>3, <2>4, <2>5, MessageSteps
<1> QED
  BY <1>1, <1>2, TypeCorrect, PTL DEF Safety

-----------------------------------------------------------------------------

(* Where no two clear() have met, the one there is knows that the          *)
(* descriptor waits, and there is no other.                                *)
RestoreInv ==
  \A t \in Clearers :
    Clearing(t) /\ Uses[t] \notin overlapped =>
      /\ ~old_attr[t]
      /\ \A u \in Clearers : Clearing(u) /\ Uses[u] = Uses[t] => u = t

(* Every step, as far as the descriptors are concerned. *)
LEMMA DescriptorSteps ==
  ASSUME TypeOK, [Next]_vars
  PROVE  \/ \E t \in Clearers : clear(t)
         \/ \E t \in Clearers : restore(t)
         \/ /\ UNCHANGED <<nonblock, old_attr, overlapped>>
            /\ \A t \in Clearers : Clearing(t)' = Clearing(t)
<1> USE DEF Clearing, Goto, history
<1>0. pc \in [Threads -> Positions] /\ Clearers \subseteq Threads
  BY DEF TypeOK, Threads
<1>1. CASE UNCHANGED vars
  BY <1>1 DEF vars
<1>2. CASE \E t \in Senders : send(t) \/ Send(t)
  BY <1>0, <1>2 DEF send, Send, accept, refuse
<1>3. ASSUME NEW t \in Receivers, NEW new, Enter(t, new)
      PROVE  /\ UNCHANGED <<nonblock, old_attr, overlapped>>
             /\ \A u \in Clearers : Clearing(u)' = Clearing(u)
  BY <1>0, <1>3 DEF Enter
<1>4. CASE \E t \in Receivers :
             receive(t) \/ \E ms \in Timeouts, now \in Clocks : timed_receive(t, ms, now)
  BY <1>3, <1>4 DEF receive, timed_receive
<1>5. CASE \E t \in Receivers : Receive(t)
  BY <1>0, <1>5 DEF Receive, Return, invalid, take, no_message, expire
<1>6. CASE \E t \in Clearers : drain(t) \/ drained(t)
  BY <1>0, <1>6 DEF drain, drained
<1> QED
  BY <1>1, <1>2, <1>4, <1>5, <1>6 DEF Next, Clear

(* The attributes are put back, but where two clear() have met on one      *)
(* object.                                                                 *)
THEOREM AttributesArePutBack == Safety => []AttributesPutBack
<1>1. Init => RestoreInv /\ AttributesPutBack
  BY UsesAssumption DEF Init, RestoreInv, AttributesPutBack, Clearing, Threads
<1>2. TypeOK /\ RestoreInv /\ AttributesPutBack /\ [Next]_vars
        => RestoreInv' /\ AttributesPutBack'
  <2> SUFFICES ASSUME TypeOK, RestoreInv, AttributesPutBack, [Next]_vars
               PROVE  RestoreInv' /\ AttributesPutBack'
    OBVIOUS
  <2>0. /\ pc \in [Threads -> Positions] /\ nonblock \in [Objects -> BOOLEAN]
        /\ old_attr \in [Clearers -> BOOLEAN] /\ overlapped \subseteq Objects
        /\ Clearers \subseteq Threads /\ \A t \in Clearers : Uses[t] \in Objects
    BY UsesAssumption DEF TypeOK, Threads
  <2>1. ASSUME NEW t \in Clearers, clear(t) PROVE RestoreInv' /\ AttributesPutBack'
    <3> DEFINE met == \E u \in Clearers : Clearing(u) /\ Uses[u] = Uses[t]
    <3>1. /\ ~Clearing(t) /\ Clearing(t)' /\ \A u \in Clearers \ {t} : Clearing(u)' = Clearing(u)
          /\ nonblock' = [nonblock EXCEPT ![Uses[t]] = TRUE]
          /\ old_attr' = [old_attr EXCEPT ![t] = nonblock[Uses[t]]]
      BY <2>0, <2>1 DEF clear, Clearing, Goto, NonBlocking
    <3>2. /\ overlapped \subseteq overlapped' /\ (met => Uses[t] \in overlapped')
          /\ overlapped' \subseteq overlapped \cup {Uses[t]}
      BY <2>1 DEF clear, Meets
    <3>3. ~met /\ Uses[t] \notin overlapped => ~nonblock[Uses[t]]
      BY <2>0 DEF AttributesPutBack
    <3>4. RestoreInv'
      <4> SUFFICES ASSUME NEW u \in Clearers, Clearing(u)', Uses[u] \notin overlapped'
                   PROVE  /\ ~old_attr'[u]
                          /\ \A v \in Clearers : Clearing(v)' /\ Uses[v] = Uses[u] => v = u
        BY DEF RestoreInv
      <4>1. CASE u = t
        <5>1. ~met /\ Uses[t] \notin overlapped
          BY <3>2, <4>1
        <5>2. ~old_attr'[u]
          BY <2>0, <3>1, <3>3, <4>1, <5>1
        <5> QED
          BY <3>1, <4>1, <5>1, <5>2
      <4>2. CASE u # t
        <5>1. Clearing(u) /\ Uses[u] \notin overlapped /\ old_attr'[u] = old_attr[u]
          BY <2>0, <3>1, <3>2, <4>2
        <5>2. Uses[t] # Uses[u]
          BY <3>2, <5>1
        <5> QED
          BY <3>1, <5>1, <5>2 DEF RestoreInv
      <4> QED
        BY <4>1, <4>2
    <3>5. AttributesPutBack'
      <4> SUFFICES ASSUME NEW o \in Objects \ overlapped'
                   PROVE  nonblock'[o] <=> \E u \in Clearers : Uses[u] = o /\ Clearing(u)'
        BY DEF AttributesPutBack
      <4>1. CASE o = Uses[t]
        BY <2>0, <3>1, <4>1
      <4>2. CASE o # Uses[t]
        <5>1. nonblock'[o] = nonblock[o] /\ o \notin overlapped
          BY <2>0, <3>1, <3>2, <4>2
        <5> QED
          BY <3>1, <4>2, <5>1 DEF AttributesPutBack
      <4> QED
        BY <4>1, <4>2
    <3> QED
      BY <3>4, <3>5
  <2>2. ASSUME NEW t \in Clearers, restore(t) PROVE RestoreInv' /\ AttributesPutBack'
    <3>1. /\ Clearing(t) /\ ~Clearing(t)' /\ \A u \in Clearers \ {t} : Clearing(u)' = Clearing(u)
          /\ nonblock' = [nonblock EXCEPT ![Uses[t]] = old_attr[t]]
          /\ old_attr' = old_attr /\ overlapped' = overlapped
      BY <2>0, <2>2 DEF restore, Clearing, Goto, history
    <3>2. RestoreInv'
      BY <3>1 DEF RestoreInv
    <3>3. AttributesPutBack'
      <4> SUFFICES ASSUME NEW o \in Objects \ overlapped
                   PROVE  nonblock'[o] <=> \E u \in Clearers : Uses[u] = o /\ Clearing(u)'
        BY <3>1 DEF AttributesPutBack
      <4>1. CASE o = Uses[t]
        <5>1. ~old_attr[t] /\ \A u \in Clearers : Clearing(u) /\ Uses[u] = o => u = t
          BY <3>1, <4>1 DEF RestoreInv
        <5> QED
          BY <2>0, <3>1, <4>1, <5>1
      <4>2. CASE o # Uses[t]
        <5>1. nonblock'[o] = nonblock[o]
          BY <2>0, <3>1, <4>2
        <5> QED
          BY <3>1, <4>2, <5>1 DEF AttributesPutBack
      <4> QED
        BY <4>1, <4>2
    <3> QED
      BY <3>2, <3>3
  <2>3. CASE /\ UNCHANGED <<nonblock, old_attr, overlapped>>
             /\ \A t \in Clearers : Clearing(t)' = Clearing(t)
    BY <2>3 DEF RestoreInv, AttributesPutBack
  <2> QED
    BY <2>1, <2>2, <2>3, DescriptorSteps
<1> QED
  BY <1>1, <1>2, TypeCorrect, PTL DEF Safety

-----------------------------------------------------------------------------

(* A queue in the kernel, with all its objects, their non-blocking times   *)
(* and deadlines, behaves as the interface promises.                       *)
THEOREM Implementation == Safety => Abstract!Safety
<1> DEFINE inside == {t \in Receivers : /\ pc[t] \in {"receive", "receive_blocked"}
                                        /\ Valid(timer[t].until)}
<1>1. Init => Abstract!Init
  BY DEF Init, Abstract!Init, Threads
<1>2. TypeOK /\ [Next]_vars => [Abstract!Next]_(Abstract!vars)
  <2> SUFFICES ASSUME TypeOK, [Next]_vars
               PROVE  Abstract!Next \/ UNCHANGED <<queue, sent, delivered, inside>>
    BY DEF Abstract!vars
  <2> USE DEF Goto, history, is_empty
  <2>0. /\ pc \in [Threads -> Positions] /\ queue \in Seq(1..sent)
        /\ timer \in [Receivers -> Timers] /\ Receivers \subseteq Threads
    BY DEF TypeOK, Threads
  <2>1. ASSUME NEW t \in Senders, accept(t) PROVE Abstract!Send
    <3>1. inside' = inside
      BY <2>0, <2>1 DEF accept
    <3> QED
      BY <2>1, <3>1 DEF accept, Abstract!Send
  <2>2. ASSUME NEW t \in Senders, send(t) \/ refuse(t)
        PROVE  UNCHANGED <<queue, sent, delivered, inside>>
    BY <2>0, <2>2 DEF send, refuse
  <2>3. ASSUME NEW t \in Receivers, NEW new, Enter(t, new), Valid(new.until)
        PROVE  Abstract!Call(t)
    <3>1. t \notin inside /\ inside' = inside \cup {t}
      BY <2>0, <2>3 DEF Enter
    <3> QED
      BY <2>3, <3>1 DEF Enter, Abstract!Call
  <2>4. ASSUME NEW t \in Receivers, NEW new, Enter(t, new), ~Valid(new.until)
        PROVE  UNCHANGED <<queue, sent, delivered, inside>>
    BY <2>0, <2>4 DEF Enter
  <2>5. ASSUME NEW t \in Receivers, receive(t) PROVE Abstract!Next
    BY <2>3, <2>5, TimersAreRight DEF receive, Abstract!Next
  <2>6. ASSUME NEW t \in Receivers, NEW ms \in Timeouts, NEW now \in Clocks,
               timed_receive(t, ms, now)
        PROVE  Abstract!Next \/ UNCHANGED <<queue, sent, delivered, inside>>
    <3> DEFINE new == Timer(TRUE, ms, now, to_abs_timespec(ms, now))
    <3>1. Enter(t, new)
      BY <2>6 DEF timed_receive
    <3> HIDE DEF new
    <3> QED
      BY <2>3, <2>4, <3>1 DEF Abstract!Next
  <2>7. ASSUME NEW t \in Receivers, Return(t) PROVE inside' = inside \ {t}
    BY <2>0, <2>7 DEF Return
  <2>8. ASSUME NEW t \in Receivers, take(t) PROVE Abstract!Deliver(t)
    <3>1. t \in inside /\ inside' = inside \ {t}
      BY <2>7, <2>8 DEF take
    <3> QED
      BY <2>8, <3>1 DEF take, Abstract!Deliver
  <2>9. ASSUME NEW t \in Receivers, invalid(t)
        PROVE  UNCHANGED <<queue, sent, delivered, inside>>
    <3>1. t \notin inside /\ inside' = inside \ {t}
      BY <2>7, <2>9 DEF invalid
    <3> QED
      BY <2>9, <3>1 DEF invalid
  <2>10. ASSUME NEW t \in Receivers, Return(t), is_empty, UNCHANGED <<queue, sent, delivered>>
         PROVE  Abstract!Next \/ UNCHANGED <<queue, sent, delivered, inside>>
    <3>1. CASE t \in inside
      BY <2>7, <2>10, <3>1 DEF Abstract!Next, Abstract!GiveUp
    <3>2. CASE t \notin inside
      BY <2>7, <2>10, <3>2
    <3> QED
      BY <3>1, <3>2
  <2>11. ASSUME NEW t \in Receivers, no_message(t)
         PROVE  Abstract!Next \/ UNCHANGED <<queue, sent, delivered, inside>>
    <3>1. CASE NonBlocking(t)
      BY <2>10, <2>11, <3>1 DEF no_message
    <3>2. CASE ~NonBlocking(t)
      BY <2>0, <2>11, <3>2 DEF no_message
    <3> QED
      BY <3>1, <3>2
  <2>12. ASSUME NEW t \in Receivers, expire(t)
         PROVE  Abstract!Next \/ UNCHANGED <<queue, sent, delivered, inside>>
    BY <2>10, <2>12 DEF expire
  <2>13. ASSUME NEW t \in Clearers, drain(t) PROVE Abstract!Clear
    <3>1. inside' = inside
      BY <2>0, <2>13 DEF drain
    <3>2. queue # <<>> /\ queue' = Tail(queue) /\ UNCHANGED <<sent, delivered>>
      BY <2>13 DEF drain
    <3>3. 1 \in 1..Len(queue) /\ Tail(queue) = SubSeq(queue, 1 + 1, Len(queue))
      BY <2>0, <3>2
    <3> QED
      BY <3>1, <3>2, <3>3 DEF Abstract!Clear
  <2>14. ASSUME NEW t \in Clearers, clear(t) \/ drained(t) \/ restore(t)
         PROVE  UNCHANGED <<queue, sent, delivered, inside>>
    BY <2>0, <2>14 DEF clear, drained, restore
  <2>15. CASE UNCHANGED vars
    BY <2>15 DEF vars
  <2> QED
    BY <2>1, <2>2, <2>5, <2>6, <2>8, <2>9, <2>11, <2>12, <2>13, <2>14, <2>15
       DEF Next, Send, Receive, Clear, Abstract!Next
<1> QED
  BY <1>1, <1>2, TypeCorrect, PTL DEF Safety, Abstract!Safety

-----------------------------------------------------------------------------
(* The life of a queue's name. *)

(* The types hold in every reachable state. *)
LEMMA NameTypes == NameSpec => []NameTypeOK
<1>1. NameInit => NameTypeOK
  BY DEF NameInit, NameTypeOK, States
<1>2. NameTypeOK /\ [NameNext]_nameVars => NameTypeOK'
  <2> SUFFICES ASSUME NameTypeOK, [NameNext]_nameVars PROVE NameTypeOK'
    OBVIOUS
  <2> USE DEF NameTypeOK, States
  <2>1. ASSUME NEW o \in Instances, NEW size \in Sizes, open_owner(o, size) PROVE NameTypeOK'
    <3>1. CASE named # None
      BY <2>1, <3>1 DEF open_owner, Open, kernel
    <3>2. CASE named = None
      <4>1. PICK q \in Queues : Open(o, q) /\ create(q, size) /\ UNCHANGED found
        BY <2>1, <3>2 DEF open_owner
      <4> QED
        BY <2>1, <4>1, NoneAssumption DEF open_owner, Open, create
    <3> QED
      BY <3>1, <3>2
  <2>2. ASSUME NEW o \in Instances, open_attach(o) PROVE NameTypeOK'
    BY <2>2 DEF open_attach, Open, kernel, nameHistory
  <2>3. ASSUME NEW o \in Instances, do_send(o) \/ mq_receive(o) PROVE NameTypeOK'
    BY <2>3 DEF do_send, mq_receive, objects, nameHistory
  <2>4. ASSUME NEW dying \in SUBSET Instances, Gone(dying), named' \in {named, None},
               leftover' \subseteq Queues, UNCHANGED <<max_msg, filled>>
        PROVE  NameTypeOK'
    BY <2>4 DEF Gone
  <2>5. ASSUME NEW o \in Instances, close(o) PROVE NameTypeOK'
    <3>1. CASE o \in owner_
      BY <2>5, <3>1 DEF close, kernel, nameHistory
    <3>2. CASE o \notin owner_
      BY <2>4, <2>5, <3>2 DEF close, kernel
    <3> QED
      BY <3>1, <3>2
  <2>6. ASSUME NEW o \in Instances, unlink(o) PROVE NameTypeOK'
    BY <2>4, <2>6 DEF unlink
  <2>7. ASSUME NEW p \in Processes, crash(p) PROVE NameTypeOK'
    <3> DEFINE dying == {o \in Instances : In[o] = p /\ state[o] # "none"}
    <3>1. Gone(dying) /\ UNCHANGED <<named, max_msg, filled>>
      BY <2>7 DEF crash, kernel
    <3>2. leftover' = leftover \cup {mqd_[o] : o \in dying \cap owner_}
      BY <2>7 DEF crash
    <3>3. leftover' \subseteq Queues
      BY <3>2
    <3> QED
      BY <2>4, <3>1, <3>3
  <2>8. CASE UNCHANGED nameVars
    BY <2>8 DEF nameVars, kernel, objects, nameHistory
  <2> QED
    BY <2>1, <2>2, <2>3, <2>5, <2>6, <2>7, <2>8 DEF NameNext
<1> QED
  BY <1>1, <1>2, PTL DEF NameSpec

(* The types are right, for any processes, objects and queues. *)
THEOREM NameTypesCorrect == NameSpec => []NameTypeOK
  BY NameTypes

-----------------------------------------------------------------------------

(* However owners come and go, a queue that has the name has an owner,     *)
(* unless one of its owners crashed.                                       *)
THEOREM NamesAreRemoved == NameSpec => []NameHasOwner
<1>1. NameInit => NameHasOwner
  BY DEF NameInit, NameHasOwner
<1>2. NameTypeOK /\ NameHasOwner /\ [NameNext]_nameVars => NameHasOwner'
  <2> SUFFICES ASSUME NameTypeOK, NameHasOwner, [NameNext]_nameVars PROVE NameHasOwner'
    OBVIOUS
  <2> USE DEF NameHasOwner
  <2>1. ASSUME NEW o \in Instances, NEW size \in Sizes, open_owner(o, size) PROVE NameHasOwner'
    <3>1. owner_' = owner_ \cup {o} /\ mqd_'[o] = named'
      BY <2>1 DEF open_owner, Open, create, kernel, NameTypeOK
    <3> QED
      BY <3>1
  <2>2. ASSUME NEW o \in Instances, open_attach(o) PROVE NameHasOwner'
    <3>1. /\ o \notin owner_ /\ UNCHANGED <<named, owner_, leftover>>
          /\ \A p \in Instances \ {o} : mqd_'[p] = mqd_[p]
      BY <2>2 DEF open_attach, Open, kernel, nameHistory, NameTypeOK
    <3> QED
      BY <3>1 DEF NameTypeOK
  <2>3. ASSUME NEW o \in Instances, do_send(o) \/ mq_receive(o) PROVE NameHasOwner'
    BY <2>3 DEF do_send, mq_receive, objects, nameHistory
  <2>4. ASSUME NEW o \in Instances, close(o) PROVE NameHasOwner'
    <3>1. CASE o \in owner_
      BY <2>4, <3>1 DEF close, kernel, nameHistory
    <3>2. CASE o \notin owner_
      <4>1. /\ UNCHANGED <<named, leftover>> /\ owner_' = owner_
            /\ \A p \in Instances \ {o} : mqd_'[p] = mqd_[p]
        BY <2>4, <3>2 DEF close, Gone, kernel
      <4> QED
        BY <3>2, <4>1 DEF NameTypeOK
    <3> QED
      BY <3>1, <3>2
  <2>5. ASSUME NEW o \in Instances, unlink(o) PROVE NameHasOwner'
    BY <2>5 DEF unlink
  <2>6. ASSUME NEW p \in Processes, crash(p) PROVE NameHasOwner'
    <3> DEFINE dying == {o \in Instances : In[o] = p /\ state[o] # "none"}
    <3>1. /\ leftover' = leftover \cup {mqd_[o] : o \in dying \cap owner_}
          /\ named' = named /\ owner_' = owner_ \ dying
          /\ \A o \in Instances \ dying : mqd_'[o] = mqd_[o]
      BY <2>6 DEF crash, Gone, kernel
    <3> HIDE DEF dying
    <3> QED
      BY <3>1 DEF NameTypeOK
  <2>7. CASE UNCHANGED nameVars
    BY <2>7 DEF nameVars, kernel, objects, nameHistory
  <2> QED
    BY <2>1, <2>2, <2>3, <2>4, <2>5, <2>6, <2>7 DEF NameNext
<1> QED
  BY <1>1, <1>2, NameTypes, PTL DEF NameSpec

-----------------------------------------------------------------------------

(* Owners that have met no other are alone, and nothing is on record of    *)
(* objects that are not owners.                                            *)
OwnersInv ==
  /\ found \subseteq owner_
  /\ \A o \in Instances : state[o] = "closed" => o \in owner_
  /\ ~shared => \A o, p \in owner_ : o = p

LEMMA Owners == NameSpec => []OwnersInv
<1>1. NameInit => OwnersInv
  BY DEF NameInit, OwnersInv
<1>2. NameTypeOK /\ OwnersInv /\ [NameNext]_nameVars => OwnersInv'
  <2> SUFFICES ASSUME NameTypeOK, OwnersInv, [NameNext]_nameVars PROVE OwnersInv'
    OBVIOUS
  <2> USE DEF OwnersInv
  <2>1. ASSUME NEW o \in Instances, NEW size \in Sizes, open_owner(o, size) PROVE OwnersInv'
    <3>1. /\ owner_' = owner_ \cup {o} /\ shared' = (owner_ # {})
          /\ state' = [state EXCEPT ![o] = "open"]
          /\ found' \subseteq found \cup {o}
      BY <2>1 DEF open_owner, Open
    <3> QED
      BY <3>1 DEF NameTypeOK
  <2>2. ASSUME NEW o \in Instances, open_attach(o) PROVE OwnersInv'
    BY <2>2 DEF open_attach, Open, nameHistory, NameTypeOK
  <2>3. ASSUME NEW o \in Instances, do_send(o) \/ mq_receive(o) PROVE OwnersInv'
    BY <2>3 DEF do_send, mq_receive, objects, nameHistory
  <2>4. ASSUME NEW dying \in SUBSET Instances, Gone(dying) PROVE OwnersInv'
    BY <2>4 DEF Gone
  <2>5. ASSUME NEW o \in Instances, close(o) PROVE OwnersInv'
    <3>1. CASE o \in owner_
      BY <2>5, <3>1 DEF close, nameHistory, NameTypeOK
    <3>2. CASE o \notin owner_
      BY <2>4, <2>5, <3>2 DEF close
    <3> QED
      BY <3>1, <3>2
  <2>6. ASSUME NEW o \in Instances, unlink(o) PROVE OwnersInv'
    BY <2>4, <2>6 DEF unlink
  <2>7. ASSUME NEW p \in Processes, crash(p) PROVE OwnersInv'
    BY <2>4, <2>7 DEF crash
  <2>8. CASE UNCHANGED nameVars
    BY <2>8 DEF nameVars, objects, nameHistory
  <2> QED
    BY <2>1, <2>2, <2>3, <2>5, <2>6, <2>7, <2>8 DEF NameNext
<1> QED
  BY <1>1, <1>2, NameTypes, PTL DEF NameSpec

(* An owner alone with its name, whose queue is not a crashed one's, has   *)
(* a new queue of the size it asked for, and Attach objects find it.       *)
THEOREM OwnersCreate == NameSpec => []OwnerHasNewQueue
<1>1. NameInit => OwnerHasNewQueue
  BY DEF NameInit, OwnerHasNewQueue
<1>2. NameTypeOK /\ OwnersInv /\ NameHasOwner /\ OwnerHasNewQueue /\ [NameNext]_nameVars => OwnerHasNewQueue'
  <2> SUFFICES ASSUME NameTypeOK, OwnersInv, NameHasOwner, OwnerHasNewQueue, [NameNext]_nameVars
               PROVE  OwnerHasNewQueue'
    OBVIOUS
  <2> USE DEF OwnerHasNewQueue
  <2>1. ASSUME NEW o \in Instances, NEW size \in Sizes, open_owner(o, size) PROVE OwnerHasNewQueue'
    <3>1. o \notin owner_ /\ owner_' = owner_ \cup {o} /\ shared' = (owner_ # {})
      BY <2>1 DEF open_owner, Open, NameTypeOK
    <3>2. CASE owner_ # {}
      BY <3>1, <3>2
    <3>3. CASE owner_ = {} /\ named # None
      BY <2>1, <3>1, <3>3 DEF open_owner, Open, NameHasOwner, NameTypeOK
    <3>4. CASE owner_ = {} /\ named = None
      <4>1. PICK q \in Queues : Open(o, q) /\ create(q, size) /\ UNCHANGED found
        BY <2>1, <3>4 DEF open_owner
      <4>2. mqd_'[o] = q /\ named' = q /\ max_msg'[q] = size /\ wanted'[o] = size
        BY <2>1, <4>1 DEF open_owner, Open, create, NameTypeOK
      <4>3. o \notin found'
        BY <3>1, <4>1 DEF OwnersInv
      <4> QED
        BY <3>1, <3>4, <4>2, <4>3
    <3> QED
      BY <3>2, <3>3, <3>4
  <2>2. ASSUME NEW o \in Instances, open_attach(o) PROVE OwnerHasNewQueue'
    <3>1. /\ o \notin owner_ /\ UNCHANGED <<named, max_msg, owner_, wanted, found, leftover, shared>>
          /\ \A p \in Instances \ {o} : mqd_'[p] = mqd_[p] /\ state'[p] = state[p]
      BY <2>2 DEF open_attach, Open, kernel, nameHistory, NameTypeOK
    <3> QED
      BY <3>1 DEF NameTypeOK
  <2>3. ASSUME NEW o \in Instances, do_send(o) \/ mq_receive(o) PROVE OwnerHasNewQueue'
    BY <2>3 DEF do_send, mq_receive, objects, nameHistory
  <2>4. ASSUME NEW dying \in SUBSET Instances, Gone(dying), leftover \subseteq leftover',
               UNCHANGED max_msg, named' = named \/ owner_ \subseteq dying
        PROVE  OwnerHasNewQueue'
    <3>1. /\ owner_' = owner_ \ dying /\ found' \subseteq found
          /\ shared' = (shared /\ owner_ \ dying # {})
          /\ \A p \in Instances \ dying : /\ state'[p] = state[p] /\ mqd_'[p] = mqd_[p]
                                        /\ wanted'[p] = wanted[p]
      BY <2>4 DEF Gone
    <3> QED
      BY <2>4, <3>1 DEF NameTypeOK
  <2>5. ASSUME NEW o \in Instances, close(o) PROVE OwnerHasNewQueue'
    <3>1. CASE o \in owner_
      BY <2>5, <3>1 DEF close, kernel, nameHistory, NameTypeOK
    <3>2. CASE o \notin owner_
      BY <2>4, <2>5, <3>2 DEF close, kernel
    <3> QED
      BY <3>1, <3>2
  <2>6. ASSUME NEW o \in Instances, unlink(o) PROVE OwnerHasNewQueue'
    <3>1. o \in owner_ /\ Gone({o}) /\ UNCHANGED <<max_msg, leftover>>
      BY <2>6 DEF unlink, OwnersInv
    <3>2. CASE ~shared
      BY <2>4, <3>1, <3>2 DEF OwnersInv
    <3>3. CASE shared
      BY <3>1, <3>3 DEF Gone
    <3> QED
      BY <3>2, <3>3
  <2>7. ASSUME NEW p \in Processes, crash(p) PROVE OwnerHasNewQueue'
    <3> DEFINE dying == {o \in Instances : In[o] = p /\ state[o] # "none"}
    <3>1. Gone(dying) /\ leftover \subseteq leftover' /\ UNCHANGED <<named, max_msg>>
      BY <2>7 DEF crash, kernel
    <3> QED
      BY <2>4, <3>1
  <2>8. CASE UNCHANGED nameVars
    BY <2>8 DEF nameVars, kernel, objects, nameHistory
  <2> QED
    BY <2>1, <2>2, <2>3, <2>5, <2>6, <2>7, <2>8 DEF NameNext
<1> QED
  BY <1>1, <1>2, NameTypes, Owners, NamesAreRemoved, PTL DEF NameSpec
==============================================================================

----------------------- MODULE SynchronizedDeque_proofs -----------------------
(***************************************************************************)
(* Proofs about SynchronizedDeque, for any set of receivers and any bound. *)
(***************************************************************************)
EXTENDS SynchronizedDeque, SequenceTheorems, TLAPS

(* What appending does to the set of values of a sequence. *)
LEMMA RangeAppend ==
  ASSUME NEW S, NEW s \in Seq(S), NEW e \in S
  PROVE  Range(Append(s, e)) = Range(s) \cup {e}
<1>1. <<e>> \in Seq(S) /\ Append(s, e) = s \o <<e>>
  OBVIOUS
<1>2. Range(<<e>>) = {e}
  BY DEF Range
<1>3. Range(s \o <<e>>) = Range(s) \cup Range(<<e>>)
  BY <1>1, RangeConcatenation
<1> QED
  BY <1>1, <1>2, <1>3

(* What removing the head does to it. *)
LEMMA RangeTail ==
  ASSUME NEW S, NEW s \in Seq(S), s # <<>>
  PROVE  /\ Range(s) = {Head(s)} \cup Range(Tail(s))
         /\ Head(s) \in S
<1> DEFINE h == <<Head(s)>>
           t == Tail(s)
<1>1. Head(s) \in S /\ h \in Seq(S) /\ t \in Seq(S) /\ s = h \o t
  OBVIOUS
<1>2. Range(h) = {Head(s)}
  BY DEF Range
<1>3. Range(h \o t) = Range(h) \cup Range(t)
  <2> HIDE DEF h, t
  <2> QED
    BY <1>1, RangeConcatenation
<1> QED
  BY <1>1, <1>2, <1>3

(* An increasing sequence stays one when something larger is appended. *)
LEMMA IncreasingAppend ==
  ASSUME NEW s \in Seq(Nat), NEW e \in Nat, Increasing(s), \A d \in Range(s) : d < e
  PROVE  Increasing(Append(s, e))
<1> DEFINE t == Append(s, e)
<1>1. /\ DOMAIN t = 1..(Len(s) + 1) /\ DOMAIN s = 1..Len(s) /\ Len(s) \in Nat
      /\ \A i \in 1..Len(s) : t[i] = s[i]
      /\ t[Len(s) + 1] = e
  OBVIOUS
<1> SUFFICES ASSUME NEW i \in DOMAIN t, NEW j \in DOMAIN t, i < j PROVE t[i] < t[j]
  BY DEF Increasing
<1>2. CASE j = Len(s) + 1
  <2>1. i \in DOMAIN s /\ t[i] = s[i]
    BY <1>1, <1>2
  <2> QED
    BY <1>1, <1>2, <2>1 DEF Range
<1>3. CASE j \in 1..Len(s)
  BY <1>1, <1>3 DEF Increasing
<1> QED
  BY <1>1, <1>2, <1>3

(* It stays one without its head, which is below all the rest. *)
LEMMA IncreasingTail ==
  ASSUME NEW s \in Seq(Nat), s # <<>>, Increasing(s)
  PROVE  /\ Increasing(Tail(s))
         /\ \A q \in Range(Tail(s)) : Head(s) < q
<1> DEFINE t == Tail(s)
<1>1. /\ DOMAIN t = 1..(Len(s) - 1) /\ DOMAIN s = 1..Len(s) /\ Len(s) \in Nat \ {0}
      /\ \A i \in 1..(Len(s) - 1) : t[i] = s[i + 1]
      /\ Head(s) = s[1]
  OBVIOUS
<1>2. Increasing(t)
  BY <1>1 DEF Increasing
<1>3. \A i \in DOMAIN t : s[1] < t[i]
  BY <1>1 DEF Increasing
<1> QED
  BY <1>1, <1>2, <1>3 DEF Range

(* The types hold in every reachable state. *)
THEOREM TypeCorrect == Safety => []TypeOK
<1>1. Init => TypeOK
  BY MaxSentAssumption DEF Init, TypeOK, States
<1>2. TypeOK /\ [Next]_vars => TypeOK'
  <2> SUFFICES ASSUME TypeOK, [Next]_vars PROVE TypeOK'
    OBVIOUS
  <2> USE DEF TypeOK, States
  <2>1. CASE send
    BY <2>1, MaxSentAssumption DEF send, NotifyAll
  <2>2. CASE clear
    <3>1. Range(queue) \subseteq 1..sent
      BY DEF Range
    <3>2. queue' \in Seq(1..sent)
      BY <2>2 DEF clear
    <3> QED
      BY <2>2, <3>1, <3>2 DEF clear
  <2>3. ASSUME NEW c \in Receivers, NEW t \in BOOLEAN, receive(c, t) PROVE TypeOK'
    BY <2>3 DEF receive
  <2>4. ASSUME NEW c \in Receivers, get_front(c) PROVE TypeOK'
    BY <2>4 DEF get_front, is_not_empty
  <2>5. ASSUME NEW c \in Receivers, Block(c) \/ GiveUp(c) \/ Spurious(c) \/ Expire(c)
        PROVE TypeOK'
    BY <2>5 DEF Block, GiveUp, Spurious, Expire
  <2>6. CASE UNCHANGED vars
    BY <2>6 DEF vars
  <2> QED
    BY <2>1, <2>2, <2>3, <2>4, <2>5, <2>6 DEF Next, Evaluate
<1> QED
  BY <1>1, <1>2, PTL DEF Safety

(* No receiver ever sleeps beside a message. *)
THEOREM MessagesAreNoticed == Safety => []NoMissedMessage
<1>1. Init => NoMissedMessage
  BY DEF Init, NoMissedMessage, is_not_empty
<1>2. TypeOK /\ NoMissedMessage /\ [Next]_vars => NoMissedMessage'
  <2> SUFFICES ASSUME TypeOK, NoMissedMessage, [Next]_vars PROVE NoMissedMessage'
    OBVIOUS
  <2> USE DEF TypeOK, NoMissedMessage, is_not_empty
  <2>1. CASE send
    BY <2>1 DEF send, NotifyAll
  <2>2. CASE clear
    BY <2>2 DEF clear
  <2>3. ASSUME NEW c \in Receivers, NEW t \in BOOLEAN, receive(c, t) PROVE NoMissedMessage'
    BY <2>3 DEF receive
  <2>4. ASSUME NEW c \in Receivers, get_front(c) PROVE NoMissedMessage'
    BY <2>4 DEF get_front
  <2>5. ASSUME NEW c \in Receivers, Block(c) \/ GiveUp(c) \/ Spurious(c) \/ Expire(c)
        PROVE NoMissedMessage'
    BY <2>5 DEF Block, GiveUp, Spurious, Expire
  <2>6. CASE UNCHANGED vars
    BY <2>6 DEF vars
  <2> QED
    BY <2>1, <2>2, <2>3, <2>4, <2>5, <2>6 DEF Next, Evaluate
<1> QED
  BY <1>1, <1>2, TypeCorrect, PTL DEF Safety

(* What every step is, as far as the messages are concerned. *)
LEMMA Steps ==
  ASSUME [Next]_vars
  PROVE  \/ send
         \/ clear
         \/ \E c \in Receivers : get_front(c)
         \/ UNCHANGED <<queue, sent, delivered, cleared>>
<1> USE DEF Next, Evaluate, vars, receive, Block, GiveUp, Spurious, Expire
<1>1. CASE UNCHANGED vars
  BY <1>1
<1>2. CASE Next
  BY <1>2
<1> QED
  BY <1>1, <1>2

(* Numbers up to sent are below the next stamp. *)
LEMMA Stamps ==
  ASSUME TypeOK
  PROVE  /\ queue \in Seq(Nat) /\ delivered \in Seq(Nat) /\ sent \in Nat
         /\ Range(queue) \subseteq 1..sent /\ Range(delivered) \subseteq 1..sent
<1>1. Range(queue) \subseteq 1..sent /\ Range(delivered) \subseteq 1..sent
  BY DEF TypeOK, Range
<1>2. sent \in Nat
  BY MaxSentAssumption DEF TypeOK
<1>3. queue \in Seq(Nat) /\ delivered \in Seq(Nat)
  BY <1>2 DEF TypeOK
<1> QED
  BY <1>1, <1>2, <1>3

(* Messages leave in the order of the sends and none leaves twice. *)
THEOREM OrderIsKept == Safety => []InOrder
<1>1. Init => InOrder
  BY DEF Init, InOrder, Increasing, Range
<1>2. TypeOK /\ InOrder /\ [Next]_vars => InOrder'
  <2> SUFFICES ASSUME TypeOK, InOrder, [Next]_vars PROVE InOrder'
    OBVIOUS
  <2>1. CASE send
    <3>1. queue' = Append(queue, sent + 1) /\ delivered' = delivered
      BY <2>1 DEF send
    <3>2. Increasing(queue')
      BY <3>1, Stamps, IncreasingAppend DEF InOrder
    <3>3. Range(queue') = Range(queue) \cup {sent + 1}
      BY <3>1, Stamps, RangeAppend
    <3>4. \A d \in Range(delivered) : d < sent + 1
      BY Stamps
    <3> QED
      BY <3>1, <3>2, <3>3, <3>4 DEF InOrder, Increasing, Range
  <2>2. CASE clear
    BY <2>2 DEF clear, InOrder, Increasing, Range
  <2>3. ASSUME NEW c \in Receivers, get_front(c) PROVE InOrder'
    <3> DEFINE m == Head(queue)
    <3>1. queue # <<>> /\ queue' = Tail(queue) /\ delivered' = Append(delivered, m)
      BY <2>3 DEF get_front, is_not_empty
    <3>2. Range(queue) = {m} \cup Range(queue') /\ m \in Nat
      BY <3>1, Stamps, RangeTail
    <3>3. Increasing(queue') /\ \A q \in Range(queue') : m < q
      BY <3>1, Stamps, IncreasingTail DEF InOrder
    <3>4. \A d \in Range(delivered) : d < m
      BY <3>2 DEF InOrder
    <3>5. Increasing(delivered')
      BY <3>1, <3>2, <3>4, Stamps, IncreasingAppend DEF InOrder
    <3>6. Range(delivered') = Range(delivered) \cup {m}
      BY <3>1, <3>2, Stamps, RangeAppend
    <3>7. \A d \in Range(delivered'), q \in Range(queue') : d < q
      BY <3>2, <3>3, <3>6 DEF InOrder
    <3> QED
      BY <3>3, <3>5, <3>7 DEF InOrder, Increasing, Range
  <2>4. CASE UNCHANGED <<queue, sent, delivered, cleared>>
    BY <2>4 DEF InOrder, Increasing, Range
  <2> QED
    BY <2>1, <2>2, <2>3, <2>4, Steps
<1> QED
  BY <1>1, <1>2, TypeCorrect, PTL DEF Safety

(* No message disappears, and none that was dropped is received. *)
THEOREM MessagesAreConserved == Safety => []Conserved
<1>1. Init => Conserved
  BY DEF Init, Conserved, Range
<1>2. TypeOK /\ InOrder /\ Conserved /\ [Next]_vars => Conserved'
  <2> SUFFICES ASSUME TypeOK, InOrder, Conserved, [Next]_vars PROVE Conserved'
    OBVIOUS
  <2> DEFINE Q == Range(queue)
             D == Range(delivered)
  <2>1. /\ Q \subseteq 1..sent /\ D \subseteq 1..sent /\ cleared \subseteq 1..sent
        /\ 1..sent = Q \cup D \cup cleared
        /\ cleared \cap (Q \cup D) = {}
        /\ sent \in Nat
    BY Stamps DEF TypeOK, Conserved
  <2>2. CASE send
    <3>1. /\ queue' = Append(queue, sent + 1) /\ sent' = sent + 1
          /\ delivered' = delivered /\ cleared' = cleared
      BY <2>2 DEF send
    <3>2. Q' = Q \cup {sent + 1}
      <4>1. queue \in Seq(Nat) /\ sent + 1 \in Nat
        BY Stamps
      <4>2. Range(Append(queue, sent + 1)) = Range(queue) \cup {sent + 1}
        BY <4>1, RangeAppend
      <4> QED
        BY <3>1, <4>2
    <3>3. D' = D
      BY <3>1 DEF Range
    <3>4. 1..(sent + 1) = 1..sent \cup {sent + 1} /\ sent + 1 \notin 1..sent
      BY <2>1
    <3>5. /\ 1..sent' = Q' \cup D' \cup cleared'
          /\ cleared' \cap (Q' \cup D') = {}
      <4> HIDE DEF Q, D
      <4> QED
        BY <2>1, <3>1, <3>2, <3>3, <3>4
    <3> QED
      BY <3>5 DEF Conserved
  <2>3. CASE clear
    <3>1. /\ queue' = <<>> /\ sent' = sent /\ delivered' = delivered
          /\ cleared' = cleared \cup Q
      BY <2>3 DEF clear, Range
    <3>2. Q' = {} /\ D' = D
      BY <3>1 DEF Range
    <3>3. Q \cap D = {}
      BY <2>1 DEF InOrder
    <3> QED
      BY <2>1, <3>1, <3>2, <3>3 DEF Conserved
  <2>4. ASSUME NEW c \in Receivers, get_front(c) PROVE Conserved'
    <3> DEFINE m == Head(queue)
    <3>1. /\ queue # <<>> /\ queue' = Tail(queue) /\ delivered' = Append(delivered, m)
          /\ sent' = sent /\ cleared' = cleared
      BY <2>4 DEF get_front, is_not_empty
    <3>2. Q = {m} \cup Q' /\ m \in Nat
      <4>1. queue \in Seq(Nat)
        BY Stamps
      <4>2. Range(queue) = {Head(queue)} \cup Range(Tail(queue)) /\ Head(queue) \in Nat
        BY <3>1, <4>1, RangeTail
      <4> QED
        BY <3>1, <4>2
    <3>3. D' = D \cup {m}
      <4>1. delivered \in Seq(Nat)
        BY Stamps
      <4>2. Range(Append(delivered, m)) = Range(delivered) \cup {m}
        BY <3>2, <4>1, RangeAppend
      <4> QED
        BY <3>1, <4>2
    <3> QED
      BY <2>1, <3>1, <3>2, <3>3 DEF Conserved
  <2>5. CASE UNCHANGED <<queue, sent, delivered, cleared>>
    BY <2>5 DEF Conserved, Range
  <2> QED
    BY <2>2, <2>3, <2>4, <2>5, Steps
<1> QED
  BY <1>1, <1>2, TypeCorrect, OrderIsKept, PTL DEF Safety

(* The deque behaves as the interface promises: every step of it is one of *)
(* FifoQueue or leaves FifoQueue's state alone.                            *)
THEOREM Implementation == Safety => Abstract!Safety
<1> DEFINE inside == {c \in Receivers : pc[c] # "out"}
<1>1. Init => Abstract!Init
  BY DEF Init, Abstract!Init
<1>2. TypeOK /\ [Next]_vars => [Abstract!Next]_(Abstract!vars)
  <2> SUFFICES ASSUME TypeOK, [Next]_vars
               PROVE  Abstract!Next \/ UNCHANGED <<queue, sent, delivered, inside>>
    BY DEF Abstract!vars
  <2> USE DEF TypeOK, States, is_not_empty
  <2>1. CASE send
    <3>1. inside' = inside
      BY <2>1 DEF send, NotifyAll
    <3> QED
      BY <2>1, <3>1 DEF send, Abstract!Next, Abstract!Send
  <2>2. CASE clear
    <3> DEFINE n == Len(queue)
    <3>1. n \in Nat \ {0}
      BY <2>2 DEF clear
    <3>2. SubSeq(queue, n + 1, n) = <<>>
      BY <3>1
    <3>3. n \in 1..n /\ queue' = SubSeq(queue, n + 1, n)
      BY <2>2, <3>1, <3>2 DEF clear
    <3> QED
      BY <2>2, <3>3 DEF clear, Abstract!Next, Abstract!Clear
  <2>3. ASSUME NEW c \in Receivers, NEW t \in BOOLEAN, receive(c, t)
        PROVE  Abstract!Call(c)
    BY <2>3 DEF receive, Abstract!Call
  <2>4. ASSUME NEW c \in Receivers, get_front(c)
        PROVE  Abstract!Deliver(c)
    BY <2>4 DEF get_front, Abstract!Deliver
  <2>5. ASSUME NEW c \in Receivers, GiveUp(c)
        PROVE  Abstract!GiveUp(c)
    BY <2>5 DEF GiveUp, Abstract!GiveUp
  <2>6. ASSUME NEW c \in Receivers, Block(c) \/ Spurious(c) \/ Expire(c)
        PROVE  UNCHANGED <<queue, sent, delivered, inside>>
    BY <2>6 DEF Block, Spurious, Expire
  <2>7. CASE UNCHANGED vars
    BY <2>7 DEF vars
  <2> QED
    BY <2>1, <2>2, <2>3, <2>4, <2>5, <2>6, <2>7 DEF Next, Evaluate, Abstract!Next
<1> QED
  BY <1>1, <1>2, TypeCorrect, PTL DEF Safety, Abstract!Safety
==============================================================================

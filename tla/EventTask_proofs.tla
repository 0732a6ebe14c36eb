--------------------------- MODULE EventTask_proofs ---------------------------
(***************************************************************************)
(* Proofs about EventTask, for any finite set of clients, any commands and *)
(* any bound.                                                              *)
(***************************************************************************)
EXTENDS EventTask, FiniteSetTheorems, SequenceTheorems, TLAPS

LEMMA RoomType == Room \in Nat
  BY ClientsAssumption, MaxCallsAssumption, FS_CardinalityType DEF Room

(* Every step, with the posting calls under one head. *)
Posting ==
  \/ \E command \in Commands : send_event(command)
  \/ \E c \in Clients :
       \/ start(c)
       \/ \E command \in Commands, forever \in BOOLEAN : rpc_event(c, command, forever)
       \/ post_stop(c)

(* What posting does: to the queue, and to the client if it waits. *)
Posted(m, p) ==
  /\ m \in Messages
  /\ p \in {"none", "pending"}
  /\ sent < Room
  /\ sent' = sent + 1
  /\ queue' = Append(queue, sent + 1)
  /\ posted' = Append(posted, m)
  /\ response' = Append(response, p)
  /\ UNCHANGED <<delivered, waiting, thread, stopped, content, handled>>

Entered(c, m, p) ==
  /\ p = "pending"
  /\ pc[c] \in {"out", "stopping"}
  /\ pc' = [pc EXCEPT ![c] = "waiting"]
  /\ \E method \in {"start", "stop", "rpc"}, forever \in BOOLEAN :
       /\ method = "stop" => is_kStop(m)
       /\ call' = [call EXCEPT ![c] =
                     [method |-> method, stamp |-> sent + 1, forever |-> forever]]

LEMMA PostingStep ==
  ASSUME Posting
  PROVE  \E m \in Messages, p \in {"none", "pending"} :
           /\ Posted(m, p)
           /\ \/ UNCHANGED <<pc, call>>
              \/ \E c \in Clients : Entered(c, m, p)
<1> DEFINE Goal(m, p) ==
             /\ m \in Messages /\ p \in {"none", "pending"}
             /\ Posted(m, p)
             /\ UNCHANGED <<pc, call>> \/ \E c \in Clients : Entered(c, m, p)
<1>1. ASSUME NEW command \in Commands, send_event(command)
      PROVE  Goal([attribute |-> "external", command |-> command], "none")
  BY <1>1 DEF send_event, Post, MessageQueue!Send, Messages, Attributes, threadVars, Posted
<1>2. ASSUME NEW c \in Clients, start(c)
      PROVE  Goal([attribute |-> "internal", command |-> kStart], "pending")
  BY <1>2 DEF start, PostAndWait, Entered,
              Post, MessageQueue!Send, Messages, Attributes, threadVars, Posted
<1>3. ASSUME NEW c \in Clients, NEW command \in Commands, NEW forever \in BOOLEAN,
             rpc_event(c, command, forever)
      PROVE  Goal([attribute |-> "external", command |-> command], "pending")
  BY <1>3 DEF rpc_event, PostAndWait, Entered,
              Post, MessageQueue!Send, Messages, Attributes, threadVars, Posted
<1>4. ASSUME NEW c \in Clients, post_stop(c)
      PROVE  Goal([attribute |-> "internal", command |-> kStop], "pending")
  BY <1>4 DEF post_stop, PostAndWait, Entered, is_kStop,
              Post, MessageQueue!Send, Messages, Attributes, threadVars, Posted
<1> HIDE DEF Goal
<1>5. \E m, p : Goal(m, p)
  BY <1>1, <1>2, <1>3, <1>4 DEF Posting
<1> QED
  BY <1>5 DEF Goal

LEMMA StepCases ==
  ASSUME [Next]_vars
  PROVE  \/ Posting
         \/ enter_receive
         \/ receive
         \/ \E answer \in Answers : process(answer)
         \/ finish
         \/ \E c \in Clients : stop(c) \/ wait_for_response(c) \/ timeout(c) \/ join(c)
         \/ UNCHANGED vars
  BY DEF Next, main_loop, Continue, Posting

(* The types hold in every reachable state. *)
THEOREM TypeCorrect == Safety => []TypeOK
<1>1. Init => TypeOK
  <2> SUFFICES ASSUME Init PROVE TypeOK
    OBVIOUS
  <2>1. /\ queue = <<>> /\ delivered = <<>> /\ posted = <<>> /\ response = <<>>
        /\ handled = <<>> /\ sent = 0 /\ waiting = {} /\ content = 0
    BY DEF Init, MessageQueue!Init
  <2>2. /\ Len(<<>>) = 0 /\ <<>> \in Seq(1..sent) /\ <<>> \in Seq(Messages)
        /\ <<>> \in Seq(Answers \cup {"none", "pending"})
    OBVIOUS
  <2>3. NoCall \in Calls
    BY RoomType DEF NoCall, Calls
  <2>4. /\ thread = "running" /\ stopped = FALSE
        /\ pc \in [Clients -> {"out", "stopping", "waiting", "joining"}]
        /\ call \in [Clients -> Calls]
    BY <2>3 DEF Init
  <2> QED
    <3>1. /\ queue \in Seq(1..sent) /\ delivered \in Seq(1..sent) /\ handled \in Seq(1..sent)
          /\ posted \in Seq(Messages) /\ response \in Seq(Answers \cup {"none", "pending"})
      BY <2>1, <2>2
    <3>2. Len(posted) = sent /\ Len(response) = sent
      BY <2>1, <2>2
    <3>3. sent \in 0..Room /\ content \in 0..sent
      BY <2>1, RoomType
    <3>4. waiting \subseteq {Main} /\ stopped \in BOOLEAN
      BY <2>1, <2>4
    <3> QED
      BY <2>4, <3>1, <3>2, <3>3, <3>4 DEF TypeOK
<1>2. TypeOK /\ [Next]_vars => TypeOK'
  <2> SUFFICES ASSUME TypeOK, [Next]_vars PROVE TypeOK'
    OBVIOUS
  <2> USE RoomType DEF TypeOK
  <2>1. CASE Posting
    <3>1. PICK m \in Messages, p \in {"none", "pending"} :
            /\ Posted(m, p)
            /\ \/ UNCHANGED <<pc, call>>
               \/ \E c \in Clients : Entered(c, m, p)
      BY <2>1, PostingStep
    <3>2. /\ sent' \in 0..Room /\ queue' \in Seq(1..sent') /\ delivered' \in Seq(1..sent')
          /\ handled' \in Seq(1..sent') /\ content' \in 0..sent'
          /\ UNCHANGED <<waiting, thread, stopped>>
      BY <3>1 DEF Posted
    <3>4. /\ posted' \in Seq(Messages) /\ Len(posted') = sent'
          /\ response' \in Seq(Answers \cup {"none", "pending"}) /\ Len(response') = sent'
      BY <3>1 DEF Posted
    <3>3. /\ pc' \in [Clients -> {"out", "stopping", "waiting", "joining"}]
          /\ call' \in [Clients -> Calls]
      <4>1. CASE UNCHANGED <<pc, call>>
        BY <4>1
      <4>2. ASSUME NEW c \in Clients, Entered(c, m, p)
            PROVE  /\ pc' \in [Clients -> {"out", "stopping", "waiting", "joining"}]
                   /\ call' \in [Clients -> Calls]
        <5>1. PICK method \in {"start", "stop", "rpc"}, forever \in BOOLEAN :
                call' = [call EXCEPT ![c] =
                           [method |-> method, stamp |-> sent + 1, forever |-> forever]]
          BY <4>2 DEF Entered
        <5>2. sent + 1 \in 0..Room
          BY <3>1 DEF Posted
        <5>3. [method |-> method, stamp |-> sent + 1, forever |-> forever] \in Calls
          BY <5>2 DEF Calls
        <5> QED
          BY <4>2, <5>1, <5>3 DEF Entered
      <4> QED
        BY <3>1, <4>1, <4>2
    <3> QED
      BY <3>2, <3>3, <3>4
  <2>2. CASE enter_receive
    BY <2>2 DEF enter_receive, MessageQueue!Call, threadVars
  <2>3. CASE receive
    <3>1. /\ queue # <<>> /\ queue' = Tail(queue) /\ delivered' = Append(delivered, Head(queue))
          /\ content' = Head(queue) /\ waiting' = waiting \ {Main}
          /\ UNCHANGED <<sent, posted, response, thread, stopped, handled, pc, call>>
      BY <2>3 DEF receive, MessageQueue!Deliver
    <3>2. Head(queue) \in 1..sent
      BY <3>1
    <3> QED
      BY <3>1, <3>2
  <2>4. ASSUME NEW answer \in Answers, process(answer) PROVE TypeOK'
    <3>2. content \in 1..sent
      BY <2>4 DEF process
    <3>1. response' \in Seq(Answers \cup {"none", "pending"}) /\ Len(response') = sent'
      <4>1. [response EXCEPT ![content] = answer] \in Seq(Answers \cup {"none", "pending"})
            /\ Len([response EXCEPT ![content] = answer]) = sent
        BY <3>2, ExceptSeq
      <4> QED
        BY <2>4, <4>1 DEF process, Respond, queueVars
    <3> QED
      BY <2>4, <3>1, <3>2 DEF process, queueVars, is_kStop
  <2>5. CASE finish
    BY <2>5 DEF finish, queueVars
  <2>6. ASSUME NEW c \in Clients, stop(c) \/ wait_for_response(c) \/ timeout(c) \/ join(c)
        PROVE  TypeOK'
    <3>1. NoCall \in Calls
      BY DEF NoCall, Calls
    <3> QED
      BY <2>6, <3>1 DEF stop, wait_for_response, timeout, join, queueVars, threadVars
  <2>7. CASE UNCHANGED vars
    BY <2>7 DEF vars, queueVars, threadVars
  <2> QED
    BY <2>1, <2>2, <2>3, <2>4, <2>5, <2>6, <2>7, StepCases
<1> QED
  BY <1>1, <1>2, PTL DEF Safety

-----------------------------------------------------------------------------
(* The main loop waits for a message only while it runs and holds none. *)
LoopInv == Main \in waiting => thread = "running" /\ ~stopped /\ content = 0

LEMMA LoopCorrect == Safety => []LoopInv
<1>1. Init => LoopInv
  BY DEF Init, MessageQueue!Init, LoopInv
<1>2. TypeOK /\ LoopInv /\ [Next]_vars => LoopInv'
  <2> SUFFICES ASSUME TypeOK, LoopInv, [Next]_vars PROVE LoopInv'
    OBVIOUS
  <2> USE DEF LoopInv
  <2>1. CASE Posting
    BY <2>1, PostingStep DEF Posted
  <2>2. CASE enter_receive
    BY <2>2 DEF enter_receive, MessageQueue!Call, threadVars
  <2>3. CASE receive
    BY <2>3 DEF receive, MessageQueue!Deliver
  <2>4. ASSUME NEW answer \in Answers, process(answer) PROVE LoopInv'
    BY <2>4 DEF process, queueVars
  <2>5. CASE finish
    BY <2>5 DEF finish, queueVars
  <2>6. ASSUME NEW c \in Clients, stop(c) \/ wait_for_response(c) \/ timeout(c) \/ join(c)
        PROVE  LoopInv'
    BY <2>6 DEF stop, wait_for_response, timeout, join, queueVars, threadVars
  <2>7. CASE UNCHANGED vars
    BY <2>7 DEF vars, queueVars, threadVars
  <2> QED
    BY <2>1, <2>2, <2>3, <2>4, <2>5, <2>6, <2>7, StepCases
<1> QED
  BY <1>1, <1>2, TypeCorrect, PTL DEF Safety

(* Messages are processed in the order of the sends, each once. *)
THEOREM ProcessedInOrder == Safety => []InOrder
<1>1. Init => InOrder
  BY DEF Init, MessageQueue!Init, InOrder
<1>2. TypeOK /\ LoopInv /\ InOrder /\ [Next]_vars => InOrder'
  <2> SUFFICES ASSUME TypeOK, LoopInv, InOrder, [Next]_vars PROVE InOrder'
    OBVIOUS
  <2>0. /\ sent \in Nat /\ queue \in Seq(1..sent) /\ handled \in Seq(1..sent)
        /\ Len(queue) \in Nat /\ Len(handled) \in Nat /\ content \in Nat
    BY RoomType DEF TypeOK
  <2>n. sent \in Nat /\ Len(queue) \in Nat /\ Len(handled) \in Nat /\ content \in Nat
    BY <2>0
  <2> DEFINE held == IF content = 0 THEN 0 ELSE 1
  <2>1. CASE Posting
    <3>1. /\ sent' = sent + 1 /\ queue' = Append(queue, sent + 1)
          /\ handled' = handled /\ content' = content
      BY <2>1, PostingStep DEF Posted
    <3>2. /\ Len(queue') = Len(queue) + 1 /\ queue'[Len(queue) + 1] = sent + 1
          /\ \A i \in 1..Len(queue) : queue'[i] = queue[i]
          /\ DOMAIN queue = 1..Len(queue) /\ DOMAIN queue' = 1..(Len(queue) + 1)
      BY <2>0, <3>1
    <3>3. held \in Nat /\ held' = held
      BY <3>1
    <3>4. \A i \in 1..Len(queue) : queue[i] = Len(handled) + held + i
      BY <3>2 DEF InOrder
    <3>5. sent = Len(handled) + held + Len(queue)
      BY DEF InOrder
    <3>6. \A i \in DOMAIN queue' : queue'[i] = Len(handled) + held + i
      BY <2>n, <3>2, <3>3, <3>4, <3>5
    <3>7. sent' = Len(handled) + held + Len(queue')
      <4>1. sent' = sent + 1 /\ Len(queue') = Len(queue) + 1
        BY <3>1, <3>2
      <4>2. held \in Nat
        BY <3>3
      <4> HIDE DEF held
      <4> QED
        BY <2>n, <3>5, <4>1, <4>2
    <3> QED
      BY <3>1, <3>6, <3>7 DEF InOrder
  <2>2. CASE receive
    <3>1. /\ queue # <<>> /\ queue' = Tail(queue) /\ content' = Head(queue)
          /\ sent' = sent /\ handled' = handled /\ content = 0
      BY <2>2 DEF receive, MessageQueue!Deliver, LoopInv
    <3>2. /\ Len(queue') = Len(queue) - 1 /\ Len(queue) > 0 /\ content' = queue[1]
          /\ \A i \in 1..(Len(queue) - 1) : queue'[i] = queue[i + 1]
          /\ DOMAIN queue = 1..Len(queue) /\ DOMAIN queue' = 1..(Len(queue) - 1)
      BY <2>0, <3>1
    <3>3. /\ \A i \in 1..Len(queue) : queue[i] = Len(handled) + i
          /\ sent = Len(handled) + Len(queue)
      BY <2>n, <3>1, <3>2 DEF InOrder
    <3>4. content' = Len(handled) + 1 /\ content' # 0
      BY <2>n, <3>2, <3>3
    <3>5. \A i \in DOMAIN queue' : queue'[i] = Len(handled) + 1 + i
      BY <2>n, <3>2, <3>3
    <3>6. sent = Len(handled) + 1 + Len(queue')
      BY <2>n, <3>2, <3>3
    <3> QED
      BY <3>1, <3>4, <3>5, <3>6 DEF InOrder
  <2>3. ASSUME NEW answer \in Answers, process(answer) PROVE InOrder'
    <3>1. /\ content # 0 /\ handled' = Append(handled, content) /\ content' = 0
          /\ UNCHANGED <<queue, sent>>
      BY <2>3 DEF process, queueVars
    <3>2. /\ Len(handled') = Len(handled) + 1 /\ handled'[Len(handled) + 1] = content
          /\ \A i \in 1..Len(handled) : handled'[i] = handled[i]
          /\ DOMAIN handled = 1..Len(handled) /\ DOMAIN handled' = 1..(Len(handled) + 1)
      BY <2>0, <3>1
    <3> QED
      BY <2>0, <3>1, <3>2 DEF InOrder
  <2>4. CASE UNCHANGED <<queue, sent, handled, content>>
    BY <2>4 DEF InOrder
  <2>5. CASE enter_receive \/ finish
    BY <2>4, <2>5 DEF enter_receive, finish, MessageQueue!Call, threadVars, queueVars
  <2>6. ASSUME NEW c \in Clients, stop(c) \/ wait_for_response(c) \/ timeout(c) \/ join(c)
        PROVE  InOrder'
    BY <2>4, <2>6 DEF stop, wait_for_response, timeout, join, queueVars, threadVars
  <2>7. CASE UNCHANGED vars
    BY <2>4, <2>7 DEF vars, queueVars, threadVars
  <2> QED
    BY <2>1, <2>2, <2>3, <2>5, <2>6, <2>7, StepCases
<1> QED
  BY <1>1, <1>2, TypeCorrect, LoopCorrect, PTL DEF Safety

(* The kStop that ends the loop is the last message processed, and only an *)
(* internal one ends it.                                                   *)
THEOREM StopEndsTheLoop == Safety => []StopIsLast
<1>1. Init => StopIsLast
  BY DEF Init, StopIsLast
<1>2. TypeOK /\ LoopInv /\ StopIsLast /\ [Next]_vars => StopIsLast'
  <2> SUFFICES ASSUME TypeOK, LoopInv, StopIsLast, [Next]_vars PROVE StopIsLast'
    OBVIOUS
  <2>0. /\ sent \in Nat /\ handled \in Seq(1..sent) /\ posted \in Seq(Messages)
        /\ Len(posted) = sent /\ Len(handled) \in Nat /\ content \in 0..sent
        /\ \A i \in 1..Len(handled) : handled[i] \in 1..sent
        /\ stopped \in BOOLEAN
    BY RoomType DEF TypeOK
  <2>1. CASE Posting
    <3>1. PICK m \in Messages :
            /\ posted' = Append(posted, m)
            /\ UNCHANGED <<handled, content, stopped, thread>>
      BY <2>1, PostingStep DEF Posted
    <3>2. \A n \in 1..sent : posted'[n] = posted[n]
      BY <2>0, <3>1
    <3>3. \A i \in 1..Len(handled) : posted'[handled'[i]] = posted[handled[i]]
      BY <2>0, <3>1, <3>2
    <3>4. handled # <<>> => Len(handled) \in 1..Len(handled)
      BY <2>0
    <3> QED
      BY <2>0, <3>1, <3>3, <3>4 DEF StopIsLast, is_kStop
  <2>2. CASE receive
    BY <2>2 DEF receive, MessageQueue!Deliver, LoopInv, StopIsLast
  <2>3. ASSUME NEW answer \in Answers, process(answer) PROVE StopIsLast'
    <3>1. /\ content # 0 /\ handled' = Append(handled, content) /\ content' = 0
          /\ stopped' = (stopped \/ is_kStop(posted[content]))
          /\ UNCHANGED <<posted, thread>>
      BY <2>3 DEF process, queueVars
    <3>2. /\ Len(handled') = Len(handled) + 1 /\ handled'[Len(handled) + 1] = content
          /\ \A i \in 1..Len(handled) : handled'[i] = handled[i]
          /\ handled' # <<>>
      BY <2>0, <3>1
    <3>3. ~stopped
      BY <3>1 DEF StopIsLast
    <3>4. \A i \in 1..Len(handled) : ~is_kStop(posted[handled[i]])
      <4> SUFFICES ASSUME NEW i \in 1..Len(handled) PROVE ~is_kStop(posted[handled[i]])
        OBVIOUS
      <4>1. handled # <<>>
        BY <2>0
      <4>2. i = Len(handled) \/ i \in 1..(Len(handled) - 1)
        BY <2>0
      <4> QED
        BY <3>3, <4>1, <4>2 DEF StopIsLast
    <3>5. \A i \in 1..(Len(handled') - 1) : ~is_kStop(posted[handled'[i]])
      BY <2>0, <3>2, <3>4
    <3>6. stopped' <=> is_kStop(posted[handled'[Len(handled')]])
      BY <3>1, <3>2, <3>3
    <3>7. thread # "running" => stopped'
      BY <3>3 DEF StopIsLast
    <3> QED
      BY <3>1, <3>2, <3>5, <3>6, <3>7 DEF StopIsLast, is_kStop
  <2>4. CASE UNCHANGED <<posted, handled, content, stopped, thread>>
    BY <2>4 DEF StopIsLast, is_kStop
  <2>5. CASE enter_receive
    BY <2>4, <2>5 DEF enter_receive, threadVars
  <2>6. CASE finish
    BY <2>6 DEF finish, StopIsLast, is_kStop
  <2>7. ASSUME NEW c \in Clients, stop(c) \/ wait_for_response(c) \/ timeout(c)
        PROVE  StopIsLast'
    BY <2>4, <2>7 DEF stop, wait_for_response, timeout, threadVars
  <2>8. ASSUME NEW c \in Clients, join(c) PROVE StopIsLast'
    BY <2>8 DEF join, StopIsLast, is_kStop
  <2>9. CASE UNCHANGED vars
    BY <2>4, <2>9 DEF vars, threadVars
  <2> QED
    BY <2>1, <2>2, <2>3, <2>5, <2>6, <2>7, <2>8, <2>9, StepCases
<1> QED
  BY <1>1, <1>2, TypeCorrect, LoopCorrect, PTL DEF Safety

-----------------------------------------------------------------------------
(* What makes the clients' properties inductive: each client inside a call *)
(* has a message of its own, a settled promise belongs to a processed      *)
(* message, and after the join nobody is left with the message that ended  *)
(* the loop.                                                               *)
Inside(c) == pc[c] \in {"waiting", "joining"}

OwnMessage ==
  /\ \A c \in Clients : Inside(c) =>
       /\ call[c].stamp \in 1..sent
       /\ call[c].method = "stop" => is_kStop(posted[call[c].stamp])
  /\ \A c, d \in Clients :
       Inside(c) /\ Inside(d) /\ c # d => call[c].stamp # call[d].stamp

Settled ==
  \A n \in 1..sent : response[n] \in Answers =>
    n \in 1..Len(handled) /\ response[n] \in Outcomes(posted[n])

Joining ==
  \A c \in Clients : pc[c] = "joining" =>
    call[c].method = "stop" /\ response[call[c].stamp] = "true"

AfterJoin ==
  thread = "joined" => \A c \in Clients : Inside(c) => call[c].stamp # Len(handled)

ClientInv == OwnMessage /\ Settled /\ Joining /\ AfterJoin

(* Facts about lengths that the steps below share. *)
LEMMA Lengths ==
  ASSUME TypeOK, InOrder
  PROVE  /\ sent \in Nat /\ Len(handled) \in 0..sent
         /\ \A n \in 1..Len(handled) : handled[n] = n
         /\ content # 0 => content = Len(handled) + 1
         /\ posted \in Seq(Messages) /\ Len(posted) = sent
         /\ response \in Seq(Answers \cup {"none", "pending"}) /\ Len(response) = sent
<1>1. sent \in Nat /\ Len(handled) \in Nat /\ Len(queue) \in Nat
      /\ DOMAIN handled = 1..Len(handled)
  BY RoomType DEF TypeOK
<1>2. Len(handled) \in 0..sent
  BY <1>1 DEF InOrder
<1> QED
  BY <1>1, <1>2 DEF TypeOK, InOrder

(* A client that joins waited for the message that ended the loop. *)
LEMMA JoiningStamp ==
  ASSUME TypeOK, InOrder, StopIsLast, ClientInv, NEW c \in Clients, pc[c] = "joining"
  PROVE  call[c].stamp = Len(handled) /\ stopped
<1> DEFINE n == call[c].stamp
<1>1. n \in 1..sent /\ is_kStop(posted[n]) /\ response[n] = "true"
  BY DEF ClientInv, OwnMessage, Joining, Inside
<1>2. n \in 1..Len(handled)
  BY <1>1 DEF ClientInv, Settled, Answers
<1>3. handled[n] = n /\ Len(handled) \in Nat
  BY <1>2, Lengths
<1>4. n \notin 1..(Len(handled) - 1)
  BY <1>1, <1>3 DEF StopIsLast
<1>5. n = Len(handled)
  BY <1>2, <1>3, <1>4
<1>6. handled # <<>>
  BY <1>2
<1> QED
  BY <1>1, <1>3, <1>5, <1>6 DEF StopIsLast

LEMMA ClientsCorrect == Safety => []ClientInv
<1>1. Init => ClientInv
  BY DEF Init, MessageQueue!Init, ClientInv, OwnMessage, Settled, Joining, AfterJoin, Inside
<1>2. TypeOK /\ InOrder /\ StopIsLast /\ ClientInv /\ [Next]_vars => ClientInv'
  <2> SUFFICES ASSUME TypeOK, InOrder, StopIsLast, ClientInv, [Next]_vars PROVE ClientInv'
    OBVIOUS
  <2>0. /\ sent \in Nat /\ Len(handled) \in 0..sent
        /\ pc \in [Clients -> {"out", "stopping", "waiting", "joining"}]
        /\ call \in [Clients -> Calls]
    BY Lengths DEF TypeOK
  <2> USE DEF ClientInv
  <2>1. CASE Posting
    <3>1. PICK m \in Messages, p \in {"none", "pending"} :
            /\ Posted(m, p)
            /\ \/ UNCHANGED <<pc, call>>
               \/ \E c \in Clients : Entered(c, m, p)
      BY <2>1, PostingStep
    <3>2. /\ sent' = sent + 1 /\ UNCHANGED <<handled, thread>>
          /\ \A n \in 1..sent : posted'[n] = posted[n] /\ response'[n] = response[n]
          /\ posted'[sent + 1] = m /\ response'[sent + 1] = p
      BY <3>1, Lengths DEF Posted
    <3>3. Settled'
      <4> SUFFICES ASSUME NEW n \in 1..(sent + 1), response'[n] \in Answers
                   PROVE  n \in 1..Len(handled) /\ response'[n] \in Outcomes(posted'[n])
        BY <3>2 DEF Settled, Outcomes, is_kStop
      <4>1. n \in 1..sent
        BY <2>0, <3>2 DEF Answers
      <4> QED
        BY <3>2, <4>1 DEF Settled
    <3>4. CASE UNCHANGED <<pc, call>>
      <4>1. OwnMessage'
        BY <2>0, <3>2, <3>4 DEF OwnMessage, Inside, is_kStop
      <4>2. Joining' /\ AfterJoin'
        BY <2>0, <3>2, <3>4 DEF OwnMessage, Joining, AfterJoin, Inside
      <4> QED
        BY <3>3, <4>1, <4>2
    <3>5. ASSUME NEW c \in Clients, Entered(c, m, p) PROVE ClientInv'
      <4>1. /\ pc'[c] = "waiting" /\ call'[c].stamp = sent + 1
            /\ call'[c].method = "stop" => is_kStop(m)
            /\ \A d \in Clients \ {c} : pc'[d] = pc[d] /\ call'[d] = call[d]
        BY <2>0, <3>5 DEF Entered
      <4>2. \A d \in Clients \ {c} : Inside(d) => call[d].stamp \in 1..sent
        BY DEF OwnMessage
      <4>3. \A d \in Clients : Inside(d)' =>
              /\ call'[d].stamp \in 1..(sent + 1)
              /\ call'[d].method = "stop" => is_kStop(posted'[call'[d].stamp])
        <5> SUFFICES ASSUME NEW d \in Clients, Inside(d)'
                     PROVE  /\ call'[d].stamp \in 1..(sent + 1)
                            /\ call'[d].method = "stop" => is_kStop(posted'[call'[d].stamp])
          OBVIOUS
        <5>1. CASE d = c
          BY <2>0, <3>2, <4>1, <5>1
        <5>2. CASE d # c
          BY <2>0, <3>2, <4>1, <4>2, <5>2 DEF OwnMessage, Inside
        <5> QED
          BY <5>1, <5>2
      <4>4. \A d, e \in Clients :
              Inside(d)' /\ Inside(e)' /\ d # e => call'[d].stamp # call'[e].stamp
        BY <2>0, <4>1, <4>2 DEF OwnMessage, Inside
      <4>5. OwnMessage'
        BY <3>2, <4>3, <4>4 DEF OwnMessage, is_kStop
      <4>6. Joining'
        BY <3>2, <4>1, <4>2 DEF Joining, Inside
      <4>7. AfterJoin'
        BY <2>0, <3>2, <4>1 DEF AfterJoin, Inside
      <4> QED
        BY <3>3, <4>5, <4>6, <4>7
    <3> QED
      BY <3>1, <3>4, <3>5
  <2>2. CASE UNCHANGED <<sent, posted, response, thread, handled, pc, call>>
    BY <2>2 DEF OwnMessage, Settled, Joining, AfterJoin, Inside, is_kStop, Outcomes
  <2>3. CASE enter_receive
    BY <2>2, <2>3 DEF enter_receive, MessageQueue!Call, threadVars
  <2>4. CASE receive
    BY <2>2, <2>4 DEF receive, MessageQueue!Deliver
  <2>5. ASSUME NEW answer \in Answers, process(answer) PROVE ClientInv'
    <3>1. /\ content # 0 /\ answer \in Outcomes(posted[content]) /\ Respond(content, answer)
          /\ handled' = Append(handled, content)
          /\ UNCHANGED <<sent, posted, thread, pc, call>>
      BY <2>5 DEF process, queueVars
    <3>2. content = Len(handled) + 1 /\ content \in 1..sent /\ Len(handled') = Len(handled) + 1
      BY <2>0, <3>1, Lengths DEF TypeOK
    <3>3. \A n \in 1..sent :
            \/ response'[n] = response[n]
            \/ n = content /\ response'[n] = answer
      <4>1. CASE response[content] = "none"
        BY <3>1, <4>1 DEF Respond
      <4>2. CASE response' = [response EXCEPT ![content] = answer]
        BY <4>2, <3>2, Lengths, ExceptSeq
      <4> QED
        BY <3>1, <4>1, <4>2 DEF Respond
    <3>4. Settled'
      <4> SUFFICES ASSUME NEW n \in 1..sent, response'[n] \in Answers
                   PROVE  n \in 1..(Len(handled) + 1) /\ response'[n] \in Outcomes(posted[n])
        BY <3>1, <3>2 DEF Settled, Outcomes, is_kStop
      <4>1. CASE n = content /\ response'[n] = answer
        BY <2>0, <3>1, <3>2, <4>1
      <4>2. CASE response'[n] = response[n]
        BY <2>0, <4>2 DEF Settled
      <4> QED
        BY <3>3, <4>1, <4>2
    <3>5. OwnMessage'
      BY <3>1 DEF OwnMessage, Inside, is_kStop
    <3>6. Joining'
      <4> SUFFICES ASSUME NEW c \in Clients, pc[c] = "joining"
                   PROVE  call[c].method = "stop" /\ response'[call[c].stamp] = "true"
        BY <3>1 DEF Joining
      <4>1. call[c].stamp = Len(handled) /\ call[c].stamp \in 1..sent
        BY JoiningStamp DEF OwnMessage, Inside
      <4> QED
        BY <2>0, <3>2, <3>3, <4>1 DEF Joining
    <3>7. AfterJoin'
      BY <3>1 DEF AfterJoin, StopIsLast
    <3> QED
      BY <3>4, <3>5, <3>6, <3>7
  <2>6. CASE finish
    BY <2>6 DEF finish, queueVars, OwnMessage, Settled, Joining, AfterJoin, Inside, is_kStop,
                Outcomes
  <2>7. ASSUME NEW c \in Clients, stop(c) \/ timeout(c) PROVE ClientInv'
    <3>1. /\ pc'[c] \in {"out", "stopping"}
          /\ \A d \in Clients \ {c} : pc'[d] = pc[d] /\ call'[d] = call[d]
          /\ UNCHANGED <<sent, posted, response, thread, handled>>
      BY <2>0, <2>7 DEF stop, timeout, queueVars, threadVars
    <3>2. \A d \in Clients : Inside(d)' => Inside(d) /\ call'[d] = call[d]
      BY <3>1 DEF Inside
    <3>3. Settled'
      BY <3>1 DEF Settled, Outcomes, is_kStop
    <3>4. OwnMessage'
      BY <3>1, <3>2 DEF OwnMessage, is_kStop
    <3>5. Joining'
      BY <3>1 DEF Joining
    <3>6. AfterJoin'
      BY <3>1, <3>2 DEF AfterJoin
    <3> QED
      BY <3>3, <3>4, <3>5, <3>6
  <2>8. ASSUME NEW c \in Clients, wait_for_response(c) PROVE ClientInv'
    <3>1. /\ pc[c] = "waiting"
          /\ UNCHANGED <<sent, posted, response, thread, handled>>
          /\ \A d \in Clients \ {c} : pc'[d] = pc[d] /\ call'[d] = call[d]
          /\ \/ pc'[c] = "out"
             \/ /\ pc'[c] = "joining" /\ call' = call
                /\ call[c].method = "stop" /\ response[call[c].stamp] = "true"
      BY <2>0, <2>8 DEF wait_for_response, queueVars, threadVars
    <3>2. \A d \in Clients : Inside(d)' => Inside(d) /\ call'[d] = call[d]
      BY <3>1 DEF Inside
    <3>3. Settled'
      BY <3>1 DEF Settled, Outcomes, is_kStop
    <3>4. OwnMessage'
      BY <3>1, <3>2 DEF OwnMessage, is_kStop
    <3>5. Joining'
      BY <3>1 DEF Joining
    <3>6. AfterJoin'
      BY <3>1, <3>2 DEF AfterJoin
    <3> QED
      BY <3>3, <3>4, <3>5, <3>6
  <2>9. ASSUME NEW c \in Clients, join(c) PROVE ClientInv'
    <3>1. /\ pc[c] = "joining" /\ pc'[c] = "out"
          /\ UNCHANGED <<sent, posted, response, handled>>
          /\ \A d \in Clients \ {c} : pc'[d] = pc[d] /\ call'[d] = call[d]
      BY <2>0, <2>9 DEF join, queueVars
    <3>2. \A d \in Clients : Inside(d)' => Inside(d) /\ call'[d] = call[d]
      BY <3>1 DEF Inside
    <3>3. Settled'
      BY <3>1 DEF Settled, Outcomes, is_kStop
    <3>4. OwnMessage'
      BY <3>1, <3>2 DEF OwnMessage, is_kStop
    <3>5. Joining'
      BY <3>1 DEF Joining
    <3>6. AfterJoin'
      <4> SUFFICES ASSUME NEW d \in Clients, Inside(d)' PROVE call'[d].stamp # Len(handled)
        BY <3>1 DEF AfterJoin
      <4>1. d # c /\ Inside(d) /\ call'[d] = call[d]
        BY <3>1 DEF Inside
      <4>2. call[c].stamp = Len(handled)
        BY <3>1, JoiningStamp
      <4> QED
        BY <3>1, <4>1, <4>2 DEF OwnMessage, Inside
    <3> QED
      BY <3>3, <3>4, <3>5, <3>6
  <2>10. CASE UNCHANGED vars
    BY <2>2, <2>10 DEF vars, queueVars, threadVars
  <2> QED
    BY <2>1, <2>3, <2>4, <2>5, <2>6, <2>7, <2>8, <2>9, <2>10, StepCases
<1> QED
  BY <1>1, <1>2, TypeCorrect, ProcessedInOrder, StopEndsTheLoop, PTL DEF Safety

(* However many clients stop the task, one of them joins it, once. *)
THEOREM OneJoin == Safety => []JoinedOnce
<1>1. TypeOK /\ InOrder /\ StopIsLast /\ ClientInv => JoinedOnce
  <2> SUFFICES ASSUME TypeOK, InOrder, StopIsLast, ClientInv,
                      NEW c \in Clients, pc[c] = "joining"
               PROVE  /\ stopped
                      /\ thread # "joined"
                      /\ \A d \in Clients : pc[d] = "joining" => c = d
    BY DEF JoinedOnce
  <2>1. call[c].stamp = Len(handled) /\ stopped
    BY JoiningStamp
  <2>2. \A d \in Clients : pc[d] = "joining" => call[d].stamp = Len(handled)
    BY JoiningStamp
  <2>3. \A d \in Clients : pc[d] = "joining" => c = d
    BY <2>1, <2>2 DEF ClientInv, OwnMessage, Inside
  <2>4. thread # "joined"
    BY <2>1 DEF ClientInv, AfterJoin, Inside
  <2> QED
    BY <2>1, <2>3, <2>4
<1> QED
  BY <1>1, TypeCorrect, ProcessedInOrder, StopEndsTheLoop, ClientsCorrect, PTL

(* A promise is settled by the processing of its own message only, and two *)
(* waiting clients wait for two messages.                                  *)
THEOREM OwnAnswers == Safety => []AnswersMatch
<1>1. TypeOK /\ InOrder /\ ClientInv => AnswersMatch
  <2> SUFFICES ASSUME TypeOK, InOrder, ClientInv PROVE AnswersMatch
    OBVIOUS
  <2>1. ASSUME NEW n \in 1..sent, response[n] \in Answers
        PROVE  /\ \E i \in DOMAIN handled : handled[i] = n
               /\ response[n] \in Outcomes(posted[n])
    <3>1. n \in 1..Len(handled) /\ response[n] \in Outcomes(posted[n])
      BY <2>1 DEF ClientInv, Settled
    <3>2. n \in DOMAIN handled
      BY <3>1 DEF TypeOK
    <3> QED
      BY <3>1, <3>2 DEF InOrder
  <2> QED
    BY <2>1 DEF AnswersMatch, ClientInv, OwnMessage, Inside
<1> QED
  BY <1>1, TypeCorrect, ProcessedInOrder, ClientsCorrect, PTL

(* A call queued behind a kStop is never answered. *)
THEOREM NoAnswerBehindStop == Safety => BehindStopNeverAnswered
<1> DEFINE Kept == \A n \in 1..sent :
             (\E k \in 1..(n - 1) : is_kStop(posted[k])) => response'[n] = response[n]
<1>1. TypeOK /\ InOrder /\ StopIsLast /\ [Next]_vars => [Kept]_vars
  <2> SUFFICES ASSUME TypeOK, InOrder, StopIsLast, [Next]_vars PROVE Kept
    OBVIOUS
  <2>1. CASE Posting
    BY <2>1, PostingStep, Lengths DEF Posted
  <2>2. ASSUME NEW answer \in Answers, process(answer) PROVE Kept
    <3> SUFFICES ASSUME NEW n \in 1..sent, NEW k \in 1..(n - 1), is_kStop(posted[k])
                 PROVE  response'[n] = response[n]
      OBVIOUS
    <3>1. content # 0 /\ Respond(content, answer) /\ ~stopped
      BY <2>2 DEF process, StopIsLast
    <3>2. content = Len(handled) + 1 /\ Len(handled) \in Nat /\ sent \in Nat /\ content \in 1..sent
      BY <3>1, Lengths DEF TypeOK
    <3>3. n # content
      <4> SUFFICES ASSUME n = content PROVE FALSE
        OBVIOUS
      <4>1. k \in 1..Len(handled)
        BY <3>2
      <4>2. handled[k] = k /\ handled # <<>>
        BY <4>1, Lengths
      <4>3. k = Len(handled) \/ k \in 1..(Len(handled) - 1)
        BY <3>2, <4>1
      <4> QED
        BY <3>1, <4>2, <4>3 DEF StopIsLast
    <3>4. CASE response[content] = "none"
      BY <3>1, <3>4 DEF Respond
    <3>5. CASE response' = [response EXCEPT ![content] = answer]
      BY <3>2, <3>3, <3>5, Lengths, ExceptSeq
    <3> QED
      BY <3>1, <3>4, <3>5 DEF Respond
  <2>3. CASE UNCHANGED response
    BY <2>3
  <2> QED
    BY <2>1, <2>2, <2>3, StepCases
       DEF enter_receive, receive, finish, stop, wait_for_response, timeout, join, vars
<1> QED
  BY <1>1, TypeCorrect, ProcessedInOrder, StopEndsTheLoop, PTL DEF Safety, BehindStopNeverAnswered

(* No message is processed without its answer. *)
Answered == \A n \in 1..Len(handled) : response[n] # "pending"

(* A client that still waits for an answer waits for a message that the    *)
(* queue or the main loop holds; unless it was sent behind a kStop, the    *)
(* loop has not ended.                                                     *)
StillToCome ==
  \A c \in Clients : pc[c] = "waiting" /\ Pending(c) =>
    /\ call[c].stamp = content \/ \E i \in DOMAIN queue : queue[i] = call[c].stamp
    /\ BeforeStop(c) => ~stopped

(* Processing settles the promise, whichever way it ends. *)
LEMMA AnswersAreGiven == Safety => []Answered
<1>1. Init => Answered
  BY DEF Init, Answered
<1>2. TypeOK /\ InOrder /\ Answered /\ [Next]_vars => Answered'
  <2> SUFFICES ASSUME TypeOK, InOrder, Answered, [Next]_vars PROVE Answered'
    OBVIOUS
  <2>0. sent \in Nat /\ Len(handled) \in 0..sent
    BY Lengths
  <2>1. CASE Posting
    <3>1. PICK m \in Messages, p \in {"none", "pending"} : Posted(m, p)
      BY <2>1, PostingStep
    <3>2. handled' = handled /\ \A n \in 1..sent : response'[n] = response[n]
      BY <3>1, Lengths DEF Posted
    <3> QED
      BY <2>0, <3>2 DEF Answered
  <2>2. ASSUME NEW answer \in Answers, process(answer) PROVE Answered'
    <3>1. /\ content = Len(handled) + 1 /\ content \in 1..sent
          /\ Respond(content, answer) /\ handled' = Append(handled, content)
      BY <2>0, <2>2, Lengths DEF process, TypeOK
    <3>2. Len(handled') = Len(handled) + 1
      BY <3>1 DEF TypeOK
    <3>3. \A n \in 1..sent : response'[n] = response[n] \/ (n = content /\ response'[n] = answer)
      BY <3>1, Lengths, ExceptSeq DEF Respond
    <3>4. response'[content] # "pending"
      BY <3>1, Lengths, ExceptSeq DEF Respond, Answers
    <3> QED
      BY <2>0, <3>1, <3>2, <3>3, <3>4 DEF Answered
  <2>3. CASE UNCHANGED <<response, handled>>
    BY <2>3 DEF Answered
  <2> QED
    BY <2>1, <2>2, <2>3, StepCases
       DEF enter_receive, receive, finish, stop, wait_for_response, timeout, join, vars, threadVars
<1> QED
  BY <1>1, <1>2, TypeCorrect, ProcessedInOrder, PTL DEF Safety

(* Nobody waits for an answer that was missed, nor for a loop that ended   *)
(* before it came to the call, unless the call was behind a kStop.         *)
THEOREM NoAnswerIsMissed == Safety => []StillToCome
<1>1. TypeOK /\ InOrder /\ StopIsLast /\ ClientInv /\ Answered => StillToCome
  <2> SUFFICES ASSUME TypeOK, InOrder, StopIsLast, ClientInv, Answered,
                      NEW c \in Clients, pc[c] = "waiting", Pending(c)
               PROVE  /\ \/ call[c].stamp = content
                         \/ \E i \in DOMAIN queue : queue[i] = call[c].stamp
                      /\ BeforeStop(c) => ~stopped
    BY DEF StillToCome
  <2> DEFINE n == call[c].stamp
  <2>1. n \in 1..sent /\ n \notin 1..Len(handled)
    BY DEF ClientInv, OwnMessage, Inside, Pending, Answered
  <2>2. /\ sent \in Nat /\ Len(handled) \in 0..sent /\ Len(queue) \in Nat
        /\ DOMAIN queue = 1..Len(queue)
        /\ content # 0 => content = Len(handled) + 1
    BY Lengths DEF TypeOK
  <2>3. CASE content # 0 /\ n # content
    <3>1. n - content \in 1..Len(queue) /\ queue[n - content] = n
      BY <2>1, <2>2, <2>3 DEF InOrder
    <3> QED
      BY <2>2, <2>3, <3>1 DEF StopIsLast
  <2>4. CASE content = 0
    <3>1. n - Len(handled) \in 1..Len(queue) /\ queue[n - Len(handled)] = n
      BY <2>1, <2>2, <2>4 DEF InOrder
    <3>2. ASSUME BeforeStop(c), stopped PROVE FALSE
      <4>1. handled # <<>> /\ is_kStop(posted[handled[Len(handled)]])
        BY <3>2 DEF StopIsLast
      <4>2. Len(handled) \in 1..Len(handled)
        BY <2>2, <4>1 DEF TypeOK
      <4>3. handled[Len(handled)] = Len(handled) /\ Len(handled) \in 1..(n - 1)
        BY <2>1, <2>2, <4>2, Lengths
      <4> QED
        BY <3>2, <4>1, <4>3 DEF BeforeStop
    <3> QED
      BY <2>2, <3>1, <3>2
  <2>5. CASE n = content
    BY <2>1, <2>5 DEF StopIsLast
  <2> QED
    BY <2>3, <2>4, <2>5
<1> QED
  BY <1>1, TypeCorrect, ProcessedInOrder, StopEndsTheLoop, ClientsCorrect, AnswersAreGiven, PTL
==============================================================================

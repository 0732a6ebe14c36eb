---------------------------- MODULE TaskPool_proofs ----------------------------
(***************************************************************************)
(* Proofs about TaskPool, for any finite set of workers and any bounds.    *)
(***************************************************************************)
EXTENDS TaskPool, SequenceTheorems, TLAPS

(* What appending does to the set of values of a sequence. *)
LEMMA RangeAppend ==
  ASSUME NEW S, NEW s \in Seq(S), NEW e \in S
  PROVE  Range(Append(s, e)) = Range(s) \cup {e}
<1>1. <<e>> \in Seq(S) /\ Append(s, e) = s \o <<e>>
  OBVIOUS
<1>2. Range(<<e>>) = {e}
  BY DEF Range
<1>3. Range(s \o <<e>>) = Range(s) \cup Range(<<e>>)
  BY <1>1, RangeConcatenation
<1> QED
  BY <1>1, <1>2, <1>3

(* What removing the head does to it. *)
LEMMA RangeTail ==
  ASSUME NEW S, NEW s \in Seq(S), s # <<>>
  PROVE  /\ Range(s) = {Head(s)} \cup Range(Tail(s))
         /\ Head(s) \in S
<1> DEFINE h == <<Head(s)>>
           t == Tail(s)
<1>1. Head(s) \in S /\ h \in Seq(S) /\ t \in Seq(S) /\ s = h \o t
  OBVIOUS
<1>2. Range(h) = {Head(s)}
  BY DEF Range
<1>3. Range(h \o t) = Range(h) \cup Range(t)
  <2> HIDE DEF h, t
  <2> QED
    BY <1>1, RangeConcatenation
<1> QED
  BY <1>1, <1>2, <1>3

(* A worker holds a task between wait_for_new_task() and the end of the    *)
(* task, and inside a task it holds one that is not empty.                 *)
HandInv ==
  \A w \in Workers :
    /\ pc[w] = "running" => task[w] # NoTask
    /\ pc[w] \notin {"holding", "running"} => task[w] = NoTask

(* The types hold in every reachable state, and so does HandInv. *)
LEMMA Types == Safety => [](TypeOK /\ HandInv)
<1> USE DEF NoTask
<1>1. Init => TypeOK /\ HandInv
  <2> SUFFICES ASSUME Init PROVE TypeOK /\ HandInv
    OBVIOUS
  <2>1. tasks \in Seq(0..sent)
    BY DEF Init
  <2>2. sent \in 0..MaxTasks /\ empties \in 0..MaxEmpty /\ task \in [Workers -> 0..sent]
    BY MaxTasksAssumption, MaxEmptyAssumption DEF Init
  <2> QED
    BY <2>1, <2>2 DEF Init, TypeOK, HandInv, WorkerStates
<1>2. TypeOK /\ HandInv /\ [Next]_vars => TypeOK' /\ HandInv'
  <2> SUFFICES ASSUME TypeOK, HandInv, [Next]_vars PROVE TypeOK' /\ HandInv'
    OBVIOUS
  <2> USE DEF TypeOK, HandInv, WorkerStates
  <2>1. ASSUME NEW inside \in BOOLEAN, enqueue(inside) PROVE TypeOK' /\ HandInv'
    BY <2>1, MaxTasksAssumption DEF enqueue, NotifyAll
  <2>2. CASE enqueue_empty
    BY <2>2, MaxEmptyAssumption DEF enqueue_empty, NotifyAll
  <2>3. CASE clear_waiting_tasks
    <3>1. Range(tasks) \subseteq 0..sent
      BY DEF Range
    <3>2. Range(tasks) \ {NoTask} \subseteq 1..sent
      BY <3>1
    <3>3. cleared' = cleared \cup (Range(tasks) \ {NoTask}) /\ tasks' = <<>>
      BY <2>3 DEF clear_waiting_tasks
    <3>4. cleared' \subseteq 1..sent
      BY <3>2, <3>3
    <3>5. tasks' \in Seq(0..sent)
      BY <3>3
    <3> QED
      BY <2>3, <3>4, <3>5 DEF clear_waiting_tasks, workerVars
  <2>4. CASE stop_store
    BY <2>4 DEF stop_store, workerVars, history
  <2>5. CASE stop_notify
    BY <2>5 DEF stop_notify, NotifyAll, history
  <2>6. CASE stop_join
    BY <2>6 DEF stop_join, workerVars, history
  <2>7. ASSUME NEW w \in Workers, Decide(w) \/ Block(w) \/ Spurious(w)
        PROVE TypeOK' /\ HandInv'
    BY <2>7 DEF Decide, Block, Spurious, history
  <2>8. ASSUME NEW w \in Workers, wait_for_new_task(w) PROVE TypeOK' /\ HandInv'
    <3>1. tasks # <<>> => Head(tasks) \in 0..sent /\ Tail(tasks) \in Seq(0..sent)
      OBVIOUS
    <3> QED
      BY <2>8, <3>1 DEF wait_for_new_task, history
  <2>9. ASSUME NEW w \in Workers, dispatch(w) PROVE TypeOK' /\ HandInv'
    <3>1. Dispatch(w) \in {"exited", "ready", "running"}
      BY DEF Dispatch
    <3>2. /\ pc' = [pc EXCEPT ![w] = Dispatch(w)]
          /\ UNCHANGED <<tasks, stop_, task, stopper, sent, empties, executed, cleared, owed>>
      BY <2>9 DEF dispatch, history
    <3>3. Dispatch(w) = "running" <=> task[w] # NoTask
      BY DEF Dispatch
    <3>4. pc' \in [Workers -> WorkerStates]
      BY <3>1, <3>2
    <3> QED
      BY <3>2, <3>3, <3>4
  <2>10. ASSUME NEW w \in Workers, finish(w) PROVE TypeOK' /\ HandInv'
    <3>1. task[w] \in 1..sent
      BY <2>10 DEF finish
    <3>2. executed' \subseteq 1..sent
      BY <2>10, <3>1 DEF finish
    <3>3. task' \in [Workers -> 0..sent] /\ pc' \in [Workers -> WorkerStates]
      BY <2>10 DEF finish
    <3>4. HandInv'
      BY <2>10 DEF finish
    <3> QED
      BY <2>10, <3>2, <3>3, <3>4 DEF finish
  <2>11. CASE UNCHANGED vars
    BY <2>11 DEF vars, workerVars, history
  <2> QED
    BY <2>1, <2>2, <2>3, <2>4, <2>5, <2>6, <2>7, <2>8, <2>9, <2>10, <2>11 DEF Next, Work
<1> QED
  BY <1>1, <1>2, PTL DEF Safety

(* The types hold in every reachable state. *)
THEOREM TypeCorrect == Safety => []TypeOK
  BY Types, PTL

(* No worker sleeps, or is about to, beside a waiting task: enqueue()      *)
(* holds the mutex, which a worker that decides to sleep holds, too.       *)
THEOREM TasksAreNoticed == Safety => []NoSleeperBesideTask
<1>1. Init => NoSleeperBesideTask
  BY DEF Init, NoSleeperBesideTask
<1>2. TypeOK /\ NoSleeperBesideTask /\ [Next]_vars => NoSleeperBesideTask'
  <2> SUFFICES ASSUME TypeOK, NoSleeperBesideTask, [Next]_vars PROVE NoSleeperBesideTask'
    OBVIOUS
  <2> USE DEF TypeOK, NoSleeperBesideTask, WorkerStates
  <2>1. ASSUME NEW inside \in BOOLEAN, enqueue(inside) PROVE NoSleeperBesideTask'
    BY <2>1 DEF enqueue, NotifyAll, Unlocked
  <2>2. CASE enqueue_empty
    BY <2>2 DEF enqueue_empty, NotifyAll, Unlocked
  <2>3. CASE clear_waiting_tasks
    BY <2>3 DEF clear_waiting_tasks
  <2>4. CASE stop_store \/ stop_join
    BY <2>4 DEF stop_store, stop_join, workerVars
  <2>5. CASE stop_notify
    BY <2>5 DEF stop_notify, NotifyAll
  <2>6. ASSUME NEW w \in Workers, Decide(w) \/ Block(w) \/ Spurious(w)
        PROVE NoSleeperBesideTask'
    BY <2>6 DEF Decide, Block, Spurious, Wanted
  <2>7. ASSUME NEW w \in Workers, wait_for_new_task(w) PROVE NoSleeperBesideTask'
    <3>1. tasks' # <<>> => tasks # <<>>
      BY <2>7 DEF wait_for_new_task
    <3> QED
      BY <2>7, <3>1 DEF wait_for_new_task
  <2>8. ASSUME NEW w \in Workers, dispatch(w) \/ finish(w) PROVE NoSleeperBesideTask'
    BY <2>8 DEF dispatch, Dispatch, finish
  <2>9. CASE UNCHANGED vars
    BY <2>9 DEF vars, workerVars
  <2> QED
    BY <2>1, <2>2, <2>3, <2>4, <2>5, <2>6, <2>7, <2>8, <2>9 DEF Next, Work
<1> QED
  BY <1>1, <1>2, TypeCorrect, PTL DEF Safety

(* The deque holds no task twice. *)
Distinct(s) ==
  \A i, j \in DOMAIN s : i < j => s[i] # s[j] \/ s[i] = NoTask

LEMMA DistinctAppend ==
  ASSUME NEW s \in Seq(Nat), NEW e \in Nat, Distinct(s), e \notin Range(s) \/ e = NoTask
  PROVE  Distinct(Append(s, e))
<1> DEFINE t == Append(s, e)
<1>1. /\ DOMAIN t = 1..(Len(s) + 1) /\ DOMAIN s = 1..Len(s) /\ Len(s) \in Nat
      /\ \A i \in 1..Len(s) : t[i] = s[i]
      /\ t[Len(s) + 1] = e
  OBVIOUS
<1> SUFFICES ASSUME NEW i \in DOMAIN t, NEW j \in DOMAIN t, i < j
             PROVE  t[i] # t[j] \/ t[i] = NoTask
  BY DEF Distinct
<1>2. CASE j = Len(s) + 1
  <2>1. i \in DOMAIN s /\ t[i] = s[i]
    BY <1>1, <1>2
  <2>2. t[i] \in Range(s)
    BY <2>1 DEF Range
  <2> QED
    BY <1>1, <1>2, <2>2
<1>3. CASE j \in 1..Len(s)
  BY <1>1, <1>3 DEF Distinct
<1> QED
  BY <1>1, <1>2, <1>3

LEMMA DistinctTail ==
  ASSUME NEW s \in Seq(Nat), s # <<>>, Distinct(s)
  PROVE  /\ Distinct(Tail(s))
         /\ Head(s) \notin Range(Tail(s)) \/ Head(s) = NoTask
<1> DEFINE t == Tail(s)
<1>1. /\ DOMAIN t = 1..(Len(s) - 1) /\ DOMAIN s = 1..Len(s) /\ Len(s) \in Nat \ {0}
      /\ \A i \in 1..(Len(s) - 1) : t[i] = s[i + 1]
      /\ Head(s) = s[1]
  OBVIOUS
<1>2. Distinct(t)
  BY <1>1 DEF Distinct
<1>3. \A i \in DOMAIN t : s[1] # t[i] \/ s[1] = NoTask
  BY <1>1 DEF Distinct
<1> QED
  BY <1>1, <1>2, <1>3 DEF Range

(* What a worker's change of task does to InHand, when no two workers hold *)
(* the same one.                                                           *)
LEMMA HandChanges ==
  ASSUME NEW w \in Workers, NEW n \in Nat, TypeOK,
         task' = [task EXCEPT ![w] = n],
         \A v \in Workers : task[v] = task[w] => v = w \/ task[v] = NoTask
  PROVE  InHand' = ((InHand \ {task[w]}) \cup {n}) \ {NoTask}
<1>1. /\ task' \in [Workers -> Nat] /\ task'[w] = n
      /\ \A v \in Workers \ {w} : task'[v] = task[v]
  BY DEF TypeOK
<1>2. InHand' \subseteq ((InHand \ {task[w]}) \cup {n}) \ {NoTask}
  BY <1>1 DEF InHand
<1>3. ASSUME NEW m \in InHand, m # task[w] PROVE m \in InHand'
  <2>1. PICK v \in Workers : m = task[v] /\ m # NoTask
    BY DEF InHand
  <2>2. v # w
    BY <1>3, <2>1
  <2> QED
    BY <1>1, <2>1, <2>2 DEF InHand
<1>4. n # NoTask => n \in InHand'
  BY <1>1 DEF InHand
<1> QED
  BY <1>2, <1>3, <1>4

(* Every task is waiting, in one worker's hands, executed or cleared, and  *)
(* in one of these places only.                                            *)
THEOREM TasksHaveOnePlace == Safety => []OnePlace
<1> DEFINE T == Range(tasks)
<1> DEFINE Exclusive ==
             \A v, w \in Workers : task[v] = task[w] => v = w \/ task[v] = NoTask
<1>1. Init => OnePlace
  <2> SUFFICES ASSUME Init PROVE OnePlace
    OBVIOUS
  <2>1. T = {} /\ Distinct(tasks)
    BY DEF Init, Range, Distinct
  <2>2. InHand = {} /\ Exclusive
    BY DEF Init, InHand
  <2>3. 1..sent = {} /\ executed = {} /\ cleared = {}
    BY DEF Init
  <2> QED
    BY <2>1, <2>2, <2>3 DEF OnePlace, Distinct
<1>2. TypeOK /\ HandInv /\ OnePlace /\ [Next]_vars => OnePlace'
  <2> SUFFICES ASSUME TypeOK, HandInv, OnePlace, [Next]_vars PROVE OnePlace'
    OBVIOUS
  <2>1. /\ 1..sent = (T \ {NoTask}) \cup InHand \cup executed \cup cleared
        /\ InHand \cap (T \cup executed \cup cleared) = {}
        /\ T \cap (executed \cup cleared) = {}
        /\ executed \cap cleared = {}
        /\ Distinct(tasks)
        /\ Exclusive
    BY DEF OnePlace, Distinct
  <2>2. /\ T \subseteq 0..sent /\ InHand \subseteq 1..sent /\ sent \in Nat
        /\ executed \subseteq 1..sent /\ cleared \subseteq 1..sent
        /\ tasks \in Seq(Nat)
    <3>1. tasks \in Seq(0..sent) /\ sent \in Nat
      BY MaxTasksAssumption DEF TypeOK
    <3>2. T \subseteq 0..sent /\ tasks \in Seq(Nat)
      BY <3>1 DEF Range
    <3>3. InHand \subseteq 1..sent
      BY <3>1 DEF TypeOK, InHand, NoTask
    <3> QED
      BY <3>1, <3>2, <3>3 DEF TypeOK
  <2> DEFINE Goal ==
        /\ (1..sent)' = (T' \ {NoTask}) \cup InHand' \cup executed' \cup cleared'
        /\ InHand' \cap (T' \cup executed' \cup cleared') = {}
        /\ T' \cap (executed' \cup cleared') = {}
        /\ executed' \cap cleared' = {}
        /\ Distinct(tasks)'
        /\ Exclusive'
  <2>3. Goal => OnePlace'
    BY DEF OnePlace, Distinct
  <2>4. ASSUME NEW inside \in BOOLEAN, enqueue(inside) PROVE Goal
    <3>1. /\ sent' = sent + 1 /\ tasks' = Append(tasks, sent + 1)
          /\ UNCHANGED <<task, executed, cleared>>
      BY <2>4 DEF enqueue
    <3>2. T' = T \cup {sent + 1}
      BY <2>2, <3>1, RangeAppend
    <3>3. Distinct(tasks)'
      <4>1. sent + 1 \in Nat /\ sent + 1 \notin T
        BY <2>2
      <4> QED
        BY <2>1, <2>2, <3>1, <4>1, DistinctAppend
    <3>4. InHand' = InHand /\ Exclusive'
      BY <2>1, <3>1 DEF InHand
    <3>5. 1..(sent + 1) = 1..sent \cup {sent + 1} /\ sent + 1 \notin 0..sent /\ sent + 1 # NoTask
      BY <2>2 DEF NoTask
    <3>6. (1..sent)' = 1..sent \cup {sent + 1}
      BY <3>1, <3>5
    <3>7. sent + 1 \notin T \cup InHand \cup executed \cup cleared
      BY <2>2, <3>5
    <3> QED
      BY <2>1, <3>1, <3>2, <3>3, <3>4, <3>5, <3>6, <3>7
  <2>5. CASE enqueue_empty
    <3>1. /\ tasks' = Append(tasks, NoTask) /\ UNCHANGED <<task, sent, executed, cleared>>
      BY <2>5 DEF enqueue_empty
    <3>2. NoTask \in Nat /\ NoTask \notin 1..sent
      BY <2>2 DEF NoTask
    <3>3. T' = T \cup {NoTask}
      BY <2>2, <3>1, <3>2, RangeAppend
    <3>4. Distinct(tasks)'
      BY <2>1, <2>2, <3>1, <3>2, DistinctAppend
    <3>5. InHand' = InHand /\ Exclusive'
      BY <2>1, <3>1 DEF InHand
    <3>6. NoTask \notin InHand \cup executed \cup cleared /\ (1..sent)' = 1..sent
      BY <2>2, <3>1, <3>2
    <3> HIDE DEF T, Exclusive
    <3> QED
      BY <2>1, <2>3, <3>1, <3>3, <3>4, <3>5, <3>6
  <2>6. CASE clear_waiting_tasks
    <3>1. /\ tasks' = <<>> /\ cleared' = cleared \cup (T \ {NoTask})
          /\ UNCHANGED <<task, sent, executed>>
      BY <2>6 DEF clear_waiting_tasks, workerVars
    <3>2. T' = {} /\ Distinct(tasks)'
      BY <3>1 DEF Range, Distinct
    <3>3. InHand' = InHand /\ Exclusive' /\ (1..sent)' = 1..sent
      BY <2>1, <3>1 DEF InHand
    <3> HIDE DEF T, Exclusive
    <3> QED
      BY <2>1, <2>3, <3>1, <3>2, <3>3
  <2>7. ASSUME NEW w \in Workers, wait_for_new_task(w) PROVE Goal
    <3>1. /\ UNCHANGED <<sent, executed, cleared>> /\ task[w] = NoTask
          /\ (1..sent)' = 1..sent
      BY <2>7 DEF wait_for_new_task, history, HandInv
    <3>2. CASE tasks = <<>>
      <4>1. tasks' = tasks /\ task' = [task EXCEPT ![w] = NoTask]
        BY <2>7, <3>2 DEF wait_for_new_task
      <4>2. task' = task
        BY <3>1, <4>1 DEF TypeOK
      <4>3. T' = T /\ Distinct(tasks)' /\ InHand' = InHand /\ Exclusive'
        BY <2>1, <4>1, <4>2 DEF InHand
      <4> QED
        BY <2>1, <3>1, <4>3
    <3>3. CASE tasks # <<>>
      <4> DEFINE h == Head(tasks)
      <4>1. tasks' = Tail(tasks) /\ task' = [task EXCEPT ![w] = h]
        BY <2>7, <3>3 DEF wait_for_new_task
      <4>2. T = {h} \cup T' /\ h \in Nat
        BY <2>2, <3>3, <4>1, RangeTail
      <4>3. Distinct(tasks)' /\ (h \notin T' \/ h = NoTask)
        BY <2>1, <2>2, <3>3, <4>1, DistinctTail
      <4>4. InHand' = (InHand \cup {h}) \ {NoTask}
        <5>1. InHand' = ((InHand \ {task[w]}) \cup {h}) \ {NoTask}
          BY <2>1, <4>1, <4>2, HandChanges
        <5> QED
          BY <3>1, <5>1
      <4>5. Exclusive'
        <5>1. \A v \in Workers : task[v] = h => h = NoTask
          BY <2>1, <4>2 DEF InHand
        <5>2. /\ task'[w] = h
              /\ \A v \in Workers \ {w} : task'[v] = task[v]
          BY <4>1 DEF TypeOK
        <5> QED
          BY <2>1, <5>1, <5>2
      <4>6. NoTask \notin InHand
        BY DEF InHand
      <4>7. h \in T
        BY <4>2
      <4> HIDE DEF h, T, Exclusive
      <4> QED
        BY <2>1, <3>1, <4>2, <4>3, <4>4, <4>5, <4>6, <4>7
    <3> QED
      BY <3>2, <3>3
  <2>8. ASSUME NEW w \in Workers, finish(w) PROVE Goal
    <3> DEFINE m == task[w]
    <3>1. /\ UNCHANGED <<tasks, sent, cleared>> /\ executed' = executed \cup {m}
          /\ task' = [task EXCEPT ![w] = NoTask] /\ m # NoTask
          /\ (1..sent)' = 1..sent
      BY <2>8 DEF finish, HandInv
    <3>2. T' = T /\ Distinct(tasks)'
      BY <2>1, <3>1
    <3>3. InHand' = InHand \ {m}
      <4>1. NoTask \in Nat /\ NoTask \notin InHand
        BY DEF NoTask, InHand
      <4>2. InHand' = ((InHand \ {task[w]}) \cup {NoTask}) \ {NoTask}
        BY <2>1, <3>1, <4>1, HandChanges
      <4> QED
        BY <4>1, <4>2
    <3>4. m \in InHand
      BY <3>1 DEF InHand
    <3>5. Exclusive'
      <4>1. /\ task'[w] = NoTask
            /\ \A v \in Workers \ {w} : task'[v] = task[v]
        BY <3>1 DEF TypeOK
      <4> QED
        BY <2>1, <4>1
    <3> HIDE DEF m, T, Exclusive
    <3> QED
      BY <2>1, <3>1, <3>2, <3>3, <3>4, <3>5
  <2>9. CASE UNCHANGED <<tasks, task, sent, executed, cleared>>
    <3>1. T' = T /\ InHand' = InHand /\ Distinct(tasks)' /\ Exclusive'
      BY <2>1, <2>9 DEF InHand
    <3>2. UNCHANGED <<sent, executed, cleared>> /\ (1..sent)' = 1..sent
      BY <2>9
    <3> HIDE DEF T, Exclusive
    <3> QED
      BY <2>1, <2>3, <3>1, <3>2
  <2>10. \/ \E inside \in BOOLEAN : enqueue(inside)
         \/ enqueue_empty
         \/ clear_waiting_tasks
         \/ \E w \in Workers : wait_for_new_task(w) \/ finish(w)
         \/ UNCHANGED <<tasks, task, sent, executed, cleared>>
    BY DEF Next, Work, vars, workerVars, history, stop_store, stop_notify, stop_join,
           Decide, Block, Spurious, dispatch
  <2> QED
    BY <2>3, <2>4, <2>5, <2>6, <2>7, <2>8, <2>9, <2>10
<1> QED
  BY <1>1, <1>2, Types, PTL DEF Safety

(* A worker that will look at the deque again, or will see that it holds a *)
(* task, before it can end.                                                *)
Live(w) ==
  \/ pc[w] \in {"ready", "running"}
  \/ pc[w] = "holding" /\ task[w] # NoTask

(* Why stop() drains the pool: a worker ends only on an empty deque, so a  *)
(* task that is owed always has a worker that will come back for it.       *)
StopInv ==
  /\ stopper = "returned" => \A w \in Workers : pc[w] = "exited"
  /\ \A w \in Workers : pc[w] = "exited" => stop_
  /\ empties = 0 =>
       /\ NoTask \notin Range(tasks)
       /\ \A w \in Workers : pc[w] = "holding" /\ task[w] = NoTask => stop_
       /\ owed \cap Range(tasks) # {} => \E w \in Workers : Live(w)

(* A step that takes no worker's liveness away and adds nothing owed to    *)
(* the deque keeps the last part of StopInv.                               *)
LEMMA StillLive ==
  ASSUME StopInv, empties = 0,
         owed' \cap Range(tasks)' \subseteq owed \cap Range(tasks),
         \A w \in Workers : Live(w) => Live(w)'
  PROVE  owed' \cap Range(tasks)' # {} => \E w \in Workers : Live(w)'
BY DEF StopInv

(* enqueue() keeps StopInv: before stop() every worker is live once it is  *)
(* notified, and a task that enqueues is itself in a live worker.          *)
LEMMA EnqueueKeepsStopInv ==
  ASSUME TypeOK, HandInv, StopInv, NEW inside \in BOOLEAN, enqueue(inside)
  PROVE  StopInv'
<1>1. /\ Unlocked /\ sent' = sent + 1 /\ tasks' = Append(tasks, sent + 1)
      /\ inside => \E w \in Workers : pc[w] = "running"
      /\ pc' = [w \in Workers |-> IF pc[w] = "blocked" THEN "ready" ELSE pc[w]]
      /\ owed' = IF inside \/ ~stop_ THEN owed \cup {sent + 1} ELSE owed
      /\ stop_' = stop_ /\ task' = task /\ stopper' = stopper /\ empties' = empties
  BY DEF enqueue, NotifyAll
<1>2. Range(tasks)' = Range(tasks) \cup {sent + 1} /\ sent + 1 # NoTask
      /\ sent + 1 \notin owed
  <2>1. tasks \in Seq(0..sent) /\ sent \in Nat /\ sent + 1 \in Nat
    BY MaxTasksAssumption DEF TypeOK
  <2>2. Range(tasks)' = Range(tasks) \cup {sent + 1}
    <3>1. tasks \in Seq(Nat) /\ tasks' = Append(tasks, sent + 1)
      BY <1>1, <2>1
    <3> QED
      BY <2>1, <3>1, RangeAppend
  <2>3. sent + 1 # NoTask /\ sent + 1 \notin owed
    BY <2>1 DEF TypeOK, NoTask
  <2> QED
    BY <2>2, <2>3
<1>3. \A w \in Workers : Live(w) => Live(w)'
  BY <1>1 DEF Live
<1>4. ASSUME empties = 0 PROVE owed' \cap Range(tasks)' # {} => \E w \in Workers : Live(w)'
  <2>1. CASE inside
    <3>1. PICK w \in Workers : pc[w] = "running"
      BY <1>1, <2>1
    <3>2. Live(w)
      BY <3>1 DEF Live
    <3> QED
      BY <1>3, <3>2
  <2>2. CASE ~inside /\ ~stop_
    <3>1. PICK w \in Workers : TRUE
      BY WorkersAssumption
    <3>2. pc[w] \in {"ready", "blocked", "holding", "running"}
      BY <1>1, <2>2 DEF TypeOK, WorkerStates, Unlocked, StopInv
    <3>3. pc[w] = "holding" => task[w] # NoTask
      BY <1>4, <2>2 DEF StopInv
    <3> QED
      BY <1>1, <3>2, <3>3 DEF Live
  <2>3. CASE ~inside /\ stop_
    <3>1. owed' \cap Range(tasks)' \subseteq owed \cap Range(tasks)
      BY <1>1, <1>2, <2>3
    <3> QED
      BY <1>3, <1>4, <3>1, StillLive
  <2> QED
    BY <2>1, <2>2, <2>3
<1>5. stopper' = "returned" => \A w \in Workers : pc'[w] = "exited"
  BY <1>1 DEF StopInv
<1>6. \A w \in Workers : (pc'[w] = "exited" => pc[w] = "exited")
                      /\ (pc'[w] = "holding" => pc[w] = "holding")
  BY <1>1
<1> QED
  BY <1>1, <1>2, <1>4, <1>5, <1>6 DEF StopInv

(* stop() returns after every task owed has been executed or cleared, as   *)
(* long as nobody enqueues an empty function.                              *)
THEOREM StopDrainsThePool == Safety => []StopDrainsFunctions
<1>1. Init => StopInv
  BY DEF Init, StopInv, Range
<1>2. TypeOK /\ HandInv /\ StopInv /\ [Next]_vars => StopInv'
  <2> SUFFICES ASSUME TypeOK, HandInv, StopInv, [Next]_vars PROVE StopInv'
    OBVIOUS
  <2>1. ASSUME NEW inside \in BOOLEAN, enqueue(inside) PROVE StopInv'
    BY <2>1, EnqueueKeepsStopInv
  <2>2. CASE enqueue_empty
    <3>1. empties' # 0
      BY <2>2, MaxEmptyAssumption DEF enqueue_empty, TypeOK
    <3> QED
      BY <2>2, <3>1 DEF enqueue_empty, NotifyAll, StopInv
  <2>3. CASE clear_waiting_tasks
    <3>1. Range(tasks)' = {}
      BY <2>3 DEF clear_waiting_tasks, Range
    <3> QED
      BY <2>3, <3>1 DEF clear_waiting_tasks, workerVars, StopInv
  <2>4. ASSUME stop_store \/ stop_join \/ UNCHANGED vars PROVE StopInv'
    <3>1. UNCHANGED <<tasks, pc, task, empties, owed>> /\ (stop_ => stop_')
      BY <2>4 DEF stop_store, stop_join, vars, workerVars, history
    <3>2. stopper' = "returned" => \A w \in Workers : pc[w] = "exited"
      BY <2>4 DEF stop_store, stop_join, vars, StopInv
    <3> QED
      BY <3>1, <3>2 DEF StopInv, Live
  <2>5. CASE stop_notify
    <3>1. /\ pc' = [w \in Workers |-> IF pc[w] = "blocked" THEN "ready" ELSE pc[w]]
          /\ stopper' # "returned" /\ UNCHANGED <<tasks, stop_, task, empties, owed>>
      BY <2>5 DEF stop_notify, NotifyAll, history
    <3> QED
      BY <3>1 DEF StopInv, Live
  <2>6. ASSUME NEW w \in Workers, Decide(w) PROVE StopInv'
    <3>1. Range(tasks)' = {}
      BY <2>6 DEF Decide, Wanted, Range
    <3> QED
      BY <2>6, <3>1 DEF Decide, history, StopInv, TypeOK
  <2>7. ASSUME NEW w \in Workers, Block(w) \/ Spurious(w) PROVE StopInv'
    BY <2>7 DEF Block, Spurious, history, StopInv, Live, TypeOK
  <2>8. ASSUME NEW w \in Workers, wait_for_new_task(w) PROVE StopInv'
    <3>1. CASE tasks = <<>>
      <4>1. Range(tasks)' = {} /\ stop_
        BY <2>8, <3>1 DEF wait_for_new_task, Wanted, Range
      <4> QED
        BY <2>8, <4>1 DEF wait_for_new_task, history, StopInv, TypeOK
    <3>2. CASE tasks # <<>>
      <4>1. /\ tasks' = Tail(tasks) /\ task' = [task EXCEPT ![w] = Head(tasks)]
            /\ pc[w] = "ready" /\ pc' = [pc EXCEPT ![w] = "holding"]
            /\ UNCHANGED <<stop_, stopper, empties, owed>>
        BY <2>8, <3>2 DEF wait_for_new_task, history
      <4>2. Range(tasks) = {Head(tasks)} \cup Range(tasks)'
        BY <3>2, <4>1, RangeTail DEF TypeOK
      <4>3. empties = 0 => Head(tasks) # NoTask
        BY <4>2 DEF StopInv
      <4>4. empties = 0 => Live(w)'
        BY <4>1, <4>3 DEF Live, TypeOK
      <4>5. \A v \in Workers : pc'[v] = "holding" /\ task'[v] = NoTask /\ empties = 0 => stop_
        BY <4>1, <4>3 DEF StopInv, TypeOK
      <4>6. \A v \in Workers : pc'[v] = "exited" <=> pc[v] = "exited"
        BY <4>1 DEF TypeOK
      <4> QED
        BY <4>1, <4>2, <4>4, <4>5, <4>6 DEF StopInv
    <3> QED
      BY <3>1, <3>2
  <2>9. ASSUME NEW w \in Workers, dispatch(w) PROVE StopInv'
    <3>1. /\ pc[w] = "holding" /\ pc' = [pc EXCEPT ![w] = Dispatch(w)]
          /\ UNCHANGED <<tasks, stop_, task, stopper, empties, owed>>
      BY <2>9 DEF dispatch, history
    <3>2. /\ Dispatch(w) \in {"exited", "ready", "running"}
          /\ Dispatch(w) = "exited" => stop_ /\ task[w] = NoTask
      BY DEF Dispatch
    <3>3. \A v \in Workers : Live(v) => Live(v)'
      BY <3>1, <3>2 DEF Live, TypeOK
    <3>4. empties = 0 => (owed' \cap Range(tasks)' # {} => \E v \in Workers : Live(v)')
      BY <3>1, <3>3, StillLive
    <3> QED
      BY <3>1, <3>2, <3>4 DEF StopInv, TypeOK
  <2>10. ASSUME NEW w \in Workers, finish(w) PROVE StopInv'
    BY <2>10 DEF finish, StopInv, Live, TypeOK
  <2> QED
    BY <2>1, <2>2, <2>3, <2>4, <2>5, <2>6, <2>7, <2>8, <2>9, <2>10 DEF Next, Work
<1>3. TypeOK /\ HandInv /\ OnePlace /\ StopInv => StopDrainsFunctions
  <2> SUFFICES ASSUME TypeOK, HandInv, OnePlace, StopInv, empties = 0, stopper = "returned"
               PROVE  owed \subseteq executed \cup cleared
    BY DEF StopDrainsFunctions
  <2>1. \A w \in Workers : pc[w] = "exited"
    BY DEF StopInv
  <2>2. InHand = {}
    BY <2>1 DEF InHand, HandInv
  <2>3. owed \cap Range(tasks) = {}
    BY <2>1 DEF StopInv, Live
  <2>4. owed \subseteq Range(tasks) \cup InHand \cup executed \cup cleared
    BY DEF TypeOK, OnePlace
  <2> QED
    BY <2>2, <2>3, <2>4
<1> QED
  BY <1>1, <1>2, <1>3, Types, TasksHaveOnePlace, PTL DEF Safety
==============================================================================

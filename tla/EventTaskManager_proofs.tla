------------------------ MODULE EventTaskManager_proofs ------------------------
(***************************************************************************)
(* Proofs about EventTaskManager, for any clients, tasks and names.        *)
(***************************************************************************)
EXTENDS EventTaskManager, WellFoundedInduction, TLAPS

(* What a thread that waits for the lock asked for, and whom a thread      *)
(* stops.                                                                  *)
CallInv ==
  \A th \in Threads :
    /\ pc[th] = "locking" =>
         /\ call[th].op \in Exclusive \cup Shared
         /\ call[th].name \in Names
         /\ call[th].op = "register_task" => th \in Clients /\ call[th].task \in held[th]
    /\ pc[th] = "waiting" => call[th].name \in Names
    /\ pc[th] = "stopping" => call[th].task \in Tasks

(* Become() keeps the types of positions and calls. *)
LEMMA BecomeTypes ==
  ASSUME TypeOK, NEW th \in Threads, NEW position \in Positions, NEW record \in Calls,
         Become(th, position, record)
  PROVE  /\ pc' \in [Threads -> Positions] /\ call' \in [Threads -> Calls]
         /\ pc'[th] = position /\ call'[th] = record
         /\ \A u \in Threads \ {th} : pc'[u] = pc[u] /\ call'[u] = call[u]
  BY DEF TypeOK, Become

(* The calls that the actions put on record. *)
LEMMA CallTypes ==
  /\ NoCall \in Calls
  /\ \A t \in Tasks, op \in {"stop", "clear"} :
       /\ [NoCall EXCEPT !.op = op, !.task = t] \in Calls
       /\ [NoCall EXCEPT !.op = op, !.task = t].task = t
       /\ [NoCall EXCEPT !.op = op, !.task = t].op = op
  /\ "out" \in Positions /\ "locking" \in Positions /\ "waiting" \in Positions
  /\ "answered" \in Positions /\ "stopping" \in Positions /\ "clearing" \in Positions
  BY DEF NoCall, Calls, Positions

(* A message goes to one task's queue, at its end. *)
LEMMA PostTypes ==
  ASSUME TypeOK, NEW t \in Tasks, NEW message \in Messages, Post(t, message)
  PROVE  /\ inbox' \in [Tasks -> Seq(Messages)]
         /\ inbox'[t] = Append(inbox[t], message)
         /\ \A u \in Tasks \ {t} : inbox'[u] = inbox[u]
  BY DEF TypeOK, Post

(* Leave() is Become() for a thread that is out of the manager. *)
LEMMA LeaveTypes ==
  ASSUME TypeOK, NEW th \in Threads, Leave(th)
  PROVE  /\ pc' \in [Threads -> Positions] /\ call' \in [Threads -> Calls]
         /\ pc'[th] = "out"
         /\ \A u \in Threads \ {th} : pc'[u] = pc[u] /\ call'[u] = call[u]
  BY BecomeTypes, CallTypes DEF Leave

(* stop() of a task: nothing happens, or the thread waits for its end.     *)
LEMMA StopTypes ==
  ASSUME TypeOK, NEW th \in Threads, NEW t \in Tasks, NEW op \in {"stop", "clear"},
         stop(th, t, op)
  PROVE  /\ pc' \in [Threads -> Positions] /\ call' \in [Threads -> Calls]
         /\ inbox' \in [Tasks -> Seq(Messages)]
         /\ \A u \in Threads \ {th} : pc'[u] = pc[u] /\ call'[u] = call[u]
         /\ \/ pc'[th] = "out" /\ inbox' = inbox
            \/ /\ pc'[th] = "stopping" /\ call'[th].task = t /\ call'[th].op = op
               /\ inbox'[t] = Append(inbox[t], [from |-> th, stop |-> TRUE])
               /\ \A u \in Tasks \ {t} : inbox'[u] = inbox[u]
<1>1. CASE life[t] = "joined"
  <2>1. Leave(th) /\ inbox' = inbox
    BY <1>1 DEF stop
  <2> QED
    BY <2>1, LeaveTypes DEF TypeOK
<1>2. CASE life[t] # "joined"
  <2> DEFINE record == [NoCall EXCEPT !.op = op, !.task = t]
             message == [from |-> th, stop |-> TRUE]
  <2>1. Become(th, "stopping", record) /\ Post(t, message)
    BY <1>2 DEF stop
  <2>2. record \in Calls /\ record.task = t /\ record.op = op /\ "stopping" \in Positions
    BY CallTypes
  <2>3. message \in Messages
    BY DEF Messages
  <2> HIDE DEF record
  <2> QED
    BY <2>1, <2>2, <2>3, BecomeTypes, PostTypes
<1> QED
  BY <1>1, <1>2

(* Drop() of a pointer: the same, if it was the last one. *)
LEMMA DropTypes ==
  ASSUME TypeOK, NEW th \in Threads, NEW t \in Tasks \cup {None}, Drop(th, t, "stop")
  PROVE  /\ pc' \in [Threads -> Positions] /\ call' \in [Threads -> Calls]
         /\ inbox' \in [Tasks -> Seq(Messages)]
         /\ \A u \in Threads \ {th} : pc'[u] = pc[u] /\ call'[u] = call[u]
         /\ \/ pc'[th] = "out" /\ inbox' = inbox
            \/ /\ pc'[th] = "stopping" /\ call'[th].op = "stop"
               /\ t \in Tasks /\ call'[th].task = t
               /\ ~Referenced(t, tasks_', held')
               /\ inbox'[t] = Append(inbox[t], [from |-> th, stop |-> TRUE])
               /\ \A u \in Tasks \ {t} : inbox'[u] = inbox[u]
<1>1. CASE t = None \/ Referenced(t, tasks_', held')
  <2>1. Leave(th) /\ inbox' = inbox
    BY <1>1 DEF Drop
  <2> QED
    BY <2>1, LeaveTypes DEF TypeOK
<1>2. CASE ~(t = None \/ Referenced(t, tasks_', held'))
  <2>1. stop(th, t, "stop") /\ t \in Tasks /\ ~Referenced(t, tasks_', held')
    BY <1>2 DEF Drop
  <2> QED
    BY <2>1, StopTypes
<1> QED
  BY <1>1, <1>2

(* The types hold in every reachable state, and so does CallInv. *)
LEMMA Types == Safety => [](TypeOK /\ CallInv)
<1>1. Init => TypeOK /\ CallInv
  <2> SUFFICES ASSUME Init PROVE TypeOK /\ CallInv
    OBVIOUS
  <2>1. pc \in [Threads -> Positions] /\ call \in [Threads -> Calls]
    BY CallTypes DEF Init
  <2>2. tasks_ \in [Names -> Tasks \cup {None}]
    BY SetUpsAssumption DEF Init
  <2>3. held \in [Clients -> SUBSET Tasks] /\ inbox \in [Tasks -> Seq(Messages)]
    BY DEF Init
  <2>4. handling \in [Tasks -> Messages]
    BY DEF Init, Idle, Messages
  <2> QED
    BY <2>1, <2>2, <2>3, <2>4, MaxCallsAssumption DEF Init, TypeOK, CallInv
<1>2. TypeOK /\ CallInv /\ [Next]_vars => TypeOK' /\ CallInv'
  <2> SUFFICES ASSUME TypeOK, CallInv, [Next]_vars PROVE TypeOK' /\ CallInv'
    OBVIOUS
  <2>1. ASSUME NEW th \in Threads, NEW op \in Exclusive \cup Shared, NEW name \in Names,
               NEW task \in Tasks \cup {None}, NEW timed \in BOOLEAN,
               op = "register_task" => th \in Clients /\ task \in held[th],
               Begin(th, op, name, task, timed)
        PROVE  TypeOK' /\ CallInv'
    <3> DEFINE record == [op |-> op, name |-> name, task |-> task, timed |-> timed]
    <3>1. record \in Calls
      BY DEF Calls
    <3>2. /\ pc' \in [Threads -> Positions] /\ call' \in [Threads -> Calls]
          /\ pc'[th] = "locking" /\ call'[th] = record
          /\ \A u \in Threads \ {th} : pc'[u] = pc[u] /\ call'[u] = call[u]
      <4>1. Become(th, "locking", record)
        BY <2>1 DEF Begin
      <4> HIDE DEF record
      <4> QED
        BY <3>1, <4>1, CallTypes, BecomeTypes
    <3>3. /\ calls' \in 0..MaxCalls
          /\ UNCHANGED <<tasks_, writer, readers, prefers_writers, manager, held, inbox, handling, life>>
          /\ breaches' \subseteq breaches \cup {"handler"}
      BY <2>1, MaxCallsAssumption DEF Begin, Breach, lock, loops, TypeOK
    <3>4. TypeOK'
      BY <3>2, <3>3 DEF TypeOK
    <3>5. CallInv'
      BY <2>1, <3>2, <3>3 DEF CallInv
    <3> QED
      BY <3>4, <3>5
  <2>2. ASSUME NEW th \in Threads, Call(th) PROVE TypeOK' /\ CallInv'
    <3>1. CASE \E n \in Names, t \in held[th] : th \in Clients /\ Begin(th, "register_task", n, t, FALSE)
      <4>1. PICK n \in Names, t \in held[th] : th \in Clients /\ Begin(th, "register_task", n, t, FALSE)
        BY <3>1
      <4>2. t \in Tasks \cup {None} /\ "register_task" \in Exclusive \cup Shared
        BY <4>1 DEF TypeOK, Exclusive
      <4> QED
        BY <2>1, <4>1, <4>2
    <3>2. CASE \E n \in Names, op \in {"get_task", "unregister_task", "send_event", "rpc_event"},
                 timed \in BOOLEAN : Begin(th, op, n, None, timed)
      <4>1. PICK n \in Names, op \in {"get_task", "unregister_task", "send_event", "rpc_event"},
                 timed \in BOOLEAN : Begin(th, op, n, None, timed)
        BY <3>2
      <4>2. op \in Exclusive \cup Shared /\ op # "register_task"
        BY DEF Exclusive, Shared
      <4> QED
        BY <2>1, <4>1, <4>2
    <3> QED
      BY <2>2, <3>1, <3>2 DEF Call
  <2>3. ASSUME NEW c \in Clients, NEW keep \in BOOLEAN, register_task(c, keep)
        PROVE  TypeOK' /\ CallInv'
    <3>1. c \in Threads /\ call[c].name \in Names /\ call[c].task \in Tasks
      BY <2>3 DEF register_task, Locking, CallInv, Threads, TypeOK
    <3>2. tasks_' \in [Names -> Tasks \cup {None}] /\ held' \in [Clients -> SUBSET Tasks]
      BY <2>3, <3>1 DEF register_task, TypeOK
    <3>3. \A d \in Clients \ {c} : held'[d] = held[d]
      BY <2>3 DEF register_task, TypeOK
    <3>4. tasks_[call[c].name] \in Tasks \cup {None} /\ DropLocked(c, tasks_[call[c].name])
      BY <2>3, <3>1 DEF register_task, TypeOK
    <3> QED
      <4>1. /\ pc' \in [Threads -> Positions] /\ call' \in [Threads -> Calls]
            /\ inbox' \in [Tasks -> Seq(Messages)]
            /\ \A u \in Threads \ {c} : pc'[u] = pc[u] /\ call'[u] = call[u]
            /\ pc'[c] = "out" \/ (pc'[c] = "stopping" /\ call'[c].task \in Tasks)
        BY <3>1, <3>4, DropTypes DEF DropLocked
      <4>2. /\ writer' \in Threads \cup {None} /\ breaches' \subseteq breaches \cup {"destroyed"}
            /\ UNCHANGED <<readers, prefers_writers, manager, handling, life, calls>>
        BY <3>1, <3>4 DEF DropLocked, Breach
      <4>3. TypeOK'
        BY <3>2, <4>1, <4>2 DEF TypeOK
      <4>4. CallInv'
        BY <3>1, <3>3, <4>1 DEF CallInv, Threads
      <4> QED
        BY <4>3, <4>4
  <2>4. ASSUME NEW th \in Threads, unregister_task(th) PROVE TypeOK' /\ CallInv'
    <3>1. call[th].name \in Names
      BY <2>4 DEF unregister_task, Locking, CallInv
    <3>2. tasks_' \in [Names -> Tasks \cup {None}] /\ held' = held
      BY <2>4, <3>1 DEF unregister_task, TypeOK
    <3>3. tasks_[call[th].name] \in Tasks \cup {None} /\ DropLocked(th, tasks_[call[th].name])
      BY <2>4, <3>1 DEF unregister_task, TypeOK
    <3> QED
      <4>1. /\ pc' \in [Threads -> Positions] /\ call' \in [Threads -> Calls]
            /\ inbox' \in [Tasks -> Seq(Messages)]
            /\ \A u \in Threads \ {th} : pc'[u] = pc[u] /\ call'[u] = call[u]
            /\ pc'[th] = "out" \/ (pc'[th] = "stopping" /\ call'[th].task \in Tasks)
        BY <3>3, DropTypes DEF DropLocked
      <4>2. /\ writer' \in Threads \cup {None} /\ breaches' \subseteq breaches \cup {"destroyed"}
            /\ UNCHANGED <<readers, prefers_writers, manager, handling, life, calls>>
        BY <3>3 DEF DropLocked, Breach
      <4>3. TypeOK'
        BY <3>2, <4>1, <4>2 DEF TypeOK
      <4>4. CallInv'
        BY <3>2, <4>1 DEF CallInv
      <4> QED
        BY <4>3, <4>4
  <2>5. ASSUME NEW th \in Threads, throw(th) PROVE TypeOK' /\ CallInv'
    <3>1. Leave(th)
      BY <2>5 DEF throw
    <3> QED
      BY <2>5, <3>1, LeaveTypes DEF throw, lock, loops, TypeOK, CallInv
  <2>6. ASSUME NEW c \in Clients, get_task(c) PROVE TypeOK' /\ CallInv'
    <3>1. c \in Threads /\ Leave(c)
      BY <2>6 DEF get_task, Threads
    <3>2. Target(c) \in Tasks
      BY <2>6, <3>1 DEF get_task, Target, Locking, CallInv, TypeOK
    <3>3. held' \in [Clients -> SUBSET Tasks] /\ \A d \in Clients \ {c} : held'[d] = held[d]
      BY <2>6, <3>2 DEF get_task, TypeOK
    <3> QED
      BY <2>6, <3>1, <3>3, LeaveTypes DEF get_task, lock, loops, TypeOK, CallInv
  <2>7. ASSUME NEW th \in Threads, send_event(th) PROVE TypeOK' /\ CallInv'
    <3>1. Target(th) \in Tasks
      BY <2>7 DEF send_event, Target, Locking, CallInv, TypeOK
    <3>2. [from |-> None, stop |-> FALSE] \in Messages
      BY DEF Messages
    <3>3. Post(Target(th), [from |-> None, stop |-> FALSE]) /\ Leave(th)
      BY <2>7 DEF send_event
    <3>4. inbox' \in [Tasks -> Seq(Messages)]
      BY <3>1, <3>2, <3>3, PostTypes
    <3> QED
      BY <2>7, <3>3, <3>4, LeaveTypes DEF send_event, lock, TypeOK, CallInv
  <2>8. ASSUME NEW th \in Threads, rpc_event(th) PROVE TypeOK' /\ CallInv'
    <3> DEFINE record == [call[th] EXCEPT !.task = Target(th)]
    <3>1. Target(th) \in Tasks
      BY <2>8 DEF rpc_event, Target, Locking, CallInv, TypeOK
    <3>2. [from |-> th, stop |-> FALSE] \in Messages /\ record \in Calls
      <4>1. call[th] \in Calls
        BY DEF TypeOK
      <4>2. record \in Calls
        BY <3>1, <4>1 DEF Calls
      <4> QED
        BY <4>2 DEF Messages
    <3>3. Post(Target(th), [from |-> th, stop |-> FALSE]) /\ Become(th, "waiting", record)
      BY <2>8 DEF rpc_event
    <3>4. inbox' \in [Tasks -> Seq(Messages)]
      BY <3>1, <3>2, <3>3, PostTypes
    <3> HIDE DEF record
    <3>5. /\ pc' \in [Threads -> Positions] /\ call' \in [Threads -> Calls]
          /\ pc'[th] = "waiting"
          /\ \A u \in Threads \ {th} : pc'[u] = pc[u] /\ call'[u] = call[u]
      BY <3>2, <3>3, CallTypes, BecomeTypes
    <3>6. /\ readers' = readers \cup {th} /\ breaches' \subseteq breaches \cup {"upward"}
          /\ UNCHANGED <<tasks_, writer, prefers_writers, manager, held, handling, life, calls>>
      BY <2>8 DEF rpc_event, Share, Breach
    <3>7. TypeOK'
      BY <3>4, <3>5, <3>6 DEF TypeOK
    <3>8. CallInv'
      <4>1. call'[th] = record /\ call[th].name \in Names
        <5>1. call'[th] = record
          BY <3>3 DEF Become, TypeOK
        <5>2. call[th].name \in Names
          BY <2>8 DEF rpc_event, Locking, CallInv
        <5> QED
          BY <5>1, <5>2
      <4>2. record.name = call[th].name
        <5>1. call[th] \in Calls
          BY DEF TypeOK
        <5> QED
          BY <5>1 DEF record, Calls
      <4> QED
        BY <3>5, <3>6, <4>1, <4>2 DEF CallInv
    <3> QED
      BY <3>7, <3>8
  <2>9. ASSUME NEW th \in Threads, return(th) PROVE TypeOK' /\ CallInv'
    <3>1. Leave(th)
      BY <2>9 DEF return
    <3> QED
      BY <2>9, <3>1, LeaveTypes DEF return, Unshare, loops, TypeOK, CallInv
  <2>10. ASSUME NEW th \in Threads, timeout(th) PROVE TypeOK' /\ CallInv'
    <3>1. Leave(th)
      BY <2>10 DEF timeout
    <3>2. \A message \in Messages : Disown(message, th) \in Messages
      BY DEF Disown, Messages
    <3>3. inbox' \in [Tasks -> Seq(Messages)] /\ handling' \in [Tasks -> Messages]
      <4>1. ASSUME NEW s \in Seq(Messages) PROVE [i \in DOMAIN s |-> Disown(s[i], th)] \in Seq(Messages)
        <5>1. DOMAIN s = 1..Len(s) /\ Len(s) \in Nat /\ \A i \in 1..Len(s) : s[i] \in Messages
          OBVIOUS
        <5>2. [i \in 1..Len(s) |-> Disown(s[i], th)] \in [1..Len(s) -> Messages]
          BY <3>2, <5>1
        <5> QED
          BY <5>1, <5>2
      <4> QED
        BY <2>10, <3>2, <4>1 DEF timeout, TypeOK
    <3> QED
      BY <2>10, <3>1, <3>3, LeaveTypes DEF timeout, Unshare, TypeOK, CallInv
  <2>11. ASSUME NEW th \in Threads, join(th) PROVE TypeOK' /\ CallInv'
    <3>1. Become(th, "clearing", NoCall) \/ Leave(th)
      BY <2>11 DEF join
    <3>2. /\ pc' \in [Threads -> Positions] /\ call' \in [Threads -> Calls]
          /\ pc'[th] \in {"clearing", "out"}
          /\ \A u \in Threads \ {th} : pc'[u] = pc[u] /\ call'[u] = call[u]
      <4>1. NoCall \in Calls
        BY CallTypes
      <4>2. PICK position \in {"clearing", "out"} : Become(th, position, NoCall)
        BY <3>1 DEF Leave
      <4>3. position \in Positions
        BY DEF Positions
      <4> QED
        BY <4>1, <4>2, <4>3, BecomeTypes
    <3> QED
      BY <2>11, <3>2 DEF join, TypeOK, CallInv
  <2>12. ASSUME NEW c \in Clients, NEW t \in Tasks, release(c, t) PROVE TypeOK' /\ CallInv'
    <3>1. c \in Threads /\ pc[c] = "out" /\ Drop(c, t, "stop") /\ t \in Tasks \cup {None}
      BY <2>12 DEF release, Free, Threads
    <3>2. held' \in [Clients -> SUBSET Tasks] /\ \A d \in Clients \ {c} : held'[d] = held[d]
      BY <2>12 DEF release, TypeOK
    <3> QED
      <4>1. /\ pc' \in [Threads -> Positions] /\ call' \in [Threads -> Calls]
            /\ inbox' \in [Tasks -> Seq(Messages)]
            /\ \A u \in Threads \ {c} : pc'[u] = pc[u] /\ call'[u] = call[u]
            /\ pc'[c] = "out" \/ (pc'[c] = "stopping" /\ call'[c].task \in Tasks)
        BY <3>1, DropTypes
      <4>2. UNCHANGED <<tasks_, writer, readers, prefers_writers, manager, handling, life, calls, breaches>>
        BY <2>12 DEF release, lock
      <4>3. TypeOK'
        BY <3>2, <4>1, <4>2 DEF TypeOK
      <4>4. CallInv'
        BY <3>1, <3>2, <4>1 DEF CallInv, Threads
      <4> QED
        BY <4>3, <4>4
  <2>13. ASSUME NEW c \in Clients, NEW t \in Tasks, stop_task(c, t) PROVE TypeOK' /\ CallInv'
    <3>1. c \in Threads /\ stop(c, t, "stop")
      BY <2>13 DEF stop_task, Threads
    <3> QED
      <4>1. /\ pc' \in [Threads -> Positions] /\ call' \in [Threads -> Calls]
            /\ inbox' \in [Tasks -> Seq(Messages)]
            /\ \A u \in Threads \ {c} : pc'[u] = pc[u] /\ call'[u] = call[u]
            /\ pc'[c] = "out" \/ (pc'[c] = "stopping" /\ call'[c].task \in Tasks)
        BY <3>1, StopTypes
      <4>2. /\ breaches' \subseteq breaches \cup {"stopped"}
            /\ UNCHANGED <<tasks_, writer, readers, prefers_writers, manager, held, handling, life, calls>>
        BY <2>13 DEF stop_task, Breach, lock
      <4>3. TypeOK'
        BY <4>1, <4>2 DEF TypeOK
      <4>4. CallInv'
        BY <4>1, <4>2 DEF CallInv
      <4> QED
        BY <4>3, <4>4
  <2>14. ASSUME NEW c \in Clients, destroy(c) PROVE TypeOK' /\ CallInv'
    <3>1. c \in Threads /\ Become(c, "clearing", NoCall)
      BY <2>14 DEF destroy, Threads
    <3> QED
      <4>1. /\ pc' \in [Threads -> Positions] /\ call' \in [Threads -> Calls]
            /\ pc'[c] = "clearing"
            /\ \A u \in Threads \ {c} : pc'[u] = pc[u] /\ call'[u] = call[u]
        BY <3>1, CallTypes, BecomeTypes
      <4> QED
        BY <2>14, <4>1 DEF destroy, lock, loops, TypeOK, CallInv
  <2>15. ASSUME NEW c \in Clients, clear(c) PROVE TypeOK' /\ CallInv'
    <3>1. PICK n \in Names :
            /\ tasks_[n] # None
            /\ tasks_' = [tasks_ EXCEPT ![n] = None]
            /\ UNCHANGED held
            /\ UNCHANGED <<pc, call, inbox>> \/ stop(c, tasks_[n], "clear")
      BY <2>15 DEF clear
    <3>2. c \in Threads /\ tasks_[n] \in Tasks /\ tasks_' \in [Names -> Tasks \cup {None}]
      BY <3>1 DEF Threads, TypeOK
    <3> QED
      <4>1. /\ pc' \in [Threads -> Positions] /\ call' \in [Threads -> Calls]
            /\ inbox' \in [Tasks -> Seq(Messages)]
            /\ \A u \in Threads \ {c} : pc'[u] = pc[u] /\ call'[u] = call[u]
            /\ \/ pc'[c] \in {"out", "clearing"}
               \/ (pc'[c] = "stopping" /\ call'[c].task \in Tasks)
        <5>1. CASE UNCHANGED <<pc, call, inbox>>
          BY <2>15, <3>2, <5>1 DEF clear, TypeOK
        <5>2. CASE stop(c, tasks_[n], "clear")
          BY <3>2, <5>2, StopTypes
        <5> QED
          BY <3>1, <5>1, <5>2
      <4>2. UNCHANGED <<writer, readers, prefers_writers, manager, held, handling, life, calls, breaches>>
        BY <2>15, <3>1 DEF clear, lock
      <4>3. TypeOK'
        BY <3>2, <4>1, <4>2 DEF TypeOK
      <4>4. CallInv'
        BY <4>1, <4>2 DEF CallInv
      <4> QED
        BY <4>3, <4>4
  <2>16. ASSUME NEW c \in Clients, cleared(c) PROVE TypeOK' /\ CallInv'
    <3>1. c \in Threads /\ Leave(c)
      BY <2>16 DEF cleared, Threads
    <3> QED
      BY <2>16, <3>1, LeaveTypes DEF cleared, lock, loops, TypeOK, CallInv
  <2>17. ASSUME NEW t \in Tasks, take(t) PROVE TypeOK' /\ CallInv'
    <3>1. Head(inbox[t]) \in Messages /\ Tail(inbox[t]) \in Seq(Messages)
      BY <2>17 DEF take, TypeOK
    <3> QED
      BY <2>17, <3>1 DEF take, lock, TypeOK, CallInv
  <2>18. ASSUME NEW t \in Tasks, answer(t) PROVE TypeOK' /\ CallInv'
    <3>1. handling' \in [Tasks -> Messages]
      BY <2>18 DEF answer, Idle, Messages, TypeOK
    <3>2. pc' \in [Threads -> Positions] /\ \A u \in Threads : pc'[u] \in {pc[u], "answered"}
      <4>1. pc' = pc \/ pc' = [pc EXCEPT ![handling[t].from] = "answered"]
        BY <2>18 DEF answer
      <4>2. "answered" \in Positions
        BY DEF Positions
      <4>3. ASSUME NEW v, pc' = [pc EXCEPT ![v] = "answered"]
            PROVE  pc' \in [Threads -> Positions] /\ \A u \in Threads : pc'[u] \in {pc[u], "answered"}
        BY <4>2, <4>3 DEF TypeOK
      <4> QED
        BY <4>1, <4>3 DEF TypeOK
    <3> QED
      BY <2>18, <3>1, <3>2 DEF answer, lock, TypeOK, CallInv
  <2>19. ASSUME NEW t \in Tasks, finish(t) PROVE TypeOK' /\ CallInv'
    <3>1. Tail(inbox[t]) \in Seq(Messages)
      BY <2>19 DEF finish, TypeOK
    <3> QED
      BY <2>19, <3>1 DEF finish, lock, TypeOK, CallInv
  <2>20. CASE UNCHANGED vars
    BY <2>20 DEF vars, lock, loops, TypeOK, CallInv
  <2> QED
    BY <2>2, <2>3, <2>4, <2>5, <2>6, <2>7, <2>8, <2>9, <2>10, <2>11, <2>12, <2>13, <2>14,
       <2>15, <2>16, <2>17, <2>18, <2>19, <2>20
       DEF Next, Continue, Locked, Loop
<1> QED
  BY <1>1, <1>2, PTL DEF Safety

(* The types are right, for any clients, tasks and names and whatever the  *)
(* callers do.                                                             *)
THEOREM TypeCorrect == Spec => []TypeOK
  BY Types, PTL DEF Spec

-----------------------------------------------------------------------------

(* The shared lock lasts as long as the wait in rpc_event(), and keeps the *)
(* task that is waited for under its name; and when the destructor of the  *)
(* manager runs nobody is left who waits in it.                            *)
WaitInv ==
  \A th \in Threads :
    /\ th \in readers => InRpc(th)
    /\ pc[th] = "waiting" => th \in readers /\ call[th].task \in Tasks /\ Target(th) = call[th].task
    /\ manager = "gone" => pc[th] \notin {"locking", "waiting"}
    /\ pc[th] = "clearing" \/ (pc[th] = "stopping" /\ call[th].op = "clear") => manager = "gone"

LEMMA Waits == Safety => []WaitInv
<1>1. Init => WaitInv
  BY DEF Init, WaitInv
<1>2. TypeOK /\ CallInv /\ WaitInv /\ [Next]_vars => WaitInv'
  <2> SUFFICES ASSUME TypeOK, CallInv, WaitInv, [Next]_vars PROVE WaitInv'
    OBVIOUS
  <2> USE DEF WaitInv, InRpc, Target
  <2>1. ASSUME NEW th \in Threads, NEW op, NEW name, NEW task, NEW timed,
               Begin(th, op, name, task, timed)
        PROVE  WaitInv'
    <3>1. /\ pc[th] = "out" /\ manager = "alive"
          /\ Become(th, "locking", [op |-> op, name |-> name, task |-> task, timed |-> timed])
          /\ UNCHANGED <<readers, manager, tasks_>>
      BY <2>1 DEF Begin, Free, lock
    <3>2. /\ pc'[th] = "locking"
          /\ \A u \in Threads \ {th} : pc'[u] = pc[u] /\ call'[u] = call[u]
      BY <3>1 DEF Become, TypeOK
    <3> QED
      BY <3>1, <3>2
  <2>2. ASSUME NEW th \in Threads, Call(th) PROVE WaitInv'
    BY <2>1, <2>2 DEF Call
  <2>3. ASSUME NEW th \in Threads, CanOwn, DropLocked(th, tasks_[call[th].name]),
               pc[th] = "locking", tasks_[call[th].name] \in Tasks \cup {None}
        PROVE  WaitInv'
    <3>1. /\ \A u \in Threads \ {th} : pc'[u] = pc[u] /\ call'[u] = call[u]
          /\ pc'[th] = "out" \/ (pc'[th] = "stopping" /\ call'[th].op = "stop")
      BY <2>3, DropTypes DEF DropLocked
    <3>2. readers = {} /\ UNCHANGED <<readers, manager>>
      BY <2>3 DEF DropLocked, CanOwn
    <3> QED
      BY <2>3, <3>1, <3>2
  <2>4. ASSUME NEW c \in Clients, NEW keep \in BOOLEAN, register_task(c, keep) PROVE WaitInv'
    <3>1. c \in Threads /\ tasks_[call[c].name] \in Tasks \cup {None} /\ pc[c] = "locking"
      BY <2>4 DEF register_task, Locking, CallInv, Threads, TypeOK
    <3> QED
      BY <2>3, <2>4, <3>1 DEF register_task
  <2>5. ASSUME NEW th \in Threads, unregister_task(th) PROVE WaitInv'
    <3>1. tasks_[call[th].name] \in Tasks \cup {None} /\ pc[th] = "locking"
      BY <2>5 DEF unregister_task, Locking, CallInv, TypeOK
    <3> QED
      BY <2>3, <2>5, <3>1 DEF unregister_task
  <2>6. ASSUME NEW th \in Threads, pc[th] \in {"out", "locking", "clearing"}, Leave(th),
               UNCHANGED <<readers, manager, tasks_>>
        PROVE  WaitInv'
    <3>1. /\ pc'[th] = "out"
          /\ \A u \in Threads \ {th} : pc'[u] = pc[u] /\ call'[u] = call[u]
      BY <2>6, LeaveTypes
    <3> QED
      BY <2>6, <3>1
  <2>7. ASSUME NEW th \in Threads, throw(th) \/ (th \in Clients /\ get_task(th)) \/ send_event(th)
        PROVE  WaitInv'
    BY <2>6, <2>7 DEF throw, get_task, send_event, Locking, lock
  <2>8. ASSUME NEW th \in Threads, rpc_event(th) PROVE WaitInv'
    <3> DEFINE record == [call[th] EXCEPT !.task = Target(th)]
    <3>1. Target(th) \in Tasks
      BY <2>8 DEF rpc_event, Locking, CallInv, TypeOK
    <3>2. record \in Calls /\ record.task = Target(th) /\ record.name = call[th].name
      <4>1. call[th] \in Calls
        BY DEF TypeOK
      <4> QED
        BY <3>1, <4>1 DEF Calls
    <3>3. Become(th, "waiting", record)
      BY <2>8 DEF rpc_event
    <3> HIDE DEF record
    <3>4. /\ pc'[th] = "waiting" /\ call'[th] = record
          /\ \A u \in Threads \ {th} : pc'[u] = pc[u] /\ call'[u] = call[u]
      <4>1. "waiting" \in Positions
        BY DEF Positions
      <4> QED
        BY <3>2, <3>3, <4>1, BecomeTypes
    <3>5. pc[th] = "locking" /\ readers' = readers \cup {th} /\ UNCHANGED <<manager, tasks_>>
      BY <2>8 DEF rpc_event, Share, Locking
    <3> QED
      BY <3>1, <3>2, <3>4, <3>5
  <2>9. ASSUME NEW th \in Threads, return(th) \/ timeout(th) PROVE WaitInv'
    <3>1. Leave(th) /\ readers' = readers \ {th} /\ UNCHANGED <<manager, tasks_>>
      BY <2>9 DEF return, timeout, Unshare
    <3>2. /\ pc'[th] = "out"
          /\ \A u \in Threads \ {th} : pc'[u] = pc[u] /\ call'[u] = call[u]
      BY <3>1, LeaveTypes
    <3> QED
      BY <3>1, <3>2
  <2>10. ASSUME NEW th \in Threads, join(th) PROVE WaitInv'
    <3>1. /\ pc[th] = "stopping" /\ UNCHANGED <<readers, manager, tasks_>>
          /\ call[th].op = "clear" \/ Leave(th)
          /\ Become(th, "clearing", NoCall) \/ Leave(th)
      BY <2>10 DEF join
    <3>2. /\ pc'[th] \in {"clearing", "out"}
          /\ pc'[th] = "clearing" => call[th].op = "clear"
          /\ \A u \in Threads \ {th} : pc'[u] = pc[u] /\ call'[u] = call[u]
      BY <3>1 DEF Become, Leave, TypeOK
    <3> QED
      BY <3>1, <3>2
  <2>11. ASSUME NEW c \in Clients, NEW t \in Tasks, release(c, t) \/ stop_task(c, t)
         PROVE  WaitInv'
    <3>1. /\ c \in Threads /\ pc[c] = "out" /\ UNCHANGED <<readers, manager, tasks_>>
          /\ Drop(c, t, "stop") \/ stop(c, t, "stop")
      BY <2>11 DEF release, stop_task, Free, lock, Threads
    <3>2. /\ \A u \in Threads \ {c} : pc'[u] = pc[u] /\ call'[u] = call[u]
          /\ pc'[c] = "out" \/ (pc'[c] = "stopping" /\ call'[c].op = "stop")
      BY <3>1, DropTypes, StopTypes
    <3> QED
      BY <3>1, <3>2
  <2>12. ASSUME NEW c \in Clients, destroy(c) PROVE WaitInv'
    <3>1. /\ c \in Threads /\ pc[c] = "out" /\ UNCHANGED <<readers, tasks_>> /\ manager' = "gone"
          /\ \A th \in Threads : pc[th] \in {"out", "stopping"}
          /\ Become(c, "clearing", NoCall)
      BY <2>12 DEF destroy, lock, Threads
    <3>2. /\ pc'[c] = "clearing"
          /\ \A u \in Threads \ {c} : pc'[u] = pc[u] /\ call'[u] = call[u]
      BY <3>1 DEF Become, TypeOK
    <3> QED
      BY <3>1, <3>2
  <2>13. ASSUME NEW c \in Clients, clear(c) PROVE WaitInv'
    <3>1. c \in Threads /\ pc[c] = "clearing" /\ UNCHANGED <<readers, manager>>
      BY <2>13 DEF clear, lock, Threads
    <3>2. /\ \A u \in Threads \ {c} : pc'[u] = pc[u] /\ call'[u] = call[u]
          /\ pc'[c] \in {"out", "clearing", "stopping"}
      <4>1. PICK n \in Names :
              tasks_[n] # None /\ (UNCHANGED <<pc, call, inbox>> \/ stop(c, tasks_[n], "clear"))
        BY <2>13 DEF clear
      <4>2. tasks_[n] \in Tasks
        BY <4>1 DEF TypeOK
      <4>3. CASE UNCHANGED <<pc, call, inbox>>
        BY <3>1, <4>3
      <4>4. CASE stop(c, tasks_[n], "clear")
        BY <3>1, <4>2, <4>4, StopTypes
      <4> QED
        BY <4>1, <4>3, <4>4
    <3> QED
      BY <3>1, <3>2
  <2>14. ASSUME NEW c \in Clients, cleared(c) PROVE WaitInv'
    BY <2>6, <2>14 DEF cleared, lock, Threads
  <2>15. ASSUME NEW t \in Tasks, answer(t) PROVE WaitInv'
    <3>1. UNCHANGED <<readers, manager, tasks_, call>>
      BY <2>15 DEF answer, lock
    <3>2. pc' = pc \/ pc' = [pc EXCEPT ![handling[t].from] = "answered"]
      BY <2>15 DEF answer
    <3>3. \A u \in Threads : pc'[u] \in {pc[u], "answered"}
      BY <3>2 DEF TypeOK
    <3> QED
      BY <3>1, <3>3
  <2>16. ASSUME NEW t \in Tasks, take(t) \/ finish(t) PROVE WaitInv'
    BY <2>16 DEF take, finish, lock
  <2>17. CASE UNCHANGED vars
    BY <2>17 DEF vars, lock
  <2> QED
    BY <2>2, <2>4, <2>5, <2>7, <2>8, <2>9, <2>10, <2>11, <2>12, <2>13, <2>14, <2>15, <2>16, <2>17
       DEF Next, Continue, Locked, Loop
<1> QED
  BY <1>1, <1>2, Types, PTL DEF Safety

-----------------------------------------------------------------------------

(* The task's thread has ended, or will at a kStop that is in its queue. *)
Doomed(t) == life[t] # "running" \/ \E i \in 1..Len(inbox[t]) : inbox[t][i].stop

(* Where nobody stops a task directly, only one without a pointer to it    *)
(* ends.                                                                   *)
LiveInv ==
  "stopped" \notin breaches =>
    \A t \in Tasks : Doomed(t) => ~Referenced(t, tasks_, held)

(* A step that neither makes a reference nor dooms a task that has one.    *)
LEMMA LiveStep ==
  ASSUME LiveInv, breaches \subseteq breaches',
         \A t \in Tasks : Referenced(t, tasks_', held') => Referenced(t, tasks_, held),
         \A t \in Tasks : Doomed(t)' => Doomed(t) \/ ~Referenced(t, tasks_', held')
  PROVE  LiveInv'
<1>1. \A t \in Tasks : Referenced(t, tasks_, held)' = Referenced(t, tasks_', held')
  BY DEF Referenced
<1> QED
  BY <1>1 DEF LiveInv

(* A message at the end of a queue dooms the task if it is a kStop. *)
LEMMA DoomedByPost ==
  ASSUME TypeOK, NEW t \in Tasks, NEW message \in Messages, life' = life,
         inbox'[t] = Append(inbox[t], message), Doomed(t)'
  PROVE  Doomed(t) \/ message.stop
<1> DEFINE s == inbox[t]
<1>1. s \in Seq(Messages) /\ Len(s) \in Nat
  BY DEF TypeOK
<1>2. /\ Len(Append(s, message)) = Len(s) + 1
      /\ Append(s, message)[Len(s) + 1] = message
      /\ \A i \in 1..Len(s) : Append(s, message)[i] = s[i]
  BY <1>1
<1>3. CASE life[t] # "running"
  BY <1>3 DEF Doomed
<1>4. CASE life[t] = "running"
  <2>1. PICK i \in 1..Len(inbox'[t]) : inbox'[t][i].stop
    BY <1>4 DEF Doomed
  <2>2. i = Len(s) + 1 \/ (i \in 1..Len(s) /\ s[i].stop)
    BY <1>1, <1>2, <2>1
  <2> QED
    BY <1>2, <2>1, <2>2 DEF Doomed
<1> QED
  BY <1>3, <1>4

(* What is behind the first message of a queue was in it before. *)
LEMMA DoomedByTail ==
  ASSUME TypeOK, NEW t \in Tasks, inbox[t] # <<>>, inbox'[t] = Tail(inbox[t]),
         \E i \in 1..Len(inbox'[t]) : inbox'[t][i].stop
  PROVE  Doomed(t)
<1> DEFINE s == inbox[t]
<1>1. s \in Seq(Messages) /\ Len(s) \in Nat \ {0}
  BY DEF TypeOK
<1>2. Len(Tail(s)) = Len(s) - 1 /\ \A i \in 1..(Len(s) - 1) : Tail(s)[i] = s[i + 1]
  BY <1>1
<1>3. PICK i \in 1..(Len(s) - 1) : s[i + 1].stop
  BY <1>2
<1>4. i + 1 \in 1..Len(s)
  BY <1>1, <1>3
<1> QED
  BY <1>3, <1>4 DEF Doomed

(* Dropping a pointer dooms the task only if it was the last one. *)
LEMMA DoomedByDrop ==
  ASSUME TypeOK, NEW th \in Threads, NEW t \in Tasks \cup {None}, Drop(th, t, "stop"), life' = life,
         NEW u \in Tasks, Doomed(u)'
  PROVE  Doomed(u) \/ ~Referenced(u, tasks_', held')
<1> DEFINE message == [from |-> th, stop |-> TRUE]
<1>1. message \in Messages
  BY DEF Messages
<1>2. CASE inbox' = inbox
  BY <1>2 DEF Doomed
<1>3. CASE t \in Tasks /\ ~Referenced(t, tasks_', held') /\ \A v \in Tasks \ {t} : inbox'[v] = inbox[v]
  BY <1>3 DEF Doomed
<1> QED
  BY <1>2, <1>3, DropTypes

LEMMA Lives == Safety => []LiveInv
<1>1. Init => LiveInv
  BY DEF Init, LiveInv, Doomed
<1>2. TypeOK /\ CallInv /\ LiveInv /\ [Next]_vars => LiveInv'
  <2> SUFFICES ASSUME TypeOK, CallInv, LiveInv, [Next]_vars PROVE LiveInv'
    OBVIOUS
  <2>1. ASSUME UNCHANGED <<tasks_, held, inbox, life>>, breaches \subseteq breaches'
        PROVE  LiveInv'
    BY <2>1, LiveStep DEF Doomed
  <2>2. ASSUME NEW th \in Threads, NEW op, NEW name, NEW task, NEW timed,
               Begin(th, op, name, task, timed)
        PROVE  LiveInv'
    BY <2>1, <2>2 DEF Begin, Breach, loops
  <2>3. ASSUME NEW th \in Threads, Call(th) PROVE LiveInv'
    BY <2>2, <2>3 DEF Call
  <2>4. ASSUME NEW th \in Threads, throw(th) \/ return(th) PROVE LiveInv'
    BY <2>1, <2>4 DEF throw, return, loops
  <2>5. ASSUME NEW c \in Clients, destroy(c) \/ cleared(c) PROVE LiveInv'
    BY <2>1, <2>5 DEF destroy, cleared, loops
  <2>6. ASSUME NEW t \in Tasks, answer(t) PROVE LiveInv'
    BY <2>1, <2>6 DEF answer
  <2>7. ASSUME NEW c \in Clients, get_task(c) PROVE LiveInv'
    <3>1. c \in Threads /\ call[c].name \in Names /\ Target(c) = tasks_[call[c].name]
      BY <2>7 DEF get_task, Locking, CallInv, Threads, Target
    <3>2. held' = [held EXCEPT ![c] = @ \cup {Target(c)}]
      BY <2>7 DEF get_task
    <3>3. UNCHANGED <<tasks_, inbox, life, breaches>>
      BY <2>7 DEF get_task, loops
    <3>4. \A t \in Tasks : Referenced(t, tasks_', held') => Referenced(t, tasks_, held)
      BY <3>1, <3>2, <3>3 DEF Referenced, TypeOK
    <3> QED
      BY <3>3, <3>4, LiveStep DEF Doomed
  <2>8. ASSUME NEW th \in Threads, send_event(th) \/ rpc_event(th) PROVE LiveInv'
    <3>1. PICK message \in Messages, target \in Tasks : ~message.stop /\ Post(target, message)
      <4>1. [from |-> None, stop |-> FALSE] \in Messages /\ [from |-> th, stop |-> FALSE] \in Messages
        BY DEF Messages
      <4>2. Target(th) \in Tasks
        BY <2>8 DEF send_event, rpc_event, Locking, CallInv, Target, TypeOK
      <4> QED
        BY <2>8, <4>1, <4>2 DEF send_event, rpc_event
    <3>2. UNCHANGED <<tasks_, held, life>> /\ breaches \subseteq breaches'
      BY <2>8 DEF send_event, rpc_event, Breach
    <3>3. ASSUME NEW t \in Tasks, Doomed(t)' PROVE Doomed(t)
      <4>1. CASE t # target
        BY <3>1, <3>2, <3>3, <4>1, PostTypes DEF Doomed
      <4>2. CASE t = target
        BY <3>1, <3>2, <3>3, <4>2, PostTypes, DoomedByPost
      <4> QED
        BY <4>1, <4>2
    <3> QED
      BY <3>2, <3>3, LiveStep
  <2>9. ASSUME NEW th \in Threads, timeout(th) PROVE LiveInv'
    <3>1. UNCHANGED <<tasks_, held, life, breaches>>
      BY <2>9 DEF timeout
    <3>2. PICK t \in Tasks \cup {None} :
            inbox' = [inbox EXCEPT ![t] = [i \in DOMAIN @ |-> Disown(@[i], th)]]
      BY <2>9 DEF timeout, TypeOK, Calls
    <3>3. \A message \in Messages : Disown(message, th).stop = message.stop
      BY DEF Disown, Messages
    <3>4. ASSUME NEW u \in Tasks, Doomed(u)' PROVE Doomed(u)
      <4>1. inbox[u] \in Seq(Messages)
        BY DEF TypeOK
      <4>2. CASE u # t
        BY <3>1, <3>2, <3>4, <4>2 DEF Doomed, TypeOK
      <4>3. CASE u = t
        <5>1. inbox'[u] = [i \in 1..Len(inbox[u]) |-> Disown(inbox[u][i], th)]
          BY <3>2, <4>1, <4>3 DEF TypeOK
        <5>2. Len(inbox[u]) \in Nat /\ \A i \in 1..Len(inbox[u]) : inbox[u][i] \in Messages
          BY <4>1
        <5>3. Len(inbox'[u]) = Len(inbox[u])
          BY <5>1, <5>2
        <5> QED
          BY <3>1, <3>3, <3>4, <5>1, <5>2, <5>3 DEF Doomed
      <4> QED
        BY <4>2, <4>3
    <3> QED
      BY <3>1, <3>4, LiveStep
  <2>10. ASSUME NEW th \in Threads, join(th) PROVE LiveInv'
    <3>1. /\ UNCHANGED <<tasks_, held, inbox, breaches>>
          /\ life[call[th].task] = "ended"
          /\ life' = [life EXCEPT ![call[th].task] = "joined"]
      BY <2>10 DEF join
    <3>2. \A t \in Tasks : Doomed(t)' => Doomed(t)
      BY <3>1 DEF Doomed, TypeOK
    <3> QED
      BY <3>1, <3>2, LiveStep
  <2>11. ASSUME NEW th \in Threads, NEW t \in Tasks \cup {None}, Drop(th, t, "stop"),
                life' = life, breaches \subseteq breaches',
                \A u \in Tasks : Referenced(u, tasks_', held') => Referenced(u, tasks_, held)
         PROVE  LiveInv'
    <3>1. \A u \in Tasks : Doomed(u)' => Doomed(u) \/ ~Referenced(u, tasks_', held')
      BY <2>11, DoomedByDrop
    <3> QED
      BY <2>11, <3>1, LiveStep
  <2>12. ASSUME NEW c \in Clients, NEW keep \in BOOLEAN, register_task(c, keep) PROVE LiveInv'
    <3>1. c \in Threads /\ call[c].task \in held[c] /\ tasks_[call[c].name] \in Tasks \cup {None}
      BY <2>12 DEF register_task, Locking, CallInv, Threads, TypeOK
    <3>2. /\ tasks_' = [tasks_ EXCEPT ![call[c].name] = call[c].task]
          /\ held' = held \/ held' = [held EXCEPT ![c] = @ \ {call[c].task}]
          /\ Drop(c, tasks_[call[c].name], "stop") /\ life' = life /\ breaches \subseteq breaches'
      BY <2>12 DEF register_task, DropLocked, Breach
    <3>3. \A u \in Tasks : Referenced(u, tasks_', held') => Referenced(u, tasks_, held)
      <4>1. ASSUME NEW u \in Tasks, NEW n \in Names, tasks_'[n] = u
            PROVE  Referenced(u, tasks_, held)
        BY <3>1, <3>2, <4>1 DEF Referenced, TypeOK
      <4>2. ASSUME NEW u \in Tasks, NEW d \in Clients, u \in held'[d]
            PROVE  Referenced(u, tasks_, held)
        <5>1. held'[d] \subseteq held[d]
          BY <3>2 DEF TypeOK
        <5> QED
          BY <4>2, <5>1 DEF Referenced
      <4> QED
        BY <4>1, <4>2 DEF Referenced
    <3> QED
      BY <2>11, <3>1, <3>2, <3>3
  <2>13. ASSUME NEW th \in Threads, unregister_task(th) PROVE LiveInv'
    <3>1. tasks_[call[th].name] \in Tasks \cup {None}
      BY <2>13 DEF unregister_task, Locking, CallInv, TypeOK
    <3>2. /\ tasks_' = [tasks_ EXCEPT ![call[th].name] = None] /\ held' = held
          /\ Drop(th, tasks_[call[th].name], "stop") /\ life' = life /\ breaches \subseteq breaches'
      BY <2>13 DEF unregister_task, DropLocked, Breach
    <3>3. \A u \in Tasks : Referenced(u, tasks_', held') => Referenced(u, tasks_, held)
      BY <3>2, NoneAssumption DEF Referenced, TypeOK, Threads
    <3> QED
      BY <2>11, <3>1, <3>2, <3>3
  <2>14. ASSUME NEW c \in Clients, NEW t \in Tasks, release(c, t) PROVE LiveInv'
    <3>1. /\ c \in Threads /\ held' = [held EXCEPT ![c] = @ \ {t}]
          /\ Drop(c, t, "stop") /\ UNCHANGED <<tasks_, life, breaches>>
      BY <2>14 DEF release, Threads
    <3>2. \A u \in Tasks : Referenced(u, tasks_', held') => Referenced(u, tasks_, held)
      BY <3>1 DEF Referenced, TypeOK
    <3> QED
      BY <2>11, <3>1, <3>2
  <2>15. ASSUME NEW c \in Clients, NEW t \in Tasks, stop_task(c, t) PROVE LiveInv'
    BY <2>15 DEF stop_task, Breach, LiveInv
  <2>16. ASSUME NEW c \in Clients, clear(c) PROVE LiveInv'
    <3>1. PICK n \in Names :
            /\ tasks_[n] # None
            /\ tasks_' = [tasks_ EXCEPT ![n] = None]
            /\ held' = held
            /\ \/ UNCHANGED <<pc, call, inbox>>
               \/ ~Referenced(tasks_[n], tasks_', held') /\ stop(c, tasks_[n], "clear")
      BY <2>16 DEF clear
    <3>2. c \in Threads /\ tasks_[n] \in Tasks /\ UNCHANGED <<life, breaches>>
      BY <2>16, <3>1 DEF clear, Threads, TypeOK
    <3>3. \A u \in Tasks : Referenced(u, tasks_', held') => Referenced(u, tasks_, held)
      BY <3>1, NoneAssumption DEF Referenced, TypeOK, Threads
    <3>4. ASSUME NEW u \in Tasks, Doomed(u)' PROVE Doomed(u) \/ ~Referenced(u, tasks_', held')
      <4>1. CASE inbox' = inbox
        BY <3>2, <3>4, <4>1 DEF Doomed
      <4>2. CASE /\ ~Referenced(tasks_[n], tasks_', held')
                 /\ \A v \in Tasks \ {tasks_[n]} : inbox'[v] = inbox[v]
        BY <3>2, <3>4, <4>2 DEF Doomed
      <4> QED
        BY <3>1, <3>2, <4>1, <4>2, StopTypes
    <3> QED
      BY <3>2, <3>3, <3>4, LiveStep
  <2>17. ASSUME NEW t \in Tasks, take(t) \/ finish(t) PROVE LiveInv'
    <3>1. /\ UNCHANGED <<tasks_, held, breaches>>
          /\ inbox[t] # <<>> /\ inbox' = [inbox EXCEPT ![t] = Tail(@)]
          /\ life' = life \/ (life' = [life EXCEPT ![t] = "ended"] /\ Head(inbox[t]).stop)
      BY <2>17 DEF take, finish
    <3>2. Head(inbox[t]).stop => Doomed(t)
      <4>1. inbox[t] \in Seq(Messages) /\ Len(inbox[t]) \in Nat \ {0} /\ Head(inbox[t]) = inbox[t][1]
        BY <3>1 DEF TypeOK
      <4> QED
        BY <4>1 DEF Doomed
    <3>3. ASSUME NEW u \in Tasks, Doomed(u)' PROVE Doomed(u)
      <4>1. CASE u # t
        BY <3>1, <3>3, <4>1 DEF Doomed, TypeOK
      <4>2. CASE u = t
        <5>1. inbox'[t] = Tail(inbox[t])
          BY <3>1 DEF TypeOK
        <5>2. CASE \E i \in 1..Len(inbox'[t]) : inbox'[t][i].stop
          BY <3>1, <4>2, <5>1, <5>2, DoomedByTail
        <5>3. CASE life'[t] # "running"
          BY <3>1, <3>2, <4>2, <5>3 DEF Doomed, TypeOK
        <5> QED
          BY <3>3, <4>2, <5>2, <5>3 DEF Doomed
      <4> QED
        BY <4>1, <4>2
    <3> QED
      BY <3>1, <3>3, LiveStep
  <2>18. CASE UNCHANGED vars
    BY <2>1, <2>18 DEF vars, loops
  <2> QED
    BY <2>3, <2>4, <2>5, <2>6, <2>7, <2>8, <2>9, <2>10, <2>12, <2>13, <2>14, <2>15, <2>16, <2>17, <2>18
       DEF Next, Continue, Locked, Loop
<1> QED
  BY <1>1, <1>2, Types, PTL DEF Safety

-----------------------------------------------------------------------------

(* While the rules are kept nobody waits with the exclusive lock, and what *)
(* a handler waits for is a task below its own, or a lock that no writer   *)
(* keeps it from.                                                          *)
RuleInv ==
  breaches = {} =>
    /\ writer = None
    /\ \A t \in Tasks :
         /\ pc[t] \in {"out", "locking", "waiting", "answered"}
         /\ pc[t] = "locking" => call[t].op \in Shared /\ ~prefers_writers
         /\ pc[t] = "waiting" /\ ~call[t].timed => call[t].task < t

LEMMA Rules == Safety => []RuleInv
<1>1. Init => RuleInv
  BY DEF Init, RuleInv, Threads
<1>2. TypeOK /\ CallInv /\ RuleInv /\ [Next]_vars => RuleInv'
  <2> SUFFICES ASSUME TypeOK, CallInv, RuleInv, [Next]_vars, breaches' = {} PROVE RuleInv'
    BY DEF RuleInv
  <2>1. \A c \in Clients : c \in Threads /\ c \notin Tasks
    BY ClientsAssumption DEF Threads
  <2>2. \A t \in Tasks : t \in Threads
    BY DEF Threads
  <2>3. ASSUME NEW th \in Threads, breaches = {}, UNCHANGED <<writer, prefers_writers>>,
               \A u \in Threads \ {th} : pc'[u] = pc[u] /\ call'[u] = call[u],
               th \in Tasks =>
                 /\ pc'[th] \in {"out", "locking", "waiting", "answered"}
                 /\ pc'[th] = "locking" => call'[th].op \in Shared /\ ~prefers_writers
                 /\ pc'[th] = "waiting" /\ ~call'[th].timed => call'[th].task < th
        PROVE  RuleInv'
    BY <2>2, <2>3 DEF RuleInv
  <2>4. ASSUME NEW th \in Threads, NEW op \in Exclusive \cup Shared, NEW name, NEW task, NEW timed,
               Begin(th, op, name, task, timed)
        PROVE  RuleInv'
    <3>1. /\ breaches = {} /\ UNCHANGED <<writer, prefers_writers>>
          /\ th \in Tasks => op \in Shared /\ ~prefers_writers
          /\ Become(th, "locking", [op |-> op, name |-> name, task |-> task, timed |-> timed])
      BY <2>4 DEF Begin, Breach, lock
    <3>2. /\ pc'[th] = "locking" /\ call'[th].op = op
          /\ \A u \in Threads \ {th} : pc'[u] = pc[u] /\ call'[u] = call[u]
      BY <3>1 DEF Become, TypeOK
    <3> QED
      BY <2>3, <3>1, <3>2
  <2>5. ASSUME NEW th \in Threads, Call(th) PROVE RuleInv'
    BY <2>4, <2>5 DEF Call, Exclusive, Shared
  <2>6. ASSUME NEW th \in Threads, Leave(th), breaches = {}, UNCHANGED <<writer, prefers_writers>>
        PROVE  RuleInv'
    BY <2>3, <2>6, LeaveTypes
  <2>7. ASSUME NEW th \in Threads, \/ throw(th) \/ send_event(th) \/ return(th) \/ timeout(th)
                                   \/ th \in Clients /\ (get_task(th) \/ cleared(th))
        PROVE  RuleInv'
    BY <2>6, <2>7 DEF throw, send_event, return, timeout, get_task, cleared, Unshare, lock
  <2>8. ASSUME NEW c \in Clients, NEW keep \in BOOLEAN, register_task(c, keep) PROVE RuleInv'
    <3>1. tasks_[call[c].name] \in Tasks \cup {None} /\ DropLocked(c, tasks_[call[c].name])
      BY <2>1, <2>8 DEF register_task, Locking, CallInv, TypeOK
    <3>2. /\ \A u \in Threads \ {c} : pc'[u] = pc[u] /\ call'[u] = call[u]
          /\ breaches = {} /\ writer' = None /\ UNCHANGED prefers_writers
      BY <2>1, <3>1, DropTypes DEF DropLocked, Breach
    <3> QED
      BY <2>1, <2>2, <3>2 DEF RuleInv
  <2>9. ASSUME NEW th \in Threads, unregister_task(th) PROVE RuleInv'
    <3>1. tasks_[call[th].name] \in Tasks \cup {None} /\ DropLocked(th, tasks_[call[th].name])
      BY <2>9 DEF unregister_task, Locking, CallInv, TypeOK
    <3>2. /\ \A u \in Threads \ {th} : pc'[u] = pc[u] /\ call'[u] = call[u]
          /\ pc'[th] = "out"
          /\ breaches = {} /\ writer' = None /\ UNCHANGED prefers_writers
      BY <3>1, DropTypes DEF DropLocked, Breach
    <3> QED
      BY <2>2, <3>2 DEF RuleInv
  <2>10. ASSUME NEW th \in Threads, rpc_event(th) PROVE RuleInv'
    <3> DEFINE record == [call[th] EXCEPT !.task = Target(th)]
    <3>1. /\ breaches = {} /\ UNCHANGED <<writer, prefers_writers>>
          /\ th \in Tasks /\ ~call[th].timed => ~(Target(th) >= th)
          /\ Become(th, "waiting", record)
      BY <2>10 DEF rpc_event, Share, Breach
    <3>2. Target(th) \in Tasks
      BY <2>10 DEF rpc_event, Locking, CallInv, Target, TypeOK
    <3>3. record.task = Target(th) /\ record.timed = call[th].timed
      <4>1. call[th] \in Calls
        BY DEF TypeOK
      <4> QED
        BY <3>2, <4>1 DEF Calls
    <3> HIDE DEF record
    <3>4. /\ pc'[th] = "waiting" /\ call'[th] = record
          /\ \A u \in Threads \ {th} : pc'[u] = pc[u] /\ call'[u] = call[u]
      BY <3>1 DEF Become, TypeOK
    <3>5. th \in Tasks => th \in Int /\ Target(th) \in Int
      BY <3>2 DEF Tasks
    <3>6. th \in Tasks /\ ~call'[th].timed => call'[th].task < th
      BY <3>1, <3>3, <3>4, <3>5
    <3> QED
      BY <2>3, <3>1, <3>4, <3>6
  <2>11. ASSUME NEW th \in Threads, join(th) PROVE RuleInv'
    <3>1. /\ pc[th] = "stopping" /\ breaches = {} /\ UNCHANGED prefers_writers
          /\ Become(th, "clearing", NoCall) \/ Leave(th)
          /\ writer' \in {None, writer}
      BY <2>11 DEF join
    <3>2. writer' = writer /\ th \notin Tasks
      BY <3>1 DEF RuleInv
    <3>3. \A u \in Threads \ {th} : pc'[u] = pc[u] /\ call'[u] = call[u]
      BY <3>1 DEF Become, Leave, TypeOK
    <3> QED
      BY <2>3, <3>1, <3>2, <3>3
  <2>12. ASSUME NEW c \in Clients, NEW t \in Tasks, release(c, t) PROVE RuleInv'
    <3>1. Drop(c, t, "stop") /\ breaches = {} /\ UNCHANGED <<writer, prefers_writers>>
      BY <2>12 DEF release, lock
    <3> QED
      BY <2>1, <2>3, <3>1, DropTypes
  <2>13. ASSUME NEW c \in Clients, NEW t \in Tasks, stop_task(c, t) PROVE RuleInv'
    BY <2>13 DEF stop_task, Breach
  <2>14. ASSUME NEW c \in Clients, destroy(c) PROVE RuleInv'
    <3>1. Become(c, "clearing", NoCall) /\ breaches = {} /\ UNCHANGED <<writer, prefers_writers>>
      BY <2>14 DEF destroy, lock
    <3>2. \A u \in Threads \ {c} : pc'[u] = pc[u] /\ call'[u] = call[u]
      BY <3>1 DEF Become, TypeOK
    <3> QED
      BY <2>1, <2>3, <3>1, <3>2
  <2>15. ASSUME NEW c \in Clients, clear(c) PROVE RuleInv'
    <3>1. PICK n \in Names :
            tasks_[n] # None /\ (UNCHANGED <<pc, call, inbox>> \/ stop(c, tasks_[n], "clear"))
      BY <2>15 DEF clear
    <3>2. tasks_[n] \in Tasks /\ breaches = {} /\ UNCHANGED <<writer, prefers_writers>>
      BY <2>15, <3>1 DEF clear, lock, TypeOK
    <3>3. \A u \in Threads \ {c} : pc'[u] = pc[u] /\ call'[u] = call[u]
      <4>1. CASE UNCHANGED <<pc, call, inbox>>
        BY <4>1
      <4>2. CASE stop(c, tasks_[n], "clear")
        BY <2>1, <3>2, <4>2, StopTypes
      <4> QED
        BY <3>1, <4>1, <4>2
    <3> QED
      BY <2>1, <2>3, <3>2, <3>3
  <2>16. ASSUME NEW t \in Tasks, answer(t) PROVE RuleInv'
    <3>1. breaches = {} /\ UNCHANGED <<writer, prefers_writers, call>>
      BY <2>16 DEF answer, lock
    <3>2. pc' = pc \/ pc' = [pc EXCEPT ![handling[t].from] = "answered"]
      BY <2>16 DEF answer
    <3>3. \A u \in Threads : pc'[u] \in {pc[u], "answered"}
      BY <3>2 DEF TypeOK
    <3> QED
      BY <2>2, <3>1, <3>3 DEF RuleInv
  <2>17. ASSUME NEW t \in Tasks, take(t) \/ finish(t) PROVE RuleInv'
    BY <2>17 DEF take, finish, lock, RuleInv
  <2>18. CASE UNCHANGED vars
    BY <2>18 DEF vars, lock, RuleInv
  <2> QED
    BY <2>1, <2>5, <2>7, <2>8, <2>9, <2>10, <2>11, <2>12, <2>13, <2>14, <2>15, <2>16, <2>17, <2>18
       DEF Next, Continue, Locked, Loop
<1> QED
  BY <1>1, <1>2, Types, PTL DEF Safety

-----------------------------------------------------------------------------

(* The numbers of tasks have a least one. *)
LEMMA LeastTask ==
  ASSUME NEW W, W \cap Tasks # {}
  PROVE  \E t \in W \cap Tasks : \A u \in W \cap Tasks : ~(u < t)
<1> DEFINE R == OpToRel(<, Nat)
           T == W \cap Tasks
<1>1. T \subseteq Nat
  BY DEF Tasks
<1>2. IsWellFoundedOn(R, Nat)
  BY NatLessThanWellFounded
<1>3. PICK t \in T : \A u \in T : ~(<<u, t>> \in R)
  <2> HIDE DEF R
  <2> QED
    BY <1>1, <1>2, WFMin
<1>4. \A u \in T : u < t => <<u, t>> \in R
  BY <1>1 DEF OpToRel
<1> QED
  BY <1>3, <1>4

(* Where the rules are kept, no set of threads waits for itself. *)
LEMMA NoDeadlock ==
  ASSUME TypeOK, CallInv, WaitInv, LiveInv, RuleInv, breaches = {},
         NEW W \in SUBSET Threads
  PROVE  ~Deadlock(W)
<1> SUFFICES ASSUME Deadlock(W) PROVE FALSE
  OBVIOUS
<1>1. ASSUME NEW th \in W PROVE Abandoned(th) \/ WaitsFor(th) \cap W # {}
  BY <1>1 DEF Deadlock
<1>2. ASSUME NEW th \in W PROVE ~Abandoned(th)
  <2> SUFFICES ASSUME Abandoned(th) PROVE FALSE
    OBVIOUS
  <2>1. th \in Threads /\ pc[th] = "waiting" /\ life[call[th].task] # "running"
    BY DEF Abandoned
  <2>2. call[th].task \in Tasks /\ tasks_[call[th].name] = call[th].task
    BY <2>1 DEF WaitInv, Target
  <2>3. call[th].name \in Names
    BY <2>1, <2>2 DEF CallInv
  <2> QED
    BY <2>1, <2>2, <2>3 DEF LiveInv, Doomed, Referenced
<1>3. ASSUME NEW th \in W PROVE WaitsFor(th) \cap W # {}
  BY <1>1, <1>2
<1>4. None \notin W
  BY NoneAssumption
<1>5. W \cap Tasks = {}
  <2> SUFFICES ASSUME W \cap Tasks # {} PROVE FALSE
    OBVIOUS
  <2>1. PICK t \in W \cap Tasks : \A u \in W \cap Tasks : ~(u < t)
    BY LeastTask
  <2>2. CASE pc[t] = "waiting" /\ ~call[t].timed
    <3>1. WaitsFor(t) = {call[t].task}
      BY <2>2 DEF WaitsFor
    <3>2. call[t].task \in W \cap Tasks /\ call[t].task < t
      BY <1>3, <2>2, <3>1 DEF WaitInv, RuleInv
    <3> QED
      BY <2>1, <3>2
  <2>3. CASE pc[t] = "locking"
    <3>1. call[t].op \in Shared /\ ~prefers_writers /\ writer = None
      BY <2>3 DEF RuleInv
    <3>2. ~Owning(t)
      BY <3>1 DEF Owning, Exclusive, Shared
    <3>3. WaitsFor(t) = {None}
      BY <2>3, <3>1, <3>2 DEF WaitsFor
    <3> QED
      BY <1>3, <1>4, <3>3
  <2>4. CASE pc[t] \in {"out", "answered"} \/ (pc[t] = "waiting" /\ call[t].timed)
    <3>1. WaitsFor(t) = {}
      BY <2>4 DEF WaitsFor
    <3> QED
      BY <1>3, <3>1
  <2>5. call[t].timed \in BOOLEAN
    BY DEF TypeOK, Calls
  <2> QED
    BY <2>2, <2>3, <2>4, <2>5 DEF RuleInv
<1>6. ASSUME NEW th \in W PROVE pc[th] = "locking"
  <2>1. CASE pc[th] = "waiting" /\ ~call[th].timed
    <3>1. WaitsFor(th) = {call[th].task} /\ call[th].task \in Tasks
      BY <2>1 DEF WaitsFor, WaitInv
    <3> QED
      BY <1>3, <1>5, <3>1
  <2>2. CASE pc[th] = "stopping"
    <3>1. WaitsFor(th) = {call[th].task} /\ call[th].task \in Tasks
      BY <2>2 DEF WaitsFor, CallInv
    <3> QED
      BY <1>3, <1>5, <3>1
  <2>3. CASE pc[th] \in {"out", "answered", "clearing"} \/ (pc[th] = "waiting" /\ call[th].timed)
    <3>1. WaitsFor(th) = {}
      BY <2>3 DEF WaitsFor
    <3> QED
      BY <1>3, <3>1
  <2>4. call[th].timed \in BOOLEAN /\ pc[th] \in Positions
    BY DEF TypeOK, Calls
  <2> QED
    BY <2>1, <2>2, <2>3, <2>4 DEF Positions
<1>7. ASSUME NEW th \in W PROVE ~Owning(th)
  <2> SUFFICES ASSUME Owning(th) PROVE FALSE
    OBVIOUS
  <2>1. WaitsFor(th) = {None} \cup readers
    BY <1>6 DEF WaitsFor, RuleInv
  <2>2. PICK u \in W : u \in readers
    BY <1>3, <1>4, <2>1
  <2> QED
    BY <1>6, <2>2 DEF WaitInv, InRpc
<1>8. ASSUME NEW th \in W PROVE FALSE
  <2>1. WaitsFor(th) = {None} \cup {u \in Threads : prefers_writers /\ Owning(u)}
    BY <1>6, <1>7 DEF WaitsFor, RuleInv
  <2> QED
    BY <1>3, <1>4, <1>7, <2>1
<1> QED
  BY <1>8 DEF Deadlock

(* The class is thread-safe for callers that keep to the rules: then       *)
(* nobody waits for himself through the lock, an rpc or the end of a task, *)
(* for any clients, tasks and names, and whichever the lock prefers.       *)
THEOREM RulesPreventDeadlock == Spec => []DisciplinedNeverStuck
<1>1. TypeOK /\ CallInv /\ WaitInv /\ LiveInv /\ RuleInv => DisciplinedNeverStuck
  BY NoDeadlock DEF DisciplinedNeverStuck, Stuck
<1> QED
  BY <1>1, Types, Waits, Lives, Rules, PTL DEF Spec

-----------------------------------------------------------------------------

(* The message is added to t's queue. *)
Posted(t, message) ==
  /\ inbox'[t] = Append(inbox[t], message)
  /\ \A u \in Tasks \ {t} : inbox'[u] = inbox[u]

(* No promise is given, kept or given up. *)
PromisesStay ==
  /\ handling' = handling
  /\ \A th \in Threads :
       pc[th] = "waiting" \/ pc'[th] = "waiting" => pc'[th] = pc[th] /\ call'[th] = call[th]

(* A step leaves the queues alone, or ... *)
QueuesStay ==
  /\ PromisesStay
  /\ inbox' = inbox
  /\ \A t \in Tasks : life[t] = "running" => life'[t] = "running"

(* ... it sends a message without a promise to a task that somebody has a  *)
(* pointer to, or that is stopped directly.                                *)
Sends ==
  /\ PromisesStay
  /\ life' = life
  /\ \E t \in Tasks, message \in Messages :
       /\ Posted(t, message)
       /\ message.stop \/ message.from = None
       /\ Referenced(t, tasks_, held) \/ "stopped" \in breaches'

(* What the drop of a pointer that somebody had does to the queues. *)
LEMMA DropSends ==
  ASSUME TypeOK, NEW th \in Threads, pc[th] # "waiting",
         NEW t \in Tasks \cup {None}, t # None => Referenced(t, tasks_, held),
         Drop(th, t, "stop"), UNCHANGED <<handling, life>>
  PROVE  QueuesStay \/ Sends
<1>1. PromisesStay
  <2>1. pc'[th] # "waiting" /\ \A u \in Threads \ {th} : pc'[u] = pc[u] /\ call'[u] = call[u]
    BY DropTypes
  <2> QED
    BY <2>1 DEF PromisesStay
<1>2. [from |-> th, stop |-> TRUE] \in Messages
  BY DEF Messages
<1>3. CASE inbox' = inbox
  BY <1>1, <1>3 DEF QueuesStay
<1>4. CASE t \in Tasks /\ Posted(t, [from |-> th, stop |-> TRUE])
  BY <1>1, <1>2, <1>4, NoneAssumption DEF Sends, Threads
<1> QED
  BY <1>3, <1>4, DropTypes DEF Posted

(* The same for stop(). *)
LEMMA StopSends ==
  ASSUME TypeOK, NEW th \in Threads, pc[th] # "waiting", NEW t \in Tasks, NEW op \in {"stop", "clear"},
         Referenced(t, tasks_, held), stop(th, t, op), UNCHANGED <<handling, life>>
  PROVE  QueuesStay \/ Sends
<1>1. PromisesStay
  <2>1. pc'[th] # "waiting" /\ \A u \in Threads \ {th} : pc'[u] = pc[u] /\ call'[u] = call[u]
    <3>1. CASE Leave(th)
      BY <3>1, LeaveTypes
    <3>2. CASE Become(th, "stopping", [NoCall EXCEPT !.op = op, !.task = t])
      BY <3>2 DEF Become, TypeOK
    <3> QED
      BY <3>1, <3>2 DEF stop
  <2> QED
    BY <2>1 DEF PromisesStay
<1>2. [from |-> th, stop |-> TRUE] \in Messages
  BY DEF Messages
<1>3. CASE inbox' = inbox
  BY <1>1, <1>3 DEF QueuesStay
<1>4. CASE Posted(t, [from |-> th, stop |-> TRUE])
  BY <1>1, <1>2, <1>4 DEF Sends
<1> QED
  BY <1>3, <1>4, StopTypes DEF Posted

(* Every other step touches a queue or a promise: that of a task's loop,   *)
(* of rpc_event() and of its timeout.                                      *)
LEMMA QueueSteps ==
  ASSUME TypeOK, CallInv, [Next]_vars
  PROVE  \/ \E t \in Tasks : take(t) \/ answer(t) \/ finish(t)
         \/ \E th \in Threads : rpc_event(th) \/ timeout(th)
         \/ QueuesStay
         \/ Sends
<1>1. \A c \in Clients : c \in Threads
  BY DEF Threads
<1>2. ASSUME UNCHANGED <<inbox, handling, life>>,
             NEW th \in Threads, pc[th] # "waiting", pc'[th] # "waiting",
             \A u \in Threads \ {th} : pc'[u] = pc[u] /\ call'[u] = call[u]
      PROVE  QueuesStay
  BY <1>2 DEF QueuesStay, PromisesStay
<1>3. ASSUME NEW th \in Threads, NEW op, NEW name, NEW task, NEW timed,
             Begin(th, op, name, task, timed)
      PROVE  QueuesStay
  <2>1. /\ pc[th] = "out" /\ UNCHANGED <<inbox, handling, life>>
        /\ Become(th, "locking", [op |-> op, name |-> name, task |-> task, timed |-> timed])
    BY <1>3 DEF Begin, Free, loops
  <2>2. pc'[th] = "locking" /\ \A u \in Threads \ {th} : pc'[u] = pc[u] /\ call'[u] = call[u]
    BY <2>1 DEF Become, TypeOK
  <2> QED
    BY <1>2, <2>1, <2>2
<1>4. ASSUME NEW th \in Threads, Call(th) PROVE QueuesStay
  BY <1>3, <1>4 DEF Call
<1>5. ASSUME NEW th \in Threads, throw(th) \/ return(th) \/ (th \in Clients /\ (get_task(th) \/ cleared(th)))
      PROVE  QueuesStay
  <2>1. pc[th] # "waiting" /\ Leave(th) /\ UNCHANGED <<inbox, handling, life>>
    BY <1>5 DEF throw, return, get_task, cleared, Locking, loops
  <2> QED
    BY <1>2, <2>1, LeaveTypes
<1>6. ASSUME NEW th \in Threads, send_event(th) PROVE Sends
  <2> DEFINE message == [from |-> None, stop |-> FALSE]
  <2>1. /\ pc[th] = "locking" /\ call[th].name \in Names /\ Leave(th)
        /\ Post(Target(th), message) /\ UNCHANGED <<handling, life>>
    BY <1>6 DEF send_event, Locking, CallInv
  <2>2. Target(th) \in Tasks /\ Referenced(Target(th), tasks_, held)
    BY <1>6, <2>1 DEF send_event, Target, Referenced, TypeOK
  <2>3. message \in Messages
    BY DEF Messages
  <2>4. Posted(Target(th), message)
    BY <2>1, <2>2, <2>3, PostTypes DEF Posted
  <2>5. PromisesStay
    BY <2>1, LeaveTypes DEF PromisesStay
  <2> QED
    BY <2>1, <2>2, <2>3, <2>4, <2>5 DEF Sends
<1>7. ASSUME NEW c \in Clients, NEW keep \in BOOLEAN, register_task(c, keep)
      PROVE  QueuesStay \/ Sends
  <2>1. /\ pc[c] = "locking" /\ call[c].name \in Names
        /\ Drop(c, tasks_[call[c].name], "stop") /\ UNCHANGED <<handling, life>>
    BY <1>1, <1>7 DEF register_task, DropLocked, Locking, CallInv
  <2>2. tasks_[call[c].name] \in Tasks \cup {None} /\ Referenced(tasks_[call[c].name], tasks_, held)
    BY <2>1 DEF Referenced, TypeOK
  <2> QED
    BY <1>1, <2>1, <2>2, DropSends
<1>8. ASSUME NEW th \in Threads, unregister_task(th) PROVE QueuesStay \/ Sends
  <2>1. /\ pc[th] = "locking" /\ call[th].name \in Names
        /\ Drop(th, tasks_[call[th].name], "stop") /\ UNCHANGED <<handling, life>>
    BY <1>8 DEF unregister_task, DropLocked, Locking, CallInv
  <2>2. tasks_[call[th].name] \in Tasks \cup {None} /\ Referenced(tasks_[call[th].name], tasks_, held)
    BY <2>1 DEF Referenced, TypeOK
  <2> QED
    BY <2>1, <2>2, DropSends
<1>9. ASSUME NEW c \in Clients, NEW t \in Tasks, release(c, t) \/ stop_task(c, t)
      PROVE  QueuesStay \/ Sends
  <2>1. /\ pc[c] = "out" /\ Referenced(t, tasks_, held) /\ UNCHANGED <<handling, life>>
        /\ Drop(c, t, "stop") \/ stop(c, t, "stop")
    BY <1>9 DEF release, stop_task, Free, Referenced
  <2> QED
    BY <1>1, <2>1, DropSends, StopSends
<1>10. ASSUME NEW c \in Clients, destroy(c) PROVE QueuesStay
  <2>1. pc[c] = "out" /\ Become(c, "clearing", NoCall) /\ UNCHANGED <<inbox, handling, life>>
    BY <1>10 DEF destroy, loops
  <2>2. pc'[c] = "clearing" /\ \A u \in Threads \ {c} : pc'[u] = pc[u] /\ call'[u] = call[u]
    BY <1>1, <2>1 DEF Become, TypeOK
  <2> QED
    BY <1>1, <1>2, <2>1, <2>2
<1>11. ASSUME NEW c \in Clients, clear(c) PROVE QueuesStay \/ Sends
  <2>1. PICK n \in Names :
          tasks_[n] # None /\ (UNCHANGED <<pc, call, inbox>> \/ stop(c, tasks_[n], "clear"))
    BY <1>11 DEF clear
  <2>2. tasks_[n] \in Tasks /\ Referenced(tasks_[n], tasks_, held)
    BY <2>1 DEF Referenced, TypeOK
  <2>3. pc[c] = "clearing" /\ UNCHANGED <<handling, life>>
    BY <1>11 DEF clear
  <2> QED
    BY <1>1, <1>2, <2>1, <2>2, <2>3, StopSends
<1>12. ASSUME NEW th \in Threads, join(th) PROVE QueuesStay
  <2>1. /\ pc[th] = "stopping" /\ UNCHANGED <<inbox, handling>>
        /\ Become(th, "clearing", NoCall) \/ Leave(th)
        /\ life[call[th].task] = "ended"
        /\ life' = [life EXCEPT ![call[th].task] = "joined"]
    BY <1>12 DEF join
  <2>2. pc'[th] # "waiting" /\ \A u \in Threads \ {th} : pc'[u] = pc[u] /\ call'[u] = call[u]
    BY <2>1 DEF Become, Leave, TypeOK
  <2>3. \A t \in Tasks : life[t] = "running" => life'[t] = "running"
    BY <2>1 DEF TypeOK
  <2> QED
    BY <2>1, <2>2, <2>3 DEF QueuesStay, PromisesStay
<1>13. CASE UNCHANGED vars
  BY <1>13 DEF vars, loops, QueuesStay, PromisesStay
<1> QED
  BY <1>1, <1>4, <1>5, <1>6, <1>7, <1>8, <1>9, <1>10, <1>11, <1>12, <1>13 DEF Next, Continue, Locked, Loop

(* What is in a queue after a message was added to it. *)
LEMMA PostedAt ==
  ASSUME TypeOK, NEW t \in Tasks, NEW message \in Messages, Posted(t, message), NEW u \in Tasks
  PROVE  \/ inbox'[u] = inbox[u]
         \/ /\ u = t
            /\ Len(inbox[t]) \in Nat
            /\ Len(inbox'[t]) = Len(inbox[t]) + 1
            /\ inbox'[t][Len(inbox[t]) + 1] = message
            /\ \A i \in 1..Len(inbox[t]) : inbox'[t][i] = inbox[t][i]
<1>1. inbox[t] \in Seq(Messages)
  BY DEF TypeOK
<1> QED
  BY <1>1 DEF Posted

(* What is in it after its first message was taken. *)
LEMMA TakenAt ==
  ASSUME TypeOK, NEW t \in Tasks, inbox[t] # <<>>, inbox' = [inbox EXCEPT ![t] = Tail(@)]
  PROVE  /\ Len(inbox[t]) \in Nat \ {0} /\ Len(inbox'[t]) = Len(inbox[t]) - 1
         /\ Head(inbox[t]) = inbox[t][1]
         /\ \A i \in 1..Len(inbox'[t]) : i + 1 \in 1..Len(inbox[t]) /\ inbox'[t][i] = inbox[t][i + 1]
         /\ \A u \in Tasks \ {t} : inbox'[u] = inbox[u]
<1>1. inbox[t] \in Seq(Messages) /\ inbox'[t] = Tail(inbox[t])
  BY DEF TypeOK
<1>2. \A u \in Tasks \ {t} : inbox'[u] = inbox[u]
  BY DEF TypeOK
<1>3. Len(inbox[t]) \in Nat \ {0}
  BY <1>1
<1>4. /\ Len(Tail(inbox[t])) = Len(inbox[t]) - 1
      /\ Head(inbox[t]) = inbox[t][1]
      /\ \A i \in 1..(Len(inbox[t]) - 1) : Tail(inbox[t])[i] = inbox[t][i + 1]
  BY <1>1, <1>3
<1>5. Len(inbox'[t]) = Len(inbox[t]) - 1
  BY <1>1, <1>4
<1>6. ASSUME NEW i \in 1..Len(inbox'[t])
      PROVE  i + 1 \in 1..Len(inbox[t]) /\ inbox'[t][i] = inbox[t][i + 1]
  <2>1. i \in 1..(Len(inbox[t]) - 1)
    BY <1>5
  <2>2. Tail(inbox[t])[i] = inbox[t][i + 1]
    BY <1>4, <2>1
  <2>3. i + 1 \in 1..Len(inbox[t])
    BY <1>3, <2>1
  <2> QED
    BY <1>1, <2>2, <2>3
<1> QED
  BY <1>2, <1>3, <1>4, <1>5, <1>6

(* Nothing is behind a kStop, and nothing in the queue of a task that has  *)
(* ended, where nobody stops a task directly.                              *)
LastInv ==
  "stopped" \notin breaches =>
    \A t \in Tasks :
      /\ \A i \in 1..Len(inbox[t]) : inbox[t][i].stop => i = Len(inbox[t])
      /\ life[t] # "running" => inbox[t] = <<>>

(* No step takes a breach of the rules back. *)
LEMMA BreachesStay == ASSUME [Next]_vars PROVE breaches \subseteq breaches'
<1>1. ASSUME NEW th \in Threads, Call(th) PROVE breaches \subseteq breaches'
  BY <1>1 DEF Call, Begin, Breach
<1>2. ASSUME NEW th \in Threads, Continue(th) PROVE breaches \subseteq breaches'
  BY <1>2 DEF Continue, Locked, register_task, unregister_task, DropLocked, get_task, send_event,
              rpc_event, throw, return, timeout, join, Breach
<1>3. ASSUME NEW c \in Clients, NEW t \in Tasks, release(c, t) \/ stop_task(c, t)
      PROVE  breaches \subseteq breaches'
  BY <1>3 DEF release, stop_task, Breach
<1>4. ASSUME NEW c \in Clients, destroy(c) \/ clear(c) \/ cleared(c) PROVE breaches \subseteq breaches'
  BY <1>4 DEF destroy, clear, cleared
<1>5. ASSUME NEW t \in Tasks, Loop(t) PROVE breaches \subseteq breaches'
  BY <1>5 DEF Loop, take, answer, finish
<1>6. CASE UNCHANGED vars
  BY <1>6 DEF vars
<1> QED
  BY <1>1, <1>2, <1>3, <1>4, <1>5, <1>6 DEF Next

(* A kStop is sent only when the last pointer is gone, and then nobody can *)
(* send anything after it.                                                 *)
LEMMA LastOnes == Safety => []LastInv
<1>1. Init => LastInv
  BY DEF Init, LastInv
<1>2. TypeOK /\ CallInv /\ LiveInv /\ LastInv /\ [Next]_vars => LastInv'
  <2> SUFFICES ASSUME TypeOK, CallInv, LiveInv, LastInv, [Next]_vars, "stopped" \notin breaches',
                      NEW t \in Tasks
               PROVE  /\ \A i \in 1..Len(inbox'[t]) : inbox'[t][i].stop => i = Len(inbox'[t])
                      /\ life'[t] # "running" => inbox'[t] = <<>>
    BY DEF LastInv
  <2>1. /\ "stopped" \notin breaches
        /\ \A u \in Tasks : Doomed(u) => ~Referenced(u, tasks_, held)
        /\ \A i \in 1..Len(inbox[t]) : inbox[t][i].stop => i = Len(inbox[t])
        /\ life[t] # "running" => inbox[t] = <<>>
    BY BreachesStay DEF LiveInv, LastInv
  <2>2. ASSUME NEW target \in Tasks, NEW message \in Messages, Posted(target, message), life' = life,
               Referenced(target, tasks_, held)
        PROVE  /\ \A i \in 1..Len(inbox'[t]) : inbox'[t][i].stop => i = Len(inbox'[t])
               /\ life'[t] # "running" => inbox'[t] = <<>>
    <3>1. life[target] = "running" /\ \A i \in 1..Len(inbox[target]) : ~inbox[target][i].stop
      BY <2>1, <2>2 DEF Doomed
    <3>2. CASE inbox'[t] = inbox[t]
      BY <2>1, <2>2, <3>2
    <3>3. CASE /\ t = target
               /\ Len(inbox[t]) \in Nat
               /\ Len(inbox'[t]) = Len(inbox[t]) + 1
               /\ \A i \in 1..Len(inbox[t]) : inbox'[t][i] = inbox[t][i]
      BY <2>2, <3>1, <3>3
    <3> QED
      BY <2>2, <3>2, <3>3, PostedAt
  <2>3. CASE QueuesStay
    BY <2>1, <2>3 DEF QueuesStay
  <2>4. CASE Sends
    BY <2>2, <2>4 DEF Sends
  <2>5. ASSUME NEW th \in Threads, rpc_event(th)
        PROVE  /\ \A i \in 1..Len(inbox'[t]) : inbox'[t][i].stop => i = Len(inbox'[t])
               /\ life'[t] # "running" => inbox'[t] = <<>>
    <3> DEFINE message == [from |-> th, stop |-> FALSE]
    <3>1. call[th].name \in Names /\ Post(Target(th), message) /\ life' = life
      BY <2>5 DEF rpc_event, Locking, CallInv
    <3>2. Target(th) \in Tasks /\ Referenced(Target(th), tasks_, held)
      BY <2>5, <3>1 DEF rpc_event, Target, Referenced, TypeOK
    <3>3. message \in Messages
      BY DEF Messages
    <3>4. Posted(Target(th), message)
      BY <3>1, <3>2, <3>3, PostTypes DEF Posted
    <3> QED
      BY <2>2, <3>1, <3>2, <3>3, <3>4
  <2>6. ASSUME NEW th \in Threads, timeout(th)
        PROVE  /\ \A i \in 1..Len(inbox'[t]) : inbox'[t][i].stop => i = Len(inbox'[t])
               /\ life'[t] # "running" => inbox'[t] = <<>>
    <3>1. PICK u :
            /\ life' = life
            /\ inbox' = [inbox EXCEPT ![u] = [i \in DOMAIN @ |-> Disown(@[i], th)]]
      BY <2>6 DEF timeout
    <3>2. inbox[t] \in Seq(Messages)
      BY DEF TypeOK
    <3>3. CASE t # u
      BY <2>1, <3>1, <3>3 DEF TypeOK
    <3>4. CASE t = u
      <4>1. inbox'[t] = [i \in 1..Len(inbox[t]) |-> Disown(inbox[t][i], th)]
        BY <3>1, <3>2, <3>4 DEF TypeOK
      <4>2. \A i \in 1..Len(inbox[t]) : inbox'[t][i].stop = inbox[t][i].stop
        <5>1. \A message \in Messages : Disown(message, th).stop = message.stop
          BY DEF Disown, Messages
        <5> QED
          BY <3>2, <4>1, <5>1
      <4>3. Len(inbox'[t]) = Len(inbox[t])
        BY <3>2, <4>1
      <4>4. inbox[t] = <<>> => inbox'[t] = <<>>
        BY <4>1
      <4> QED
        BY <2>1, <3>1, <4>2, <4>3, <4>4
    <3> QED
      BY <3>3, <3>4
  <2>7. ASSUME NEW u \in Tasks, take(u) \/ finish(u)
        PROVE  /\ \A i \in 1..Len(inbox'[t]) : inbox'[t][i].stop => i = Len(inbox'[t])
               /\ life'[t] # "running" => inbox'[t] = <<>>
    <3>1. /\ life[u] = "running" /\ inbox[u] # <<>> /\ inbox' = [inbox EXCEPT ![u] = Tail(@)]
          /\ life' = life \/ (Head(inbox[u]).stop /\ life' = [life EXCEPT ![u] = "ended"])
      BY <2>7 DEF take, finish
    <3>2. CASE t # u
      BY <2>1, <3>1, <3>2, TakenAt DEF TypeOK
    <3>3. CASE t = u
      <4>1. /\ Len(inbox[t]) \in Nat \ {0} /\ Len(inbox'[t]) = Len(inbox[t]) - 1
            /\ Head(inbox[t]) = inbox[t][1]
            /\ \A i \in 1..Len(inbox'[t]) : i + 1 \in 1..Len(inbox[t]) /\ inbox'[t][i] = inbox[t][i + 1]
        BY <3>1, <3>3, TakenAt
      <4>2. \A i \in 1..Len(inbox'[t]) : inbox'[t][i].stop => i = Len(inbox'[t])
        BY <2>1, <4>1
      <4>3. life'[t] # "running" => inbox'[t] = <<>>
        <5>1. SUFFICES ASSUME life'[t] # "running" PROVE inbox'[t] = <<>>
          OBVIOUS
        <5>2. inbox[t][1].stop
          BY <3>1, <3>3, <4>1, <5>1 DEF TypeOK
        <5>3. 1 \in 1..Len(inbox[t])
          BY <4>1
        <5>4. Len(inbox[t]) = 1
          BY <2>1, <5>2, <5>3
        <5>5. inbox'[t] \in Seq(Messages) /\ Len(inbox'[t]) = 0
          <6>1. inbox[t] \in Seq(Messages) /\ inbox'[t] = Tail(inbox[t])
            BY <3>1, <3>3 DEF TypeOK
          <6> QED
            BY <3>1, <3>3, <4>1, <5>4, <6>1
        <5> QED
          BY <5>5
      <4> QED
        BY <4>2, <4>3
    <3> QED
      BY <3>2, <3>3
  <2>8. ASSUME NEW u \in Tasks, answer(u)
        PROVE  /\ \A i \in 1..Len(inbox'[t]) : inbox'[t][i].stop => i = Len(inbox'[t])
               /\ life'[t] # "running" => inbox'[t] = <<>>
    BY <2>1, <2>8 DEF answer
  <2> QED
    BY <2>3, <2>4, <2>5, <2>6, <2>7, <2>8, QueueSteps
<1> QED
  BY <1>1, <1>2, Types, Lives, PTL DEF Safety

-----------------------------------------------------------------------------

(* The event in the i-th place of t's queue, and the one that t handles,   *)
(* carry a promise to th.                                                  *)
Queued(t, i, th) == ~inbox[t][i].stop /\ inbox[t][i].from = th

Handled(t, th) == ~handling[t].stop /\ handling[t].from = th

(* A promise is to a thread that waits for it, and that has been given     *)
(* just this one.                                                          *)
PromiseInv ==
  \A t \in Tasks :
    /\ handling[t] # Idle => ~handling[t].stop
    /\ \A th \in Threads :
         /\ Handled(t, th) =>
              /\ pc[th] = "waiting" /\ call[th].task = t
              /\ \A i \in 1..Len(inbox[t]) : ~Queued(t, i, th)
         /\ \A i \in 1..Len(inbox[t]) : Queued(t, i, th) =>
              /\ pc[th] = "waiting" /\ call[th].task = t
              /\ \A j \in 1..Len(inbox[t]) : Queued(t, j, th) => j = i

(* The promises are right after a step that leaves those to each thread as *)
(* they were, or gives it one where it had none.                           *)
LEMMA SamePromises ==
  ASSUME PromiseInv, NEW t \in Tasks, NEW th \in Threads,
         Handled(t, th) \/ (\E i \in 1..Len(inbox[t]) : Queued(t, i, th)) =>
           pc'[th] = "waiting" /\ call'[th] = call[th],
         Len(inbox'[t]) = Len(inbox[t]),
         Handled(t, th)' => Handled(t, th),
         \A i \in 1..Len(inbox[t]) : Queued(t, i, th)' => Queued(t, i, th)
  PROVE  /\ Handled(t, th)' =>
              /\ pc'[th] = "waiting" /\ call'[th].task = t
              /\ \A i \in 1..Len(inbox'[t]) : ~Queued(t, i, th)'
         /\ \A i \in 1..Len(inbox'[t]) : Queued(t, i, th)' =>
              /\ pc'[th] = "waiting" /\ call'[th].task = t
              /\ \A j \in 1..Len(inbox'[t]) : Queued(t, j, th)' => j = i
<1> USE DEF PromiseInv
<1>1. Handled(t, th)' => pc'[th] = "waiting" /\ call'[th].task = t
  OBVIOUS
<1>2. \A i \in 1..Len(inbox'[t]) : Queued(t, i, th)' => pc'[th] = "waiting" /\ call'[th].task = t
  OBVIOUS
<1>3. \A i \in 1..Len(inbox'[t]) : ~(Handled(t, th)' /\ Queued(t, i, th)')
  OBVIOUS
<1>4. \A i, j \in 1..Len(inbox'[t]) : Queued(t, i, th)' /\ Queued(t, j, th)' => j = i
  OBVIOUS
<1> QED
  BY <1>1, <1>2, <1>3, <1>4

(* Each promise that is to be kept is kept for the thread that waits for   *)
(* it, and no other event carries one.                                     *)
LEMMA Promises == Safety => []PromiseInv
<1>1. Init => PromiseInv
  BY DEF Init, PromiseInv, Queued, Handled, Idle
<1>2. TypeOK /\ CallInv /\ PromiseInv /\ [Next]_vars => PromiseInv'
  <2> SUFFICES ASSUME TypeOK, CallInv, PromiseInv, [Next]_vars, NEW t \in Tasks
               PROVE  /\ handling'[t] # Idle => ~handling'[t].stop
                      /\ \A th \in Threads :
                           /\ Handled(t, th)' =>
                                /\ pc'[th] = "waiting" /\ call'[th].task = t
                                /\ \A i \in 1..Len(inbox'[t]) : ~Queued(t, i, th)'
                           /\ \A i \in 1..Len(inbox'[t]) : Queued(t, i, th)' =>
                                /\ pc'[th] = "waiting" /\ call'[th].task = t
                                /\ \A j \in 1..Len(inbox'[t]) : Queued(t, j, th)' => j = i
    BY DEF PromiseInv, Queued, Handled
  <2>1. handling[t] # Idle => ~handling[t].stop
    BY DEF PromiseInv
  <2>2. None \notin Threads
    BY NoneAssumption
  <2> DEFINE Right(th) ==
        /\ Handled(t, th)' =>
             /\ pc'[th] = "waiting" /\ call'[th].task = t
             /\ \A i \in 1..Len(inbox'[t]) : ~Queued(t, i, th)'
        /\ \A i \in 1..Len(inbox'[t]) : Queued(t, i, th)' =>
             /\ pc'[th] = "waiting" /\ call'[th].task = t
             /\ \A j \in 1..Len(inbox'[t]) : Queued(t, j, th)' => j = i
  <2> SUFFICES (handling'[t] # Idle => ~handling'[t].stop) /\ \A th \in Threads : Right(th)
    OBVIOUS
  <2>3. ASSUME NEW th \in Threads,
               Handled(t, th) \/ (\E i \in 1..Len(inbox[t]) : Queued(t, i, th)) =>
                 pc'[th] = "waiting" /\ call'[th] = call[th],
               Len(inbox'[t]) = Len(inbox[t]),
               Handled(t, th)' => Handled(t, th),
               \A i \in 1..Len(inbox[t]) : Queued(t, i, th)' => Queued(t, i, th)
        PROVE  Right(th)
    BY <2>3, SamePromises
  <2>4. ASSUME NEW th \in Threads, inbox'[t] = inbox[t], handling'[t] = handling[t],
               pc[th] = "waiting" => pc'[th] = "waiting" /\ call'[th] = call[th]
        PROVE  Right(th)
    <3>1. Handled(t, th) \/ (\E i \in 1..Len(inbox[t]) : Queued(t, i, th)) => pc[th] = "waiting"
      BY DEF PromiseInv
    <3>2. /\ Handled(t, th)' => Handled(t, th)
          /\ \A i \in 1..Len(inbox[t]) : Queued(t, i, th)' => Queued(t, i, th)
      BY <2>4 DEF Handled, Queued
    <3> HIDE DEF Right
    <3> QED
      BY <2>3, <2>4, <3>1, <3>2
  <2>5. ASSUME NEW th \in Threads, NEW message \in Messages, NEW target \in Tasks,
               Posted(target, message), handling' = handling,
               message.stop \/ message.from # th,
               pc[th] = "waiting" => pc'[th] = "waiting" /\ call'[th] = call[th]
        PROVE  Right(th)
    <3>1. CASE inbox'[t] = inbox[t]
      <4> HIDE DEF Right
      <4> QED
        BY <2>4, <2>5, <3>1
    <3>2. CASE /\ Len(inbox[t]) \in Nat
               /\ Len(inbox'[t]) = Len(inbox[t]) + 1
               /\ inbox'[t][Len(inbox[t]) + 1] = message
               /\ \A i \in 1..Len(inbox[t]) : inbox'[t][i] = inbox[t][i]
      <4>1. \A i \in 1..Len(inbox'[t]) : Queued(t, i, th)' => i \in 1..Len(inbox[t]) /\ Queued(t, i, th)
        BY <2>5, <3>2 DEF Queued
      <4>2. Handled(t, th)' => Handled(t, th)
        BY <2>5 DEF Handled
      <4> QED
        BY <2>5, <4>1, <4>2 DEF PromiseInv
    <3> QED
      BY <2>5, <3>1, <3>2, PostedAt
  <2>6. CASE QueuesStay
    <3> HIDE DEF Right
    <3> QED
      BY <2>1, <2>4, <2>6 DEF QueuesStay, PromisesStay
  <2>7. CASE Sends
    <3>1. PICK target \in Tasks, message \in Messages :
            Posted(target, message) /\ (message.stop \/ message.from = None)
      BY <2>7 DEF Sends
    <3> HIDE DEF Right
    <3> QED
      BY <2>1, <2>2, <2>5, <2>7, <3>1 DEF Sends, PromisesStay
  <2>8. ASSUME NEW u \in Threads, rpc_event(u)
        PROVE  (handling'[t] # Idle => ~handling'[t].stop) /\ \A th \in Threads : Right(th)
    <3> DEFINE message == [from |-> u, stop |-> FALSE]
               record == [call[u] EXCEPT !.task = Target(u)]
    <3>1. /\ pc[u] = "locking" /\ Post(Target(u), message) /\ handling' = handling
          /\ Become(u, "waiting", record)
      BY <2>8 DEF rpc_event, Locking
    <3>2. Target(u) \in Tasks
      BY <2>8 DEF rpc_event, Locking, CallInv, Target, TypeOK
    <3>3. message \in Messages /\ message.from = u
      BY DEF Messages
    <3>4. record.task = Target(u)
      <4>1. call[u] \in Calls
        BY DEF TypeOK
      <4> QED
        BY <3>2, <4>1 DEF Calls
    <3> HIDE DEF record
    <3>5. Posted(Target(u), message)
      BY <3>1, <3>2, <3>3, PostTypes DEF Posted
    <3>6. /\ pc'[u] = "waiting" /\ call'[u] = record
          /\ \A v \in Threads \ {u} : pc'[v] = pc[v] /\ call'[v] = call[v]
      BY <3>1 DEF Become, TypeOK
    <3>7. ASSUME NEW th \in Threads, th # u PROVE Right(th)
      <4> HIDE DEF Right
      <4> QED
        BY <2>5, <3>1, <3>2, <3>3, <3>5, <3>6, <3>7
    <3>8. Right(u)
      <4>1. ~Handled(t, u)' /\ \A i \in 1..Len(inbox[t]) : ~Queued(t, i, u)
        BY <3>1 DEF PromiseInv, Handled
      <4>2. CASE inbox'[t] = inbox[t]
        BY <4>1, <4>2 DEF Queued
      <4>3. CASE /\ t = Target(u)
                 /\ Len(inbox[t]) \in Nat
                 /\ Len(inbox'[t]) = Len(inbox[t]) + 1
                 /\ \A i \in 1..Len(inbox[t]) : inbox'[t][i] = inbox[t][i]
        <5>1. \A i \in 1..Len(inbox'[t]) : Queued(t, i, u)' => i = Len(inbox[t]) + 1
          BY <4>1, <4>3 DEF Queued
        <5> QED
          BY <3>4, <3>6, <4>1, <4>3, <5>1
      <4> QED
        BY <3>2, <3>3, <3>5, <4>2, <4>3, PostedAt
    <3> HIDE DEF Right
    <3> QED
      BY <2>1, <3>1, <3>7, <3>8
  <2>9. ASSUME NEW u \in Threads, timeout(u)
        PROVE  (handling'[t] # Idle => ~handling'[t].stop) /\ \A th \in Threads : Right(th)
    <3>1. PICK w :
            /\ w = call[u].task
            /\ inbox' = [inbox EXCEPT ![w] = [i \in DOMAIN @ |-> Disown(@[i], u)]]
            /\ handling' = [handling EXCEPT ![w] = Disown(@, u)]
            /\ Leave(u)
      BY <2>9 DEF timeout
    <3>2. \A v \in Threads \ {u} : pc'[v] = pc[v] /\ call'[v] = call[v]
      BY <3>1, LeaveTypes
    <3>3. ASSUME NEW m \in Messages
          PROVE  /\ Disown(m, u).stop = m.stop
                 /\ \A v \in Threads : Disown(m, u).from = v => v # u /\ m.from = v
                 /\ m.from # u => Disown(m, u) = m
      BY <2>2 DEF Disown, Messages
    <3>4. inbox[t] \in Seq(Messages) /\ handling[t] \in Messages
      BY DEF TypeOK
    <3>5. CASE t # w
      <4>1. inbox'[t] = inbox[t] /\ handling'[t] = handling[t]
        BY <3>1, <3>5 DEF TypeOK
      <4>2. ~Handled(t, u) /\ \A i \in 1..Len(inbox[t]) : ~Queued(t, i, u)
        BY <3>1, <3>5 DEF PromiseInv
      <4>3. Right(u)
        BY <4>1, <4>2 DEF Handled, Queued
      <4> HIDE DEF Right
      <4> QED
        BY <2>1, <2>4, <3>2, <4>1, <4>3
    <3>6. CASE t = w
      <4>1. /\ inbox'[t] = [i \in 1..Len(inbox[t]) |-> Disown(inbox[t][i], u)]
            /\ handling'[t] = Disown(handling[t], u)
        <5>1. inbox'[t] = [i \in DOMAIN inbox[t] |-> Disown(inbox[t][i], u)]
          BY <3>1, <3>6 DEF TypeOK
        <5>2. handling'[t] = Disown(handling[t], u)
          BY <3>1, <3>6 DEF TypeOK
        <5>3. DOMAIN inbox[t] = 1..Len(inbox[t])
          BY <3>4
        <5> QED
          BY <5>1, <5>2, <5>3
      <4>2. Len(inbox'[t]) = Len(inbox[t])
        BY <3>4, <4>1
      <4>3. ASSUME NEW th \in Threads
            PROVE  /\ Handled(t, th)' => th # u /\ Handled(t, th)
                   /\ \A i \in 1..Len(inbox[t]) : Queued(t, i, th)' => th # u /\ Queued(t, i, th)
        <5>1. Handled(t, th)' => th # u /\ Handled(t, th)
          BY <3>3, <3>4, <4>1 DEF Handled
        <5>2. ASSUME NEW i \in 1..Len(inbox[t]), Queued(t, i, th)' PROVE th # u /\ Queued(t, i, th)
          <6>1. inbox'[t][i] = Disown(inbox[t][i], u) /\ inbox[t][i] \in Messages
            BY <3>4, <4>1
          <6> QED
            BY <3>3, <5>2, <6>1 DEF Queued
        <5> QED
          BY <5>1, <5>2
      <4>4. ASSUME NEW th \in Threads, th # u PROVE Right(th)
        <5>1. pc'[th] = pc[th] /\ call'[th] = call[th]
          BY <3>2, <4>4
        <5>2. Handled(t, th) \/ (\E i \in 1..Len(inbox[t]) : Queued(t, i, th)) => pc[th] = "waiting"
          BY DEF PromiseInv
        <5> HIDE DEF Right
        <5> QED
          BY <2>3, <4>2, <4>3, <5>1, <5>2
      <4>5. Right(u)
        BY <4>2, <4>3
      <4>6. handling'[t] # Idle => ~handling'[t].stop
        <5>1. Idle.from # u
          BY <2>2 DEF Idle
        <5> QED
          BY <2>1, <3>3, <3>4, <4>1, <5>1
      <4> HIDE DEF Right
      <4> QED
        BY <4>4, <4>5, <4>6
    <3> QED
      BY <3>5, <3>6
  <2>10. ASSUME NEW u \in Tasks, take(u) \/ finish(u)
         PROVE  (handling'[t] # Idle => ~handling'[t].stop) /\ \A th \in Threads : Right(th)
    <3>1. /\ UNCHANGED <<pc, call>> /\ handling[u] = Idle
          /\ inbox[u] # <<>> /\ inbox' = [inbox EXCEPT ![u] = Tail(@)]
          /\ \/ handling' = handling
             \/ ~Head(inbox[u]).stop /\ handling' = [handling EXCEPT ![u] = Head(inbox[u])]
      BY <2>10 DEF take, finish
    <3>2. CASE t # u
      <4>1. inbox'[t] = inbox[t] /\ handling'[t] = handling[t]
        BY <3>1, <3>2 DEF TypeOK
      <4> HIDE DEF Right
      <4> QED
        BY <2>1, <2>4, <3>1, <4>1
    <3>3. CASE t = u
      <4>1. /\ Len(inbox[t]) \in Nat \ {0} /\ Len(inbox'[t]) = Len(inbox[t]) - 1
            /\ Head(inbox[t]) = inbox[t][1]
            /\ \A i \in 1..Len(inbox'[t]) : i + 1 \in 1..Len(inbox[t]) /\ inbox'[t][i] = inbox[t][i + 1]
        BY <3>1, <3>3, TakenAt
      <4>2. handling'[t] = Idle \/ (~inbox[t][1].stop /\ handling'[t] = inbox[t][1])
        BY <3>1, <3>3, <4>1 DEF TypeOK
      <4>3. ASSUME NEW th \in Threads
            PROVE  /\ Handled(t, th)' => Queued(t, 1, th)
                   /\ \A i \in 1..Len(inbox'[t]) : Queued(t, i, th)' => Queued(t, i + 1, th)
        BY <4>1, <4>2 DEF Handled, Queued, Idle
      <4>4. 1 \in 1..Len(inbox[t]) /\ \A i, j \in 1..Len(inbox'[t]) : i + 1 # 1 /\ (i + 1 = j + 1 => i = j)
        BY <4>1
      <4>5. ASSUME NEW th \in Threads PROVE Right(th)
        <5>1. \A i, j \in 1..Len(inbox[t]) : Queued(t, i, th) /\ Queued(t, j, th) => i = j
          BY DEF PromiseInv
        <5>2. \A i \in 1..Len(inbox[t]) : Queued(t, i, th) => pc'[th] = "waiting" /\ call'[th].task = t
          BY <3>1 DEF PromiseInv
        <5>3. Handled(t, th)' =>
                /\ pc'[th] = "waiting" /\ call'[th].task = t
                /\ \A i \in 1..Len(inbox'[t]) : ~Queued(t, i, th)'
          BY <4>1, <4>3, <4>4, <5>1, <5>2
        <5>4. ASSUME NEW i \in 1..Len(inbox'[t]), Queued(t, i, th)'
              PROVE  /\ pc'[th] = "waiting" /\ call'[th].task = t
                     /\ \A j \in 1..Len(inbox'[t]) : Queued(t, j, th)' => j = i
          BY <4>1, <4>3, <4>4, <5>1, <5>2, <5>4
        <5> QED
          BY <5>3, <5>4
      <4>6. handling'[t] # Idle => ~handling'[t].stop
        BY <4>2
      <4> HIDE DEF Right
      <4> QED
        BY <4>5, <4>6
    <3> QED
      BY <3>2, <3>3
  <2>11. ASSUME NEW u \in Tasks, answer(u)
         PROVE  (handling'[t] # Idle => ~handling'[t].stop) /\ \A th \in Threads : Right(th)
    <3>1. /\ handling[u] # Idle /\ UNCHANGED <<call, inbox>>
          /\ handling' = [handling EXCEPT ![u] = Idle]
          /\ pc' = IF handling[u].from = None THEN pc ELSE [pc EXCEPT ![handling[u].from] = "answered"]
      BY <2>11 DEF answer
    <3>2. handling'[t] # Idle => ~handling'[t].stop
      BY <2>1, <3>1 DEF TypeOK
    <3>3. \A th \in Threads : Handled(t, th)' => t # u /\ Handled(t, th)
      BY <3>1 DEF Handled, Idle, TypeOK
    <3>4. ASSUME NEW th \in Threads PROVE Right(th)
      <4>1. CASE handling[u].from # th
        <5>1. pc'[th] = pc[th]
          BY <3>1, <4>1 DEF TypeOK
        <5>2. Handled(t, th) \/ (\E i \in 1..Len(inbox[t]) : Queued(t, i, th)) => pc[th] = "waiting"
          BY DEF PromiseInv
        <5>3. \A i \in 1..Len(inbox[t]) : Queued(t, i, th)' => Queued(t, i, th)
          BY <3>1 DEF Queued
        <5> HIDE DEF Right
        <5> QED
          BY <2>3, <3>1, <3>3, <5>1, <5>2, <5>3
      <4>2. CASE handling[u].from = th
        <5>1. Handled(u, th)
          BY <3>1, <4>2 DEF Handled, PromiseInv
        <5>2. ~Handled(t, th)'
          BY <3>3, <5>1 DEF PromiseInv
        <5>3. \A i \in 1..Len(inbox[t]) : ~Queued(t, i, th)
          BY <5>1 DEF PromiseInv
        <5> QED
          BY <3>1, <5>2, <5>3 DEF Queued
      <4> QED
        BY <4>1, <4>2
    <3> HIDE DEF Right
    <3> QED
      BY <3>2, <3>4
  <2> HIDE DEF Right
  <2> QED
    BY <2>6, <2>7, <2>8, <2>9, <2>10, <2>11, QueueSteps
<1> QED
  BY <1>1, <1>2, Types, PTL DEF Safety

-----------------------------------------------------------------------------

(* A thread that waits has its promise: in the queue of the task it called *)
(* or in that task's hands.                                                *)
OwedInv ==
  \A th \in Threads : pc[th] = "waiting" =>
    \/ Handled(call[th].task, th)
    \/ \E i \in 1..Len(inbox[call[th].task]) : Queued(call[th].task, i, th)

(* The task's end and the timeouts of others take no promise from it.      *)
LEMMA Owed == Safety => []OwedInv
<1>1. Init => OwedInv
  BY DEF Init, OwedInv
<1>2. TypeOK /\ CallInv /\ WaitInv /\ OwedInv /\ [Next]_vars => OwedInv'
  <2> SUFFICES ASSUME TypeOK, CallInv, WaitInv, OwedInv, [Next]_vars,
                      NEW th \in Threads, pc'[th] = "waiting"
               PROVE  \/ Handled(call[th].task, th)'
                      \/ \E i \in 1..Len(inbox'[call'[th].task]) : Queued(call[th].task, i, th)'
    BY DEF OwedInv, Handled, Queued
  <2> DEFINE t == call[th].task
  <2>1. ASSUME pc[th] = "waiting"
        PROVE  t \in Tasks /\ (Handled(t, th) \/ \E i \in 1..Len(inbox[t]) : Queued(t, i, th))
    BY <2>1 DEF OwedInv, WaitInv
  <2>2. ASSUME NEW u, u \in Tasks, call'[th].task = u,
               handling'[u] = handling[u], pc[th] = "waiting", call[th].task = u,
               \/ inbox'[u] = inbox[u]
               \/ /\ Len(inbox[u]) \in Nat /\ Len(inbox'[u]) = Len(inbox[u]) + 1
                  /\ \A i \in 1..Len(inbox[u]) : inbox'[u][i] = inbox[u][i]
        PROVE  \/ Handled(call[th].task, th)'
               \/ \E i \in 1..Len(inbox'[call'[th].task]) : Queued(call[th].task, i, th)'
    <3>1. CASE Handled(u, th)
      BY <2>2, <3>1 DEF Handled
    <3>2. CASE \E i \in 1..Len(inbox[u]) : Queued(u, i, th)
      <4>1. PICK i \in 1..Len(inbox[u]) : Queued(u, i, th)
        BY <3>2
      <4>2. i \in 1..Len(inbox'[u]) /\ inbox'[u][i] = inbox[u][i]
        BY <2>2, <4>1
      <4> QED
        BY <2>2, <4>1, <4>2 DEF Queued
    <3> QED
      BY <2>1, <2>2, <3>1, <3>2
  <2>3. ASSUME NEW target \in Tasks, NEW message \in Messages, Posted(target, message),
               handling' = handling, pc[th] = "waiting", call'[th] = call[th]
        PROVE  \/ Handled(call[th].task, th)'
               \/ \E i \in 1..Len(inbox'[call'[th].task]) : Queued(call[th].task, i, th)'
    <3>1. \/ inbox'[t] = inbox[t]
          \/ /\ Len(inbox[t]) \in Nat /\ Len(inbox'[t]) = Len(inbox[t]) + 1
             /\ \A i \in 1..Len(inbox[t]) : inbox'[t][i] = inbox[t][i]
      BY <2>1, <2>3, PostedAt
    <3> QED
      BY <2>1, <2>2, <2>3, <3>1
  <2>4. CASE QueuesStay
    BY <2>1, <2>2, <2>4 DEF QueuesStay, PromisesStay
  <2>5. CASE Sends
    BY <2>3, <2>5 DEF Sends, PromisesStay
  <2>6. ASSUME NEW u \in Threads, rpc_event(u)
        PROVE  \/ Handled(call[th].task, th)'
               \/ \E i \in 1..Len(inbox'[call'[th].task]) : Queued(call[th].task, i, th)'
    <3> DEFINE message == [from |-> u, stop |-> FALSE]
               record == [call[u] EXCEPT !.task = Target(u)]
    <3>1. /\ Post(Target(u), message) /\ handling' = handling
          /\ Become(u, "waiting", record)
      BY <2>6 DEF rpc_event
    <3>2. Target(u) \in Tasks
      BY <2>6 DEF rpc_event, Locking, CallInv, Target, TypeOK
    <3>3. message \in Messages /\ message.from = u /\ ~message.stop
      BY DEF Messages
    <3>4. record.task = Target(u)
      <4>1. call[u] \in Calls
        BY DEF TypeOK
      <4> QED
        BY <3>2, <4>1 DEF Calls
    <3> HIDE DEF record
    <3>5. Posted(Target(u), message) /\ inbox'[Target(u)] = Append(inbox[Target(u)], message)
      BY <3>1, <3>2, <3>3, PostTypes DEF Posted
    <3>6. /\ call'[u] = record
          /\ \A v \in Threads \ {u} : pc'[v] = pc[v] /\ call'[v] = call[v]
      BY <3>1 DEF Become, TypeOK
    <3>7. CASE th # u
      BY <2>3, <3>1, <3>2, <3>3, <3>5, <3>6, <3>7
    <3>8. CASE th = u
      <4>1. call'[th].task = Target(u)
        BY <3>4, <3>6, <3>8
      <4>2. /\ Len(inbox[Target(u)]) + 1 \in 1..Len(inbox'[Target(u)])
            /\ inbox'[Target(u)][Len(inbox[Target(u)]) + 1] = message
        <5>1. inbox[Target(u)] \in Seq(Messages)
          BY <3>2 DEF TypeOK
        <5> QED
          BY <3>5, <5>1
      <4> QED
        BY <3>3, <3>8, <4>1, <4>2 DEF Queued
    <3> QED
      BY <3>7, <3>8
  <2>7. ASSUME NEW u \in Threads, timeout(u)
        PROVE  \/ Handled(call[th].task, th)'
               \/ \E i \in 1..Len(inbox'[call'[th].task]) : Queued(call[th].task, i, th)'
    <3>1. PICK w :
            /\ inbox' = [inbox EXCEPT ![w] = [i \in DOMAIN @ |-> Disown(@[i], u)]]
            /\ handling' = [handling EXCEPT ![w] = Disown(@, u)]
            /\ Leave(u)
      BY <2>7 DEF timeout
    <3>2. th # u /\ pc[th] = "waiting" /\ call'[th] = call[th]
      BY <3>1, LeaveTypes
    <3>3. t \in Tasks /\ inbox[t] \in Seq(Messages)
      BY <2>1, <3>2 DEF TypeOK
    <3>4. handling'[t] \in {handling[t], Disown(handling[t], u)}
      BY <3>1, <3>3 DEF TypeOK
    <3>5. \/ inbox'[t] = inbox[t]
          \/ inbox'[t] = [i \in DOMAIN inbox[t] |-> Disown(inbox[t][i], u)]
      BY <3>1, <3>3 DEF TypeOK
    <3>6. DOMAIN inbox[t] = 1..Len(inbox[t]) /\ Len(inbox'[t]) = Len(inbox[t])
      BY <3>3, <3>5
    <3>7. CASE Handled(t, th)
      BY <3>2, <3>4, <3>7 DEF Handled, Disown
    <3>8. CASE \E i \in 1..Len(inbox[t]) : Queued(t, i, th)
      <4>1. PICK i \in 1..Len(inbox[t]) : Queued(t, i, th)
        BY <3>8
      <4>2. inbox'[t][i] \in {inbox[t][i], Disown(inbox[t][i], u)}
        BY <3>5, <3>6, <4>1
      <4>3. inbox'[t][i] = inbox[t][i]
        BY <3>2, <4>1, <4>2 DEF Queued, Disown
      <4> QED
        BY <3>2, <3>6, <4>1, <4>3 DEF Queued
    <3> QED
      BY <2>1, <3>2, <3>7, <3>8
  <2>8. ASSUME NEW u \in Tasks, take(u) \/ finish(u)
        PROVE  \/ Handled(call[th].task, th)'
               \/ \E i \in 1..Len(inbox'[call'[th].task]) : Queued(call[th].task, i, th)'
    <3>1. /\ UNCHANGED <<pc, call>> /\ handling[u] = Idle
          /\ inbox[u] # <<>> /\ inbox' = [inbox EXCEPT ![u] = Tail(@)]
          /\ \/ Head(inbox[u]).stop /\ handling' = handling
             \/ ~Head(inbox[u]).stop /\ handling' = [handling EXCEPT ![u] = Head(inbox[u])]
      BY <2>8 DEF take, finish
    <3>2. pc[th] = "waiting" /\ t \in Tasks
      BY <2>1, <3>1
    <3>3. CASE t # u
      <4>1. inbox'[t] = inbox[t] /\ handling'[t] = handling[t]
        BY <3>1, <3>2, <3>3 DEF TypeOK
      <4> QED
        BY <2>2, <3>1, <3>2, <4>1
    <3>4. CASE t = u
      <4>1. /\ Len(inbox[u]) \in Nat \ {0} /\ Len(inbox'[u]) = Len(inbox[u]) - 1
            /\ Head(inbox[u]) = inbox[u][1]
            /\ \A i \in 1..Len(inbox'[u]) : inbox'[u][i] = inbox[u][i + 1]
        BY <3>1, TakenAt
      <4>2. ~Handled(t, th)
        BY <3>1, <3>4 DEF Handled, Idle
      <4>3. PICK i \in 1..Len(inbox[u]) : Queued(u, i, th)
        BY <2>1, <3>2, <3>4, <4>2
      <4>4. CASE i = 1
        <5>1. handling' = [handling EXCEPT ![u] = Head(inbox[u])] /\ Head(inbox[u]) = inbox[u][1]
          BY <3>1, <4>1, <4>3, <4>4 DEF Queued
        <5>2. handling'[u] = inbox[u][1]
          BY <5>1 DEF TypeOK
        <5> QED
          BY <3>1, <3>4, <4>3, <4>4, <5>2 DEF Handled, Queued
      <4>5. CASE i # 1
        <5>1. i - 1 \in 1..Len(inbox'[u]) /\ (i - 1) + 1 = i
          BY <4>1, <4>5
        <5>2. inbox'[u][i - 1] = inbox[u][i]
          BY <4>1, <5>1
        <5>3. Queued(u, i - 1, th)' /\ call'[th].task = u
          BY <3>1, <3>4, <4>3, <5>2 DEF Queued
        <5> QED
          BY <3>4, <5>1, <5>3 DEF Queued
      <4> QED
        BY <4>4, <4>5
    <3> QED
      BY <3>3, <3>4
  <2>9. ASSUME NEW u \in Tasks, answer(u)
        PROVE  \/ Handled(call[th].task, th)'
               \/ \E i \in 1..Len(inbox'[call'[th].task]) : Queued(call[th].task, i, th)'
    <3>1. /\ handling[u] # Idle /\ UNCHANGED <<call, inbox>>
          /\ handling' = [handling EXCEPT ![u] = Idle]
          /\ pc' = IF handling[u].from = None THEN pc ELSE [pc EXCEPT ![handling[u].from] = "answered"]
      BY <2>9 DEF answer
    <3>2. pc[th] = "waiting" /\ handling[u].from # th
      BY <3>1, NoneAssumption DEF TypeOK, Threads
    <3>3. CASE Handled(t, th)
      <4>1. t # u /\ t \in Tasks
        BY <2>1, <3>2, <3>3 DEF Handled
      <4> QED
        BY <2>2, <3>1, <3>2, <4>1 DEF TypeOK
    <3>4. CASE \E i \in 1..Len(inbox[t]) : Queued(t, i, th)
      BY <3>1, <3>4 DEF Queued
    <3> QED
      BY <2>1, <3>2, <3>3, <3>4
  <2> QED
    BY <2>4, <2>5, <2>6, <2>7, <2>8, <2>9, QueueSteps
<1> QED
  BY <1>1, <1>2, Types, Waits, PTL DEF Safety

(* Every call of rpc_event() that waits, timed or not, is owed exactly one *)
(* answer, by the task it called: by one event in its queue or in its      *)
(* hands.  No event answers a call that has timed out, or another's, for   *)
(* any clients, tasks and names.                                           *)
THEOREM OneAnswerPerWait == Spec => [](PromiseInv /\ OwedInv)
  BY Promises, Owed, PTL DEF Spec

-----------------------------------------------------------------------------

(* Who shares the lock, who has it alone, and what is under a name that is *)
(* in use.                                                                 *)
UseInv ==
  /\ \A th \in Threads :
       /\ th \in readers <=> InRpc(th)
       /\ InRpc(th) => manager = "alive" /\ call[th].name \in Names /\ Target(th) = call[th].task
  /\ writer # None => readers = {} /\ pc[writer] = "stopping"

(* UseInv after a step of one thread that keeps the lock as it was. *)
LEMMA SameUse ==
  ASSUME TypeOK, UseInv, NEW th \in Threads,
         pc[th] \notin {"waiting", "answered", "stopping"}, pc'[th] \notin {"waiting", "answered"},
         \A u \in Threads \ {th} : pc'[u] = pc[u] /\ call'[u] = call[u],
         UNCHANGED <<readers, writer>>,
         UNCHANGED <<tasks_, manager>> \/ readers = {}
  PROVE  UseInv'
<1> USE DEF UseInv, InRpc, Target
<1>1. ASSUME NEW u \in Threads
      PROVE  /\ u \in readers' <=> pc'[u] \in {"waiting", "answered"}
             /\ pc'[u] \in {"waiting", "answered"} =>
                  manager' = "alive" /\ call'[u].name \in Names /\ tasks_'[call'[u].name] = call'[u].task
  <2>1. CASE u = th
    BY <2>1
  <2>2. CASE u # th
    BY <2>2
  <2> QED
    BY <2>1, <2>2
<1>2. writer # None => writer \in Threads \ {th}
  BY DEF TypeOK
<1>3. writer' # None => readers' = {} /\ pc'[writer'] = "stopping"
  BY <1>2
<1> QED
  BY <1>1, <1>3

(* The shared lock lasts exactly as long as rpc_event(), and the exclusive *)
(* one goes to nobody meanwhile.                                           *)
LEMMA Uses == Safety => []UseInv
<1>1. Init => UseInv
  BY DEF Init, UseInv, InRpc
<1>2. TypeOK /\ CallInv /\ WaitInv /\ PromiseInv /\ UseInv /\ [Next]_vars => UseInv'
  <2> SUFFICES ASSUME TypeOK, CallInv, WaitInv, PromiseInv, UseInv, [Next]_vars PROVE UseInv'
    OBVIOUS
  <2> USE DEF UseInv, InRpc, Target
  <2>0. \A c \in Clients : c \in Threads
    BY DEF Threads
  <2>1. ASSUME NEW th \in Threads, NEW op, NEW name, NEW task, NEW timed,
               Begin(th, op, name, task, timed)
        PROVE  UseInv'
    <3>1. /\ pc[th] = "out"
          /\ Become(th, "locking", [op |-> op, name |-> name, task |-> task, timed |-> timed])
          /\ UNCHANGED <<readers, writer, manager, tasks_>>
      BY <2>1 DEF Begin, Free, lock
    <3>2. /\ pc'[th] = "locking"
          /\ \A u \in Threads \ {th} : pc'[u] = pc[u] /\ call'[u] = call[u]
      BY <3>1 DEF Become, TypeOK
    <3> QED
      BY <3>1, <3>2, SameUse
  <2>2. ASSUME NEW th \in Threads, Call(th) PROVE UseInv'
    BY <2>1, <2>2 DEF Call
  <2>3. ASSUME NEW th \in Threads, CanOwn, DropLocked(th, tasks_[call[th].name]),
               pc[th] = "locking", tasks_[call[th].name] \in Tasks \cup {None}
        PROVE  UseInv'
    <3>1. /\ \A u \in Threads \ {th} : pc'[u] = pc[u] /\ call'[u] = call[u]
          /\ pc'[th] \in {"out", "stopping"}
      BY <2>3, DropTypes DEF DropLocked
    <3>2. /\ readers = {} /\ readers' = readers
          /\ writer' = IF pc'[th] = "stopping" THEN th ELSE None
      BY <2>3 DEF DropLocked, CanOwn
    <3>3. ASSUME NEW u \in Threads PROVE pc'[u] \notin {"waiting", "answered"}
      BY <3>1, <3>2
    <3> QED
      BY <3>2, <3>3
  <2>4. ASSUME NEW c \in Clients, NEW keep \in BOOLEAN, register_task(c, keep) PROVE UseInv'
    <3>1. c \in Threads /\ tasks_[call[c].name] \in Tasks \cup {None} /\ pc[c] = "locking"
      BY <2>4 DEF register_task, Locking, CallInv, Threads, TypeOK
    <3> QED
      BY <2>3, <2>4, <3>1 DEF register_task
  <2>5. ASSUME NEW th \in Threads, unregister_task(th) PROVE UseInv'
    <3>1. tasks_[call[th].name] \in Tasks \cup {None} /\ pc[th] = "locking"
      BY <2>5 DEF unregister_task, Locking, CallInv, TypeOK
    <3> QED
      BY <2>3, <2>5, <3>1 DEF unregister_task
  <2>6. ASSUME NEW th \in Threads, throw(th) \/ send_event(th)
                                   \/ (th \in Clients /\ (get_task(th) \/ cleared(th)))
        PROVE  UseInv'
    <3>1. /\ pc[th] \in {"locking", "clearing"} /\ Leave(th)
          /\ UNCHANGED <<readers, writer, manager, tasks_>>
      BY <2>6 DEF throw, get_task, send_event, cleared, Locking, lock
    <3> QED
      BY <3>1, LeaveTypes, SameUse
  <2>7. ASSUME NEW th \in Threads, rpc_event(th) PROVE UseInv'
    <3> DEFINE record == [call[th] EXCEPT !.task = Target(th)]
    <3>1. Target(th) \in Tasks /\ call[th].name \in Names
      BY <2>7 DEF rpc_event, Locking, CallInv, TypeOK
    <3>2. record \in Calls /\ record.task = Target(th) /\ record.name = call[th].name
      <4>1. call[th] \in Calls
        BY DEF TypeOK
      <4> QED
        BY <3>1, <4>1 DEF Calls
    <3>3. Become(th, "waiting", record)
      BY <2>7 DEF rpc_event
    <3> HIDE DEF record
    <3>4. /\ pc'[th] = "waiting" /\ call'[th] = record
          /\ \A u \in Threads \ {th} : pc'[u] = pc[u] /\ call'[u] = call[u]
      <4>1. "waiting" \in Positions
        BY DEF Positions
      <4> QED
        BY <3>2, <3>3, <4>1, BecomeTypes
    <3>5. /\ pc[th] = "locking" /\ writer = None /\ writer' = writer
          /\ readers' = readers \cup {th} /\ UNCHANGED <<manager, tasks_>>
      BY <2>7 DEF rpc_event, Share, CanShare, Locking
    <3>6. manager = "alive"
      BY <3>5 DEF WaitInv, TypeOK
    <3> QED
      BY <3>1, <3>2, <3>4, <3>5, <3>6
  <2>8. ASSUME NEW th \in Threads, return(th) \/ timeout(th) PROVE UseInv'
    <3>1. /\ Leave(th) /\ readers' = readers \ {th} /\ writer' = writer
          /\ UNCHANGED <<manager, tasks_>> /\ InRpc(th)
      BY <2>8 DEF return, timeout, Unshare
    <3>2. /\ pc'[th] = "out"
          /\ \A u \in Threads \ {th} : pc'[u] = pc[u] /\ call'[u] = call[u]
      BY <3>1, LeaveTypes
    <3>3. writer = None
      BY <3>1
    <3> QED
      BY <3>1, <3>2, <3>3
  <2>9. ASSUME NEW th \in Threads, join(th) PROVE UseInv'
    <3>1. /\ pc[th] = "stopping" /\ UNCHANGED <<readers, manager, tasks_>>
          /\ writer' = IF writer = th THEN None ELSE writer
          /\ Become(th, "clearing", NoCall) \/ Leave(th)
      BY <2>9 DEF join
    <3>2. /\ pc'[th] \in {"clearing", "out"}
          /\ \A u \in Threads \ {th} : pc'[u] = pc[u] /\ call'[u] = call[u]
      BY <3>1 DEF Become, Leave, TypeOK
    <3>3. writer' # None => writer' = writer /\ writer \in Threads \ {th}
      BY <3>1 DEF TypeOK
    <3> QED
      BY <3>1, <3>2, <3>3
  <2>10. ASSUME NEW c \in Clients, NEW t \in Tasks, release(c, t) \/ stop_task(c, t)
         PROVE  UseInv'
    <3>1. /\ pc[c] = "out" /\ UNCHANGED <<readers, writer, manager, tasks_>>
          /\ Drop(c, t, "stop") \/ stop(c, t, "stop")
      BY <2>10 DEF release, stop_task, Free, lock
    <3>2. /\ \A u \in Threads \ {c} : pc'[u] = pc[u] /\ call'[u] = call[u]
          /\ pc'[c] \in {"out", "stopping"}
      BY <2>0, <3>1, DropTypes, StopTypes
    <3> QED
      BY <2>0, <3>1, <3>2, SameUse
  <2>11. ASSUME NEW c \in Clients, destroy(c) PROVE UseInv'
    <3>1. /\ pc[c] = "out" /\ UNCHANGED <<readers, writer>>
          /\ \A th \in Threads : pc[th] \in {"out", "stopping"}
          /\ Become(c, "clearing", NoCall)
      BY <2>11 DEF destroy, lock
    <3>2. /\ pc'[c] = "clearing"
          /\ \A u \in Threads \ {c} : pc'[u] = pc[u] /\ call'[u] = call[u]
      BY <2>0, <3>1 DEF Become, TypeOK
    <3>3. readers = {}
      BY <3>1 DEF TypeOK
    <3> QED
      BY <2>0, <3>1, <3>2, <3>3, SameUse
  <2>12. ASSUME NEW c \in Clients, clear(c) PROVE UseInv'
    <3>1. pc[c] = "clearing" /\ UNCHANGED <<readers, writer, manager>>
      BY <2>12 DEF clear, lock
    <3>2. /\ \A u \in Threads \ {c} : pc'[u] = pc[u] /\ call'[u] = call[u]
          /\ pc'[c] \in {"out", "clearing", "stopping"}
      <4>1. PICK n \in Names :
              tasks_[n] # None /\ (UNCHANGED <<pc, call, inbox>> \/ stop(c, tasks_[n], "clear"))
        BY <2>12 DEF clear
      <4>2. tasks_[n] \in Tasks
        BY <4>1 DEF TypeOK
      <4>3. CASE UNCHANGED <<pc, call, inbox>>
        BY <3>1, <4>3
      <4>4. CASE stop(c, tasks_[n], "clear")
        BY <2>0, <4>2, <4>4, StopTypes
      <4> QED
        BY <4>1, <4>3, <4>4
    <3>3. readers = {}
      <4>1. manager = "gone"
        BY <2>0, <3>1 DEF WaitInv
      <4> QED
        BY <4>1 DEF TypeOK
    <3> QED
      BY <2>0, <3>1, <3>2, <3>3, SameUse
  <2>13. ASSUME NEW t \in Tasks, answer(t) PROVE UseInv'
    <3>1. /\ UNCHANGED <<readers, writer, manager, tasks_, call>> /\ handling[t] # Idle
          /\ pc' = IF handling[t].from = None THEN pc ELSE [pc EXCEPT ![handling[t].from] = "answered"]
      BY <2>13 DEF answer, lock
    <3>2. ASSUME NEW u \in Threads, pc'[u] # pc[u] PROVE pc[u] = "waiting" /\ pc'[u] = "answered"
      <4>1. handling[t].from = u /\ pc'[u] = "answered"
        BY <3>1, <3>2 DEF TypeOK
      <4>2. Handled(t, u)
        BY <3>1, <4>1 DEF PromiseInv, Handled
      <4> QED
        BY <4>1, <4>2 DEF PromiseInv
    <3>3. writer # None => writer \in Threads
      BY DEF TypeOK
    <3> QED
      BY <3>1, <3>2, <3>3
  <2>14. ASSUME NEW t \in Tasks, take(t) \/ finish(t) PROVE UseInv'
    BY <2>14 DEF take, finish, lock
  <2>15. CASE UNCHANGED vars
    BY <2>15 DEF vars, lock
  <2> QED
    BY <2>0, <2>2, <2>4, <2>5, <2>6, <2>7, <2>8, <2>9, <2>10, <2>11, <2>12, <2>13, <2>14, <2>15
       DEF Next, Continue, Locked, Loop
<1> QED
  BY <1>1, <1>2, Types, Waits, Promises, PTL DEF Safety

(* The lock and the pointers keep a task alive while it is in use, for any *)
(* clients, tasks and names: exactly those in rpc_event() share the lock,  *)
(* the task that one waits for stays under its name, and a task's thread   *)
(* ends only without a pointer to it and with its queue processed, unless  *)
(* somebody stops it directly.                                             *)
THEOREM TasksInUseLive == Spec => []UsedTasksLive
<1>1. TypeOK /\ UseInv /\ LiveInv /\ LastInv => UsedTasksLive
  <2> SUFFICES ASSUME TypeOK, UseInv, LiveInv, LastInv PROVE UsedTasksLive
    OBVIOUS
  <2>1. readers = {th \in Threads : InRpc(th)}
    BY DEF TypeOK, UseInv
  <2>2. "stopped" \notin breaches =>
          \A t \in Tasks : life[t] # "running" => ~Referenced(t, tasks_, held) /\ inbox[t] = <<>>
    BY DEF LiveInv, LastInv, Doomed
  <2> QED
    BY <2>1, <2>2 DEF UseInv, UsedTasksLive
<1> QED
  BY <1>1, Types, Lives, LastOnes, Uses, PTL DEF Spec
==============================================================================

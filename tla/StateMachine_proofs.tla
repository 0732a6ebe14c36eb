-------------------------- MODULE StateMachine_proofs --------------------------
(***************************************************************************)
(* Proofs about StateMachine, for any table, any finite set of threads and *)
(* any number of calls.                                                    *)
(***************************************************************************)
EXTENDS StateMachine, TLAPS

(* Inside publish() there is an event for the command in the state that    *)
(* was current at its start; inside set_state() there is a state to set,   *)
(* which is in the table once it is stored; only a thread that reports is  *)
(* in the callback.                                                        *)
CallInv ==
  /\ pc[Main] \in {"handler", "next"} \/ resume # "out" =>
       /\ snapshot \in DOMAIN Table
       /\ Table[snapshot][command] \in States \cup {Keep}
  /\ \A t \in Threads :
       /\ pc[t] \in Setting => new[t] \in States
       /\ pc[t] = "report" => new[t] \in DOMAIN Table
       /\ pc[t] = "callback" => t \in listening
  /\ \A t \in Setters : pc[t] \notin {"handler", "next"}

(* Where a thread goes when it leaves set_state() without a report. *)
LEMMA ReturnLeaves ==
  ASSUME TypeOK, NEW t \in Threads, Return(t)
  PROVE  /\ pc' = [pc EXCEPT ![t] = pc'[t]]
         /\ pc'[t] \in {"out", "handler", "callback"}
         /\ pc'[t] = "handler" => t = Main /\ resume = "handler"
         /\ pc'[t] = "callback" => t \in listening
BY DEF TypeOK, Return, Caller, Goto

(* The two outcomes of a store: the state is stored and a report due, or   *)
(* the state is not in the table and nothing has changed.                  *)
LEMMA StoreCases ==
  ASSUME TypeOK, CallInv, NEW t \in Threads, store(t)
  PROVE  /\ pc[t] = "store" /\ new[t] \in States
         /\ UNCHANGED <<snapshot, command, resume, old, new, listening, calls, believed>>
         /\ \/ /\ new[t] \in DOMAIN Table /\ current_' = new[t]
               /\ pc' = [pc EXCEPT ![t] = "report"]
               /\ ~crossed' => ~crossed /\ \A u \in Threads \ {t} : pc[u] \notin Setting
               /\ ~disturbed' => ~disturbed /\ t = Main /\ InTransition
               /\ crossed' \in BOOLEAN /\ disturbed' \in BOOLEAN
            \/ Return(t) /\ UNCHANGED <<current_, crossed, disturbed>>
<1>1. /\ pc[t] = "store" /\ new[t] \in States
      /\ UNCHANGED <<snapshot, command, resume, old, new, listening, calls, believed>>
  BY DEF store, CallInv, Setting, publishing, setting
<1>2. CASE new[t] \in DOMAIN Table
  <2>1. /\ current_' = new[t] /\ pc' = [pc EXCEPT ![t] = "report"]
        /\ crossed' = (crossed \/ \E u \in Threads \ {t} : pc[u] \in Setting)
        /\ disturbed' = (disturbed \/ t # Main \/ ~InTransition)
    BY <1>2 DEF store, Goto
  <2> QED
    BY <1>1, <1>2, <2>1
<1>3. CASE new[t] \notin DOMAIN Table
  BY <1>1, <1>3 DEF store
<1> QED
  BY <1>2, <1>3

(* The types hold in every reachable state, and so does CallInv. *)
LEMMA Types == Safety => [](TypeOK /\ CallInv)
<1> USE TableAssumption, SettersAssumption, MaxCallsAssumption DEF Threads
<1>1. Init => TypeOK /\ CallInv
  <2> SUFFICES ASSUME Init PROVE TypeOK /\ CallInv
    OBVIOUS
  <2>1. crossed \in BOOLEAN /\ disturbed \in BOOLEAN
    BY Zenon DEF Init
  <2>2. calls \in 0..MaxCalls
    BY DEF Init
  <2>3. TypeOK
    BY <2>1, <2>2 DEF Init, TypeOK, Positions, Callers
  <2>4. CallInv
    BY DEF Init, CallInv, Setting
  <2> QED
    BY <2>3, <2>4
<1>2. TypeOK /\ CallInv /\ [Next]_vars => TypeOK' /\ CallInv'
  <2> SUFFICES ASSUME TypeOK, CallInv, [Next]_vars PROVE TypeOK' /\ CallInv'
    OBVIOUS
  <2>1. ASSUME NEW c \in Commands, publish(c) PROVE TypeOK' /\ CallInv'
    <3>1. current_ \in DOMAIN Table
      BY <2>1 DEF publish, TypeOK
    <3>2. Table[current_][c] \in States \cup {Keep}
      BY <2>1, <3>1 DEF publish
    <3>3. TypeOK'
      <4>1. crossed' \in BOOLEAN /\ disturbed' \in BOOLEAN
        BY <2>1, Zenon DEF publish, TypeOK
      <4> QED
        BY <2>1, <3>1, <4>1 DEF publish, TypeOK, Goto, Positions, Callers, setting
    <3>4. CallInv'
      BY <2>1, <3>1, <3>2 DEF publish, TypeOK, Goto, CallInv, Setting, setting
    <3> QED
      BY <3>3, <3>4
  <2>2. ASSUME NEW ok \in BOOLEAN, handle(ok) PROVE TypeOK' /\ CallInv'
    <3>1. /\ pc[Main] = "handler" /\ resume' = "out"
          /\ pc' = [pc EXCEPT ![Main] = pc'[Main]] /\ pc'[Main] \in {"next", "out"}
          /\ UNCHANGED <<current_, snapshot, command, setting, history>>
      BY <2>2 DEF handle, Goto, TypeOK
    <3>2. TypeOK'
      BY <3>1 DEF TypeOK, Positions, Callers, setting, history
    <3>3. CallInv'
      BY <3>1 DEF TypeOK, CallInv, Setting, setting
    <3> QED
      BY <3>2, <3>3
  <2>3. CASE transition
    <3>1. CASE Moves
      <4>1. next_state \in States
        BY <2>3, <3>1 DEF transition, Moves, next_state, CallInv
      <4>2. /\ new' = [new EXCEPT ![Main] = next_state] /\ pc' = [pc EXCEPT ![Main] = "load"]
            /\ resume' = "transition" /\ pc[Main] = "next"
            /\ UNCHANGED <<current_, snapshot, command, old, listening, history>>
        BY <2>3, <3>1 DEF transition, Goto
      <4>3. TypeOK'
        BY <4>1, <4>2 DEF TypeOK, Positions, Callers, history
      <4>4. CallInv'
        BY <4>1, <4>2 DEF TypeOK, CallInv, Setting
      <4> QED
        BY <4>3, <4>4
    <3>2. CASE ~Moves
      <4>1. /\ pc' = [pc EXCEPT ![Main] = "out"]
            /\ UNCHANGED <<current_, publishing, setting, history>>
        BY <2>3, <3>2 DEF transition, Goto, publishing, setting
      <4> QED
        BY <4>1 DEF TypeOK, CallInv, Positions, Setting, publishing, setting, history
    <3> QED
      BY <3>1, <3>2
  <2>4. ASSUME NEW t \in Threads, NEW s \in States, set_state(t, s) PROVE TypeOK' /\ CallInv'
    <3>1. TypeOK'
      BY <2>4 DEF set_state, TypeOK, Goto, Positions, Callers
    <3>2. CallInv'
      BY <2>4 DEF set_state, TypeOK, CallInv, Goto, Setting
    <3> QED
      BY <3>1, <3>2
  <2>5. ASSUME NEW t \in Threads, load(t) PROVE TypeOK' /\ CallInv'
    BY <2>5 DEF load, TypeOK, CallInv, Goto, Positions, Setting, publishing, history
  <2>6. ASSUME NEW t \in Threads, store(t) PROVE TypeOK' /\ CallInv'
    <3> USE <2>6, StoreCases
    <3>1. TypeOK'
      BY ReturnLeaves DEF TypeOK, Positions
    <3>2. CallInv'
      BY ReturnLeaves DEF TypeOK, CallInv, Setting
    <3> QED
      BY <3>1, <3>2
  <2>7. ASSUME NEW t \in Threads, report(t) PROVE TypeOK' /\ CallInv'
    BY <2>7 DEF report, TypeOK, CallInv, Goto, Positions, Setting, publishing
  <2>8. ASSUME NEW t \in Threads, reported(t) PROVE TypeOK' /\ CallInv'
    BY <2>8 DEF reported, Caller, TypeOK, CallInv, Goto, Positions, Setting,
                publishing, history
  <2>9. CASE UNCHANGED vars
    BY <2>9 DEF vars, publishing, setting, history, TypeOK, CallInv
  <2> QED
    BY <2>1, <2>2, <2>3, <2>4, <2>5, <2>6, <2>7, <2>8, <2>9 DEF Next, Set
<1> QED
  BY <1>1, <1>2, PTL DEF Safety

(* The current state is always a state of the table, or none: a state that *)
(* the table lacks is never stored, reported or published in.              *)
THEOREM TypeCorrect == Safety => []TypeOK
BY Types, PTL

-----------------------------------------------------------------------------

(* As long as nobody but publish() has stored a state since it looked, the *)
(* three reads of publish() and of its set_state() agree, also after calls *)
(* of the handler that asked for a state the table lacks.                  *)
TransitionInv == ~disturbed =>
  /\ pc[Main] \in {"handler", "next"} \/ resume = "handler" => current_ = snapshot
  /\ InTransition /\ pc[Main] \in {"load", "store"} => current_ = snapshot
  /\ InTransition /\ pc[Main] \in {"store", "report"} => old[Main] = snapshot
  /\ InTransition /\ pc[Main] \in Setting => new[Main] = next_state

(* The transition that publish() reports is one that the table has for the *)
(* command, though it reads the current state three times, unless the      *)
(* handler or another thread has stored a state in between.                *)
THEOREM TransitionsFollowTheTable == Safety => []TransitionsAreTheTables
<1> USE DEF Threads
<1>1. Init => TransitionInv
  BY DEF Init, TransitionInv, InTransition, Setting
<1>2. TypeOK /\ CallInv /\ TransitionInv /\ [Next]_vars => TransitionInv'
  <2> SUFFICES ASSUME TypeOK, CallInv, TransitionInv, [Next]_vars, ~disturbed'
               PROVE  TransitionInv'
    BY DEF TransitionInv
  <2>1. ASSUME NEW c \in Commands, publish(c) PROVE TransitionInv'
    BY <2>1 DEF publish, Goto, TypeOK, TransitionInv, InTransition, Setting
  <2>2. ASSUME NEW ok \in BOOLEAN, handle(ok) PROVE TransitionInv'
    BY <2>2 DEF handle, Goto, history, setting, TypeOK, TransitionInv, InTransition, Setting
  <2>3. CASE transition
    BY <2>3 DEF transition, Goto, history, TypeOK, TransitionInv, InTransition, Setting,
                next_state
  <2>4. ASSUME NEW t \in Threads, NEW s \in States, set_state(t, s) PROVE TransitionInv'
    BY <2>4, SettersAssumption
    DEF set_state, Goto, TypeOK, CallInv, TransitionInv, InTransition, Setting, next_state
  <2>5. ASSUME NEW t \in Threads, load(t) PROVE TransitionInv'
    BY <2>5 DEF load, Goto, publishing, history, TypeOK, TransitionInv, InTransition,
                Setting, next_state
  <2>6. ASSUME NEW t \in Threads, store(t) PROVE TransitionInv'
    BY <2>6, StoreCases, ReturnLeaves
    DEF TypeOK, CallInv, TransitionInv, InTransition, Setting, next_state
  <2>7. ASSUME NEW t \in Threads, report(t) PROVE TransitionInv'
    BY <2>7 DEF report, Goto, publishing, TypeOK, TransitionInv, InTransition,
                Setting, next_state
  <2>8. ASSUME NEW t \in Threads, reported(t) PROVE TransitionInv'
    BY <2>8 DEF reported, Caller, Goto, publishing, history, TypeOK, TransitionInv,
                InTransition, Setting, next_state
  <2>9. CASE UNCHANGED vars
    BY <2>9 DEF vars, publishing, setting, history, TransitionInv, InTransition, next_state
  <2> QED
    BY <2>1, <2>2, <2>3, <2>4, <2>5, <2>6, <2>7, <2>8, <2>9 DEF Next, Set
<1>3. TransitionInv => TransitionsAreTheTables
  BY DEF TransitionInv, TransitionsAreTheTables, Setting, next_state
<1> QED
  BY <1>1, <1>2, <1>3, Types, PTL DEF Safety

-----------------------------------------------------------------------------

(* Why a listener can follow the state: a store that falls inside nobody   *)
(* else's set_state() replaces the state that its thread loaded, leaves    *)
(* one report due, and the next store waits for that.                      *)
FollowInv == ~crossed =>
  /\ (\A t \in Threads : pc[t] # "report") => believed = current_
  /\ \A t \in Threads : pc[t] = "report" =>
       /\ old[t] = believed /\ new[t] = current_
       /\ \A u \in Threads \ {t} : pc[u] # "report"
  /\ \A t \in Threads : pc[t] = "store" => old[t] = current_
  /\ InTransition /\ pc[Main] = "load" => current_ # new[Main]
  /\ InTransition /\ pc[Main] \in {"store", "report"} => old[Main] # new[Main]

(* A listener can follow the state by the reports, whichever threads,      *)
(* handlers and callbacks set it, as long as no store falls inside another *)
(* thread's set_state().                                                   *)
THEOREM ListenersCanFollow == Safety => []Followed
<1> USE SettersAssumption DEF Threads
<1>1. Init => FollowInv
  BY DEF Init, FollowInv
<1>2. TypeOK /\ CallInv /\ FollowInv /\ [Next]_vars => FollowInv'
  <2> SUFFICES ASSUME TypeOK, CallInv, FollowInv, [Next]_vars, ~crossed' PROVE FollowInv'
    BY DEF FollowInv
  <2>1. ASSUME NEW c \in Commands, publish(c) PROVE FollowInv'
    BY <2>1 DEF publish, Goto, setting, FollowInv, InTransition, TypeOK
  <2>2. ASSUME NEW ok \in BOOLEAN, handle(ok) PROVE FollowInv'
    BY <2>2 DEF handle, Goto, setting, history, FollowInv, InTransition, TypeOK
  <2>3. CASE transition
    BY <2>3 DEF transition, Moves, Goto, history, FollowInv, InTransition, TypeOK
  <2>4. ASSUME NEW t \in Threads, NEW s \in States, set_state(t, s) PROVE FollowInv'
    BY <2>4 DEF set_state, Goto, FollowInv, InTransition, TypeOK, CallInv
  <2>5. ASSUME NEW t \in Threads, load(t) PROVE FollowInv'
    BY <2>5 DEF load, Goto, publishing, history, FollowInv, InTransition, TypeOK
  <2>6. ASSUME NEW t \in Threads, store(t) PROVE FollowInv'
    BY <2>6, StoreCases, ReturnLeaves DEF FollowInv, InTransition, Setting, TypeOK
  <2>7. ASSUME NEW t \in Threads, report(t) PROVE FollowInv'
    BY <2>7 DEF report, Goto, publishing, FollowInv, InTransition, TypeOK
  <2>8. ASSUME NEW t \in Threads, reported(t) PROVE FollowInv'
    BY <2>8 DEF reported, Caller, Goto, publishing, history, FollowInv, InTransition, TypeOK
  <2>9. CASE UNCHANGED vars
    BY <2>9 DEF vars, publishing, setting, history, FollowInv, InTransition
  <2> QED
    BY <2>1, <2>2, <2>3, <2>4, <2>5, <2>6, <2>7, <2>8, <2>9 DEF Next, Set
<1>3. FollowInv => Followed
  BY DEF FollowInv, Followed
<1> QED
  BY <1>1, <1>2, <1>3, Types, PTL DEF Safety

==============================================================================

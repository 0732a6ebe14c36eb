----------------------------- MODULE Process_proofs -----------------------------
(***************************************************************************)
(* Proofs about Process, for any number of children one object may start,  *)
(* any amount of output and any capacity of a pipe.                        *)
(***************************************************************************)
EXTENDS Process, TLAPS

(* The collector of the n-th child's result is done with its stream s. *)
Past(n, s) ==
  collector[n] \in {"wait4", "store", "set", "done"} \cup (IF s = "out" THEN {"err"} ELSE {})

(* A call that goes for a child knows which, and has said so. *)
OwnerInv ==
  /\ owner \notin {"out", "destroyed"} \/ has_exited_ => id_ # 0
  /\ owner \in Owners \ {"out", "waiting", "destroyed"} => id_ \in asked

(* A child writes to redirected streams only, as much as it may, and only  *)
(* there can be something to read; a collector that is done with a stream  *)
(* has read all of it, and nobody writes to it any more.                   *)
OutputInv ==
  \A n \in Children, s \in Streams :
    /\ next[n] = s => s \in redirect[n] /\ left[n] > 0
    /\ s \notin redirect[n] => pipe[n][s] = 0
    /\ Past(n, s) => pipe[n][s] = 0 /\ (s \in redirect[n] => ~Running(n))

(* A child that is not started has no pipes, and one that is has a         *)
(* collector.  Only one that kill() or the destructor went for is killed,  *)
(* or reaped by somebody else than its collector.                          *)
EndInv ==
  \A n \in Children :
    /\ collector[n] = "none" <=> child[n] = "none"
    /\ child[n] = "none" => redirect[n] = {}
    /\ ended[n] = "none" <=> child[n] \in {"none", "running"}
    /\ ended[n] = "killed" => n \in asked
    /\ child[n] = "reaped" => n \in asked \/ collector[n] \in {"store", "set", "done"}

(* The inductive invariant. *)
Inv == TypeOK /\ OwnerInv /\ OutputInv /\ EndInv

(* It holds at the start. *)
LEMMA InitInv == Init => Inv
<1> SUFFICES ASSUME Init PROVE Inv
  OBVIOUS
<1>1. TypeOK
  <2>1. 0 \in 0..MaxStarts /\ 0 \in 0..MaxOutput /\ 0 \in 0..Capacity
    BY BoundsAssumption
  <2>2. \A n \in Children : ~(n <= 0)
    BY BoundsAssumption DEF Children
  <2>3. pipe \in [Children -> [Streams -> 0..Capacity]]
    BY <2>1 DEF Init
  <2>4. left \in [Children -> 0..MaxOutput]
    BY <2>1 DEF Init
  <2> QED
    BY <2>1, <2>2, <2>3, <2>4 DEF Init, TypeOK, Owners, Lives, Ends, Collectors, Streams
<1>2. OwnerInv /\ EndInv
  BY DEF Init, OwnerInv, EndInv, Owners
<1>3. OutputInv
  BY DEF Init, OutputInv, Past, Streams
<1> QED
  BY <1>1, <1>2, <1>3 DEF Inv

(* The calls of the owner's that are under way are about a child. *)
LEMMA Current ==
  ASSUME TypeOK, OwnerInv, owner \notin {"out", "destroyed"}
  PROVE  id_ \in Children
BY DEF TypeOK, OwnerInv, Children

(* Steps of the owner's that do not start a child, and what they may do to *)
(* children: end or reap the current one, which is on record.              *)
LEMMA OwnerSteps ==
  ASSUME TypeOK, OwnerInv, get \/ kill \/ destroy \/ Owner
  PROVE  /\ UNCHANGED <<id_, programVars, pipe, resultVars>>
         /\ owner \notin {"destroyed"} /\ owner' \in Owners /\ has_exited_' \in BOOLEAN
         /\ asked \subseteq asked' /\ asked' \subseteq asked \cup ({id_} \cap Children)
         /\ \/ UNCHANGED lifeVars
            \/ /\ id_ \in asked \cap Children /\ Running(id_)
               /\ child' = [child EXCEPT ![id_] = "zombie"]
               /\ ended' = [ended EXCEPT ![id_] = "killed"]
            \/ /\ id_ \in asked \cap Children /\ ~Running(id_)
               /\ child' = [child EXCEPT ![id_] = "reaped"]
               /\ ended' = ended
<1> USE DEF Go, Owners, lifeVars
<1>1. CASE get
  BY <1>1 DEF get, TypeOK
<1>2. CASE kill
  BY <1>2 DEF kill, Kills, TypeOK, Children
<1>3. CASE destroy
  BY <1>3 DEF destroy, Kills, TypeOK, Children
<1>4. CASE got \/ deadline
  BY <1>4 DEF got, deadline, TypeOK
<1>5. CASE term \/ sigkill
  <2>1. id_ \in Children /\ id_ \in asked
    BY <1>5, Current DEF term, sigkill, OwnerInv
  <2> QED
    BY <1>5, <2>1 DEF term, sigkill, Signal, End, TypeOK
<1>6. CASE poll \/ reap
  <2>1. id_ \in Children /\ id_ \in asked
    BY <1>6, Current DEF poll, reap, OwnerInv
  <2> QED
    BY <1>6, <2>1 DEF poll, reap, Running, TypeOK
<1> QED
  BY <1>1, <1>2, <1>3, <1>4, <1>5, <1>6 DEF Owner

(* The types are kept. *)
LEMMA TypesStep ==
  ASSUME Inv, [Next]_vars
  PROVE  TypeOK'
<1> USE DEF Inv, Owners, Lives, Ends, Collectors, Streams, lifeVars, programVars, resultVars,
            ownerVars
<1>1. ASSUME NEW n \in Children, NEW streams \in SUBSET Streams, NEW k \in 0..MaxOutput,
             start_async(n, streams, k)
      PROVE  TypeOK'
  <2>1. n = id_ + 1 /\ id_' = n /\ n \in 1..MaxStarts
    BY <1>1 DEF start_async, Children
  <2>2. id_' \in 0..MaxStarts /\ moved' \subseteq 1..id_'
    BY <1>1, <2>1 DEF start_async, TypeOK
  <2>3. left' \in [Children -> 0..MaxOutput]
    BY <1>1, BoundsAssumption DEF start_async, TypeOK
  <2>4. next' \in [Children -> Streams \cup {"exit"}]
    BY <1>1 DEF start_async, Choices, TypeOK
  <2>5. child' \in [Children -> Lives] /\ \A m \in Children : child'[m] # "none" <=> m <= id_'
    <3>1. \A m \in Children : m <= id_' <=> m <= id_ \/ m = n
      BY <2>1 DEF Children, TypeOK
    <3> QED
      BY <1>1, <3>1 DEF start_async, TypeOK
  <2> QED
    BY <1>1, <2>2, <2>3, <2>4, <2>5 DEF start_async, TypeOK
<1>2. CASE get \/ kill \/ destroy \/ Owner
  <2>1. /\ child' \in [Children -> Lives] /\ ended' \in [Children -> Ends]
        /\ \A n \in Children : child'[n] # "none" <=> child[n] # "none"
    <3>1. /\ child \in [Children -> Lives] /\ ended \in [Children -> Ends]
          /\ \A n \in Children : child[n] # "none" <=> n <= id_
          /\ id_ \in asked \cap Children => child[id_] # "none"
      BY DEF TypeOK, Children
    <3> QED
      BY <1>2, <3>1, OwnerSteps
  <2>2. /\ UNCHANGED <<id_, programVars, pipe, resultVars>>
        /\ owner' \in Owners /\ has_exited_' \in BOOLEAN /\ asked' \subseteq Children
    BY <1>2, OwnerSteps DEF TypeOK
  <2> QED
    BY <2>1, <2>2 DEF TypeOK
<1>3. CASE move
  BY <1>3 DEF move, TypeOK
<1>4. ASSUME NEW n \in Children, write(n) PROVE TypeOK'
  <2>1. next[n] \in Streams /\ left[n] > 0 /\ pipe[n][next[n]] < Capacity
    BY <1>4 DEF write, OutputInv
  <2>2. left' \in [Children -> 0..MaxOutput]
    BY <1>4, <2>1, BoundsAssumption DEF write, TypeOK
  <2>3. pipe' \in [Children -> [Streams -> 0..Capacity]]
    BY <1>4, <2>1, BoundsAssumption DEF write, TypeOK
  <2>4. next' \in [Children -> Streams \cup {"exit"}]
    BY <1>4 DEF write, Choices, TypeOK
  <2> QED
    BY <1>4, <2>2, <2>3, <2>4 DEF write, TypeOK
<1>5. ASSUME NEW n \in Children, exit(n) PROVE TypeOK'
  <2>1. left' \in [Children -> 0..MaxOutput]
    BY <1>5, BoundsAssumption DEF exit, TypeOK
  <2> QED
    BY <1>5, <2>1 DEF exit, End, Running, TypeOK
<1>6. ASSUME NEW n \in Children, read(n) PROVE TypeOK'
  <2>1. pipe' \in [Children -> [Streams -> 0..Capacity]]
    BY <1>6, BoundsAssumption DEF read, TypeOK
  <2> QED
    BY <1>6, <2>1 DEF read, TypeOK
<1>7. ASSUME NEW n \in Children, read_pipe_end(n) PROVE TypeOK'
  BY <1>7 DEF read_pipe_end, Collect, TypeOK
<1>8. ASSUME NEW n \in Children, wait4(n) PROVE TypeOK'
  <2>1. child[n] # "none"
    BY <1>8 DEF wait4, Collect, EndInv
  <2>2. result' \in [Children -> Ends]
    BY <1>8 DEF wait4, TypeOK
  <2> QED
    BY <1>8, <2>1, <2>2 DEF wait4, Collect, TypeOK
<1>9. ASSUME NEW n \in Children, store(n) \/ set_value(n) PROVE TypeOK'
  <2>1. collector' \in [Children -> Collectors]
    BY <1>9 DEF store, set_value, Collect, TypeOK
  <2>2. has_exited_' \in BOOLEAN /\ moved' \subseteq 1..id_
    BY <1>9 DEF store, set_value, TypeOK
  <2>3. UNCHANGED <<id_, owner, asked, lifeVars, programVars, pipe, result>>
    BY <1>9 DEF store, set_value
  <2> QED
    BY <2>1, <2>2, <2>3 DEF TypeOK
<1>10. CASE UNCHANGED vars
  BY <1>10 DEF vars, TypeOK
<1> QED
  BY <1>1, <1>2, <1>3, <1>4, <1>5, <1>6, <1>7, <1>8, <1>9, <1>10 DEF Next, Child, Collector

(* A call of the owner's is about a child on record. *)
LEMMA OwnerStep ==
  ASSUME Inv, [Next]_vars
  PROVE  OwnerInv'
<1> USE DEF Inv, Owners, lifeVars, programVars, resultVars, ownerVars
<1>1. ASSUME NEW n \in Children, NEW streams \in SUBSET Streams, NEW k \in 0..MaxOutput,
             start_async(n, streams, k)
      PROVE  OwnerInv'
  BY <1>1 DEF start_async, OwnerInv, Children
<1>2. CASE get \/ kill \/ destroy \/ Owner
  <2> USE DEF Go, Kills, OwnerInv
  <2>1. CASE get \/ kill \/ destroy
    BY <1>2, <2>1 DEF get, kill, destroy
  <2>2. CASE Owner
    BY <2>2 DEF Owner, got, term, poll, deadline, sigkill, reap
  <2> QED
    BY <1>2, <2>1, <2>2
<1>3. CASE move
  BY <1>3 DEF move, OwnerInv
<1>4. ASSUME NEW n \in Children, Child(n) PROVE OwnerInv'
  BY <1>4 DEF Child, write, exit, OwnerInv
<1>5. ASSUME NEW n \in Children, store(n) PROVE OwnerInv'
  <2>1. n <= id_ /\ id_ # 0
    BY <1>5 DEF store, Collect, EndInv, TypeOK, Children
  <2> QED
    BY <1>5, <2>1 DEF store, OwnerInv
<1>6. ASSUME NEW n \in Children, read(n) \/ read_pipe_end(n) \/ wait4(n) \/ set_value(n)
      PROVE  OwnerInv'
  BY <1>6 DEF read, read_pipe_end, wait4, set_value, OwnerInv
<1>7. CASE UNCHANGED vars
  BY <1>7 DEF vars, OwnerInv
<1> QED
  BY <1>1, <1>2, <1>3, <1>4, <1>5, <1>6, <1>7 DEF Next, Collector

(* Nobody writes to a stream whose end the collector has seen. *)
LEMMA OutputStep ==
  ASSUME Inv, [Next]_vars
  PROVE  OutputInv'
<1> USE DEF Inv, lifeVars, programVars, resultVars, ownerVars
<1>0. /\ next \in [Children -> Streams \cup {"exit"}] /\ left \in [Children -> 0..MaxOutput]
      /\ redirect \in [Children -> SUBSET Streams] /\ child \in [Children -> Lives]
      /\ pipe \in [Children -> [Streams -> 0..Capacity]]
      /\ collector \in [Children -> Collectors]
  BY DEF TypeOK
<1> SUFFICES ASSUME NEW m \in Children, NEW s \in Streams
             PROVE  /\ next'[m] = s => s \in redirect'[m] /\ left'[m] > 0
                    /\ s \notin redirect'[m] => pipe'[m][s] = 0
                    /\ Past(m, s)' => pipe'[m][s] = 0 /\ (s \in redirect'[m] => ~Running(m)')
  BY DEF OutputInv
<1> DEFINE Goal == /\ next'[m] = s => s \in redirect'[m] /\ left'[m] > 0
                   /\ s \notin redirect'[m] => pipe'[m][s] = 0
                   /\ Past(m, s)' => pipe'[m][s] = 0 /\ (s \in redirect'[m] => ~Running(m)')
<1>1. /\ next[m] = s => s \in redirect[m] /\ left[m] > 0
      /\ s \notin redirect[m] => pipe[m][s] = 0
      /\ Past(m, s) => pipe[m][s] = 0 /\ (s \in redirect[m] => ~Running(m))
  BY DEF OutputInv
<1>2. ASSUME NEW n \in Children, NEW streams \in SUBSET Streams, NEW k \in 0..MaxOutput,
             start_async(n, streams, k)
      PROVE  Goal
  <2>1. CASE m = n
    <3>1. redirect'[m] = streams /\ left'[m] = (IF streams = {} THEN 0 ELSE k)
      BY <1>0, <1>2, <2>1 DEF start_async
    <3>2. next'[m] \in Choices(streams, k)
      BY <1>0, <1>2, <2>1 DEF start_async
    <3>3. next'[m] = s => s \in redirect'[m] /\ left'[m] > 0
      BY <3>1, <3>2, BoundsAssumption DEF Choices, Streams
    <3>4. collector'[m] = "out" /\ pipe' = pipe
      BY <1>0, <1>2, <2>1 DEF start_async
    <3>5. pipe[m][s] = 0
      <4>1. child[m] = "none"
        BY <1>2, <2>1 DEF start_async, TypeOK
      <4>2. redirect[m] = {}
        BY <4>1 DEF EndInv
      <4> QED
        BY <1>1, <4>2
    <3> QED
      BY <3>3, <3>4, <3>5 DEF Past, Streams
  <2>2. CASE m # n
    BY <1>0, <1>1, <1>2, <2>2 DEF start_async, Past, Running
  <2> QED
    BY <2>1, <2>2
<1>3. CASE get \/ kill \/ destroy \/ Owner
  <2>1. Running(m)' => Running(m)
    BY <1>0, <1>3, OwnerSteps DEF Running
  <2> QED
    BY <1>1, <1>3, <2>1, OwnerSteps DEF Past
<1>4. CASE move
  BY <1>1, <1>4 DEF move, Past, Running
<1>5. ASSUME NEW n \in Children, write(n) PROVE Goal
  <2>1. CASE m = n
    <3> DEFINE w == next[m]
    <3>1. w \in Streams /\ w \in redirect[m] /\ Running(m) /\ ~Past(m, w)
      BY <1>5, <2>1 DEF write, OutputInv
    <3>2. next'[m] \in Choices(redirect[m], left'[m]) /\ left'[m] \in 0..MaxOutput
      <4>1. left[n] > 0
        BY <1>5 DEF write, OutputInv
      <4> QED
        BY <1>0, <1>5, <2>1, <4>1, BoundsAssumption DEF write
    <3>3. next'[m] = s => s \in redirect[m] /\ left'[m] > 0
      BY <3>2, BoundsAssumption DEF Choices, Streams
    <3>4. pipe'[m][s] = pipe[m][s] \/ s = w
      BY <1>0, <1>5, <2>1 DEF write
    <3>5. /\ redirect' = redirect /\ collector' = collector /\ child' = child
      BY <1>5 DEF write
    <3>6. s \notin redirect[m] => s # w
      BY <3>1
    <3>7. Past(m, s)' = Past(m, s) /\ Running(m)' = Running(m) /\ (Past(m, s) => s # w)
      BY <3>1, <3>5 DEF Past, Running
    <3> QED
      BY <1>1, <3>3, <3>4, <3>5, <3>6, <3>7
  <2>2. CASE m # n
    BY <1>0, <1>1, <1>5, <2>2 DEF write, Past, Running
  <2> QED
    BY <2>1, <2>2
<1>6. ASSUME NEW n \in Children, exit(n) PROVE Goal
  BY <1>0, <1>1, <1>6 DEF exit, End, Past, Running, Streams
<1>7. ASSUME NEW n \in Children, read(n) PROVE Goal
  <2>1. pipe'[m][s] = pipe[m][s] \/ (pipe[m][s] > 0 /\ m = n /\ s = collector[n])
    BY <1>0, <1>7 DEF read
  <2>2. ~(m = n /\ s = collector[n] /\ Past(m, s))
    BY DEF Past, Streams
  <2>3. pipe[m][s] > 0 => s \in redirect[m]
    BY <1>0, <1>1
  <2> QED
    BY <1>1, <1>7, <2>1, <2>2, <2>3 DEF read, Past, Running
<1>8. ASSUME NEW n \in Children, read_pipe_end(n) PROVE Goal
  <2>1. UNCHANGED <<next, redirect, left, pipe, child>>
    BY <1>8 DEF read_pipe_end
  <2>2. Past(m, s)' => Past(m, s) \/ at_end(m, s)
    BY <1>0, <1>8 DEF read_pipe_end, Collect, Past, Streams
  <2> QED
    BY <1>1, <2>1, <2>2 DEF at_end, Running
<1>9. ASSUME NEW n \in Children, wait4(n) \/ store(n) \/ set_value(n) PROVE Goal
  <2>1. UNCHANGED <<next, redirect, left, pipe>>
    BY <1>9 DEF wait4, store, set_value
  <2>2. Past(m, s)' => Past(m, s)
    BY <1>0, <1>9 DEF wait4, store, set_value, Collect, Past
  <2>3. Running(m)' => Running(m)
    BY <1>0, <1>9 DEF wait4, store, set_value, Running
  <2> QED
    BY <1>1, <2>1, <2>2, <2>3
<1>10. CASE UNCHANGED vars
  BY <1>1, <1>10 DEF vars, Past, Running
<1> QED
  BY <1>2, <1>3, <1>4, <1>5, <1>6, <1>7, <1>8, <1>9, <1>10 DEF Next, Child, Collector

(* What a step can be to the n-th child and to the thread that collects    *)
(* its result: nothing, a start, an end, somebody's reaping of it, the     *)
(* collector's, or another step of the collector's.                        *)
Same(n) == UNCHANGED <<child[n], ended[n], redirect[n], collector[n], result[n]>>

Started(n) ==
  /\ child[n] = "none" /\ child'[n] = "running"
  /\ collector'[n] = "out"
  /\ UNCHANGED <<ended[n], result[n]>>

Ended(n) ==
  /\ Running(n) /\ child'[n] = "zombie"
  /\ ended'[n] = "exited" \/ (ended'[n] = "killed" /\ n \in asked)
  /\ UNCHANGED <<redirect[n], collector[n], result[n]>>

Reaped(n) ==
  /\ child[n] \notin {"none", "running"} /\ child'[n] = "reaped"
  /\ n \in asked
  /\ UNCHANGED <<ended[n], redirect[n], collector[n], result[n]>>

Collected(n) ==
  /\ child[n] \notin {"none", "running"} /\ child'[n] = "reaped"
  /\ collector[n] = "wait4" /\ collector'[n] = "store"
  /\ result'[n] = IF child[n] = "zombie" THEN ended[n] ELSE "killed"
  /\ UNCHANGED <<ended[n], redirect[n]>>

WentOn(n) ==
  /\ <<collector[n], collector'[n]>> \in
       {<<"out", "err">>, <<"err", "wait4">>, <<"store", "set">>, <<"set", "done">>}
  /\ UNCHANGED <<child[n], ended[n], redirect[n], result[n]>>

(* It can be nothing else. *)
LEMMA LifeSteps ==
  ASSUME Inv, [Next]_vars, NEW n \in Children
  PROVE  /\ asked \subseteq asked'
         /\ Same(n) \/ Started(n) \/ Ended(n) \/ Reaped(n) \/ Collected(n) \/ WentOn(n)
<1> USE DEF Inv, lifeVars, programVars, resultVars, ownerVars
<1> DEFINE Goal == /\ asked \subseteq asked'
                   /\ \/ Same(n) \/ Started(n) \/ Ended(n) \/ Reaped(n) \/ Collected(n)
                      \/ WentOn(n)
<1>0. /\ redirect \in [Children -> SUBSET Streams] /\ child \in [Children -> Lives]
      /\ ended \in [Children -> Ends] /\ result \in [Children -> Ends]
      /\ collector \in [Children -> Collectors]
      /\ child[n] # "none" <=> n <= id_
  BY DEF TypeOK
<1>1. ASSUME NEW m \in Children, NEW streams \in SUBSET Streams, NEW k \in 0..MaxOutput,
             start_async(m, streams, k)
      PROVE  Goal
  <2>1. CASE m = n
    <3>1. child[n] = "none"
      BY <1>0, <1>1, <2>1 DEF start_async, TypeOK
    <3> QED
      BY <1>0, <1>1, <2>1, <3>1 DEF start_async, Started
  <2>2. CASE m # n
    BY <1>0, <1>1, <2>2 DEF start_async, Same
  <2> QED
    BY <2>1, <2>2
<1>2. CASE get \/ kill \/ destroy \/ Owner
  <2>1. asked \subseteq asked' /\ UNCHANGED <<redirect, collector, result>>
    BY <1>2, OwnerSteps
  <2>2. CASE UNCHANGED lifeVars
    BY <2>1, <2>2 DEF Same
  <2>3. CASE /\ id_ \in asked \cap Children /\ Running(id_)
             /\ child' = [child EXCEPT ![id_] = "zombie"]
             /\ ended' = [ended EXCEPT ![id_] = "killed"]
    BY <1>0, <2>1, <2>3 DEF Same, Ended
  <2>4. CASE /\ id_ \in asked \cap Children /\ ~Running(id_)
             /\ child' = [child EXCEPT ![id_] = "reaped"]
             /\ ended' = ended
    <3>1. n = id_ => child[n] \notin {"none", "running"}
      BY <1>0, <2>4 DEF Running, Children, TypeOK
    <3> QED
      BY <1>0, <2>1, <2>4, <3>1 DEF Same, Reaped
  <2> QED
    BY <1>2, <2>2, <2>3, <2>4, OwnerSteps
<1>3. CASE move
  BY <1>3 DEF move, Same
<1>4. ASSUME NEW m \in Children, write(m) \/ read(m) PROVE Goal
  BY <1>4 DEF write, read, Same
<1>5. ASSUME NEW m \in Children, exit(m) PROVE Goal
  BY <1>0, <1>5 DEF exit, End, Same, Ended
<1>6. ASSUME NEW m \in Children, read_pipe_end(m) \/ store(m) \/ set_value(m) PROVE Goal
  <2>1. UNCHANGED <<child, ended, redirect, result, asked>>
    BY <1>6 DEF read_pipe_end, store, set_value
  <2>2. \/ collector'[n] = collector[n]
        \/ <<collector[n], collector'[n]>> \in
             {<<"out", "err">>, <<"err", "wait4">>, <<"store", "set">>, <<"set", "done">>}
    BY <1>0, <1>6 DEF read_pipe_end, store, set_value, Collect
  <2> QED
    BY <2>1, <2>2 DEF Same, WentOn
<1>7. ASSUME NEW m \in Children, wait4(m) PROVE Goal
  <2>1. CASE m = n
    <3>1. child[n] \notin {"none", "running"}
      BY <1>7, <2>1 DEF wait4, Collect, Running, EndInv
    <3> QED
      BY <1>0, <1>7, <2>1, <3>1 DEF wait4, Collect, Collected
  <2>2. CASE m # n
    BY <1>0, <1>7, <2>2 DEF wait4, Collect, Same
  <2> QED
    BY <2>1, <2>2
<1>8. CASE UNCHANGED vars
  BY <1>8 DEF vars, Same
<1> QED
  BY <1>1, <1>2, <1>3, <1>4, <1>5, <1>6, <1>7, <1>8 DEF Next, Child, Collector

(* Who ends children, and who reaps them. *)
LEMMA EndStep ==
  ASSUME Inv, [Next]_vars
  PROVE  EndInv'
<1> SUFFICES ASSUME NEW n \in Children
             PROVE  /\ collector'[n] = "none" <=> child'[n] = "none"
                    /\ child'[n] = "none" => redirect'[n] = {}
                    /\ ended'[n] = "none" <=> child'[n] \in {"none", "running"}
                    /\ ended'[n] = "killed" => n \in asked'
                    /\ child'[n] = "reaped" =>
                         n \in asked' \/ collector'[n] \in {"store", "set", "done"}
  BY DEF EndInv
<1>1. /\ collector[n] = "none" <=> child[n] = "none"
      /\ child[n] = "none" => redirect[n] = {}
      /\ ended[n] = "none" <=> child[n] \in {"none", "running"}
      /\ ended[n] = "killed" => n \in asked
      /\ child[n] = "reaped" => n \in asked \/ collector[n] \in {"store", "set", "done"}
  BY DEF Inv, EndInv
<1>2. asked \subseteq asked'
  BY LifeSteps
<1>3. CASE Same(n)
  BY <1>1, <1>2, <1>3 DEF Same
<1>4. CASE Started(n)
  BY <1>1, <1>2, <1>4 DEF Started
<1>5. CASE Ended(n)
  BY <1>1, <1>2, <1>5 DEF Ended, Running
<1>6. CASE Reaped(n)
  BY <1>1, <1>2, <1>6 DEF Reaped
<1>7. CASE Collected(n)
  BY <1>1, <1>2, <1>7 DEF Collected
<1>8. CASE WentOn(n)
  BY <1>1, <1>2, <1>8 DEF WentOn
<1> QED
  BY <1>3, <1>4, <1>5, <1>6, <1>7, <1>8, LifeSteps

(* The inductive invariant holds in every reachable state. *)
LEMMA Invariance == Spec => []Inv
<1>1. Inv /\ [Next]_vars => Inv'
  BY TypesStep, OwnerStep, OutputStep, EndStep DEF Inv
<1> QED
  BY <1>1, InitInv, PTL DEF Spec

-----------------------------------------------------------------------------

(* The types are right, whatever the bounds; the object knows the last     *)
(* child it has started.                                                   *)
THEOREM TypeCorrect == Spec => []TypeOK
<1>1. Inv => TypeOK
  BY DEF Inv
<1> QED
  BY <1>1, Invariance, PTL

(* However the owner's calls, the child and the collecting thread          *)
(* interleave, a result that is ready has all that the child wrote, and    *)
(* its exit status is wrong only if kill() or the destructor went for it.  *)
THEOREM ResultsAreComplete == Spec => []ResultComplete
<1>1. Init => ResultComplete
  BY DEF Init, ResultComplete
<1>2. Inv /\ Inv' /\ ResultComplete /\ [Next]_vars => ResultComplete'
  <2> SUFFICES ASSUME Inv, Inv', ResultComplete, [Next]_vars, NEW n \in Children,
                      collector'[n] \in {"store", "set", "done"}
               PROVE  /\ child'[n] = "reaped"
                      /\ \A s \in Streams : pipe'[n][s] = 0
                      /\ result'[n] \in {ended'[n], "killed"}
                      /\ n \notin asked' => result'[n] = "exited"
    BY DEF ResultComplete
  <2>1. \A s \in Streams : pipe'[n][s] = 0
    BY DEF Inv, OutputInv, Past
  <2>2. collector[n] \in {"store", "set", "done"} =>
          /\ child[n] = "reaped"
          /\ result[n] \in {ended[n], "killed"}
          /\ n \notin asked => result[n] = "exited"
    BY DEF ResultComplete
  <2>3. asked \subseteq asked'
    BY LifeSteps
  <2>4. CASE Same(n)
    BY <2>1, <2>2, <2>3, <2>4 DEF Same
  <2>5. CASE Started(n)
    BY <2>5 DEF Started
  <2>6. CASE Ended(n)
    BY <2>2, <2>6 DEF Ended, Running
  <2>7. CASE Reaped(n)
    BY <2>1, <2>2, <2>3, <2>7 DEF Reaped
  <2>8. CASE Collected(n)
    <3>1. child[n] = "reaped" => n \in asked
      BY <2>8 DEF Collected, Inv, EndInv
    <3>2. child[n] = "zombie" => ended[n] = "exited" \/ (ended[n] = "killed" /\ n \in asked)
      BY DEF Inv, EndInv, TypeOK, Ends
    <3>3. child[n] \in {"zombie", "reaped"}
      BY <2>8 DEF Collected, Inv, TypeOK, Lives
    <3> QED
      BY <2>1, <2>3, <2>8, <3>1, <3>2, <3>3 DEF Collected
  <2>9. CASE WentOn(n)
    BY <2>1, <2>2, <2>3, <2>9 DEF WentOn
  <2> QED
    BY <2>4, <2>5, <2>6, <2>7, <2>8, <2>9, LifeSteps
<1> QED
  BY <1>1, <1>2, Invariance, PTL DEF Spec

(* An object that has started one child and says it has exited, or that is *)
(* destroyed, leaves no process behind.                                    *)
THEOREM NobodyIsLeft == Spec => []ExitedIsReaped
<1>1. Init => ExitedIsReaped
  BY DEF Init, ExitedIsReaped
<1>2. Inv /\ ResultComplete /\ ExitedIsReaped /\ [Next]_vars => ExitedIsReaped'
  <2> SUFFICES ASSUME Inv, ResultComplete, ExitedIsReaped, [Next]_vars, id_' = 1,
                      has_exited_' \/ owner' = "destroyed"
               PROVE  child'[1] = "reaped"
    BY DEF ExitedIsReaped
  <2> USE DEF lifeVars, programVars, resultVars, ownerVars
  <2>1. ASSUME child[1] = "reaped", 1 \in Children PROVE child'[1] = "reaped"
    <3>1. child[1] \notin {"none", "running"}
      BY <2>1
    <3> QED
      BY <2>1, <3>1, LifeSteps DEF Same, Started, Ended, Reaped, Collected, WentOn, Running
  <2>2. /\ id_ = 0 => ~has_exited_ /\ owner \in {"out", "destroyed"}
        /\ id_ \in 0..MaxStarts /\ MaxStarts \in Nat
    BY BoundsAssumption DEF Inv, OwnerInv, TypeOK
  <2>3. CASE id_ = 1 /\ (has_exited_ \/ owner = "destroyed")
    <3>1. child[1] = "reaped" /\ 1 \in Children
      BY <2>2, <2>3 DEF ExitedIsReaped, Children
    <3> QED
      BY <2>1, <3>1
  <2>4. CASE id_ # 1
    <3>1. PICK n \in Children, streams \in SUBSET Streams, k \in 0..MaxOutput :
                 start_async(n, streams, k)
      BY <2>4 DEF Next, Child, Collector, Owner, get, kill, move, destroy, got, term, poll,
                  deadline, sigkill, reap, Go, write, exit, read, read_pipe_end, wait4, store,
                  set_value, vars
    <3> QED
      BY <2>2, <2>4, <3>1 DEF start_async, Children
  <2>5. CASE id_ = 1 /\ ~has_exited_ /\ owner # "destroyed"
    <3>1. \/ poll \/ reap \/ destroy
          \/ \E n \in Children : store(n)
      <4>1. ASSUME NEW n \in Children, NEW streams \in SUBSET Streams, NEW k \in 0..MaxOutput,
                   start_async(n, streams, k)
            PROVE  FALSE
        BY <2>5, <4>1 DEF start_async
      <4>2. ASSUME get \/ kill \/ got \/ term \/ deadline \/ sigkill PROVE FALSE
        BY <2>5, <4>2 DEF get, kill, got, term, deadline, sigkill, Go
      <4>3. ASSUME NEW n \in Children,
                   write(n) \/ exit(n) \/ read(n) \/ read_pipe_end(n) \/ wait4(n) \/ set_value(n)
            PROVE  FALSE
        BY <2>5, <4>3 DEF write, exit, read, read_pipe_end, wait4, set_value
      <4>4. ASSUME move \/ UNCHANGED vars PROVE FALSE
        BY <2>5, <4>4 DEF move, vars
      <4> QED
        BY <4>1, <4>2, <4>3, <4>4 DEF Next, Child, Collector, Owner
    <3>2. 1 \in Children /\ child \in [Children -> Lives]
      BY <2>2, <2>5 DEF Children, Inv, TypeOK
    <3>3. CASE poll \/ reap
      BY <2>5, <3>2, <3>3 DEF poll, reap
    <3>4. CASE destroy
      BY <2>5, <3>4 DEF destroy, Go, Kills
    <3>5. ASSUME NEW n \in Children, store(n) PROVE child'[1] = "reaped"
      <4>1. child[n] = "reaped"
        BY <3>5 DEF store, Collect, ResultComplete
      <4>2. n = 1
        BY <2>5, <4>1 DEF Inv, TypeOK, Children
      <4> QED
        BY <2>1, <4>1, <4>2
    <3> QED
      BY <3>1, <3>3, <3>4, <3>5
  <2> QED
    BY <2>3, <2>4, <2>5
<1> QED
  BY <1>1, <1>2, Invariance, ResultsAreComplete, PTL DEF Spec
==============================================================================

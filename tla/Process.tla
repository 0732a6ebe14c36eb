-------------------------------- MODULE Process --------------------------------
(***************************************************************************)
(* Framework::SubProcess::Process: a child process, the pipes its output   *)
(* is redirected to, the detached thread that collects its result, and the *)
(* owner of the object, which waits for the result, kills the child or     *)
(* destroys the object meanwhile.                                          *)
(*                                                                         *)
(* A system call is one step.  A child is its number, the n-th that        *)
(* start_async() forks; its output is counted in pieces of any size, of    *)
(* which a pipe holds Capacity.  It leaves no process of its own behind    *)
(* that would keep its pipes open, and no pid is given to two processes.   *)
(***************************************************************************)
EXTENDS Naturals

CONSTANTS MaxStarts,   \* bound on the number of children
          Capacity,    \* how many pieces a pipe holds
          MaxOutput    \* bound on the pieces a child writes

ASSUME BoundsAssumption ==
  MaxStarts \in Nat /\ Capacity \in Nat \ {0} /\ MaxOutput \in Nat

Children == 1..MaxStarts
Streams == {"out", "err"}

VARIABLES id_,         \* the child of the last start_async(), 0 before it
          has_exited_,
          owner,       \* where the owner is, see Owners
          child,       \* child[n] as the kernel has it, see Lives
          ended,       \* how it ended, see Ends
          redirect,    \* the streams of it that are redirected
          left,        \* how many pieces it may still write to them
          next,        \* what it does next: write to a stream, or exit
          pipe,        \* how many pieces are in each of its pipes
          collector,   \* where the thread that collects its result is
          result,      \* how its ProcessResult says it ended
          moved,       \* the children whose thread will store elsewhere
          asked        \* history: the children kill() or ~Process() went for

lifeVars == <<child, ended>>
programVars == <<redirect, left, next>>
resultVars == <<collector, result, moved>>
ownerVars == <<id_, has_exited_, owner, asked>>
vars == <<ownerVars, lifeVars, programVars, pipe, resultVars>>

(* "waiting": in start() or in the future's get(); in kill(): "term",      *)
(* "poll", "sigkill", "reap"; in the destructor: "last_sigkill",           *)
(* "last_reap", then "destroyed".                                          *)
Owners ==
  {"out", "waiting", "term", "poll", "sigkill", "reap",
   "last_sigkill", "last_reap", "destroyed"}

Lives == {"none", "running", "zombie", "reaped"}

(* In read_pipe of the one stream or the other, in wait4, before the store *)
(* of has_exited_, before the promise is set.                              *)
Collectors == {"none", "out", "err", "wait4", "store", "set", "done"}

(* "killed" is the exit code -1 of a child that did not end by itself. *)
Ends == {"none", "exited", "killed"}

Init ==
  /\ id_ = 0 /\ has_exited_ = FALSE
  /\ owner = "out" /\ asked = {}
  /\ child = [n \in Children |-> "none"]
  /\ ended = [n \in Children |-> "none"]
  /\ redirect = [n \in Children |-> {}]
  /\ left = [n \in Children |-> 0]
  /\ next = [n \in Children |-> "exit"]
  /\ pipe = [n \in Children |-> [s \in Streams |-> 0]]
  /\ collector = [n \in Children |-> "none"]
  /\ result = [n \in Children |-> "none"]
  /\ moved = {}

Running(n) == child[n] = "running"

-----------------------------------------------------------------------------
(* The child. *)

(* What a child with k pieces to write may do next; what it writes to a    *)
(* stream that is not redirected concerns nobody here.                     *)
Choices(streams, k) == IF k = 0 THEN {"exit"} ELSE streams \cup {"exit"}

(* A write waits while the pipe is full. *)
write(n) ==
  /\ Running(n)
  /\ next[n] \in Streams
  /\ pipe[n][next[n]] < Capacity
  /\ pipe' = [pipe EXCEPT ![n][next[n]] = @ + 1]
  /\ left' = [left EXCEPT ![n] = @ - 1]
  /\ \E c \in Choices(redirect[n], left'[n]) : next' = [next EXCEPT ![n] = c]
  /\ UNCHANGED <<ownerVars, lifeVars, redirect, resultVars>>

End(n, how) ==
  /\ child' = [child EXCEPT ![n] = "zombie"]
  /\ ended' = [ended EXCEPT ![n] = how]

(* exit(), of the program or after exec failed: the pipes are closed. *)
exit(n) ==
  /\ Running(n)
  /\ next[n] = "exit"
  /\ End(n, "exited")
  /\ left' = [left EXCEPT ![n] = 0]
  /\ UNCHANGED <<ownerVars, redirect, next, pipe, resultVars>>

(* ::kill(): one that is not running any more does not mind. *)
Signal(n, fatal) ==
  IF Running(n) /\ fatal THEN End(n, "killed") ELSE UNCHANGED lifeVars

-----------------------------------------------------------------------------
(* start_async() *)

(* Slip: the pid is not kept. *)
start_async_NoId(n, streams, k) ==
  /\ owner = "out"
  /\ n = id_ + 1
  /\ child' = [child EXCEPT ![n] = "running"]
  /\ redirect' = [redirect EXCEPT ![n] = streams]
  /\ left' = [left EXCEPT ![n] = IF streams = {} THEN 0 ELSE k]
  /\ \E c \in Choices(streams, k) : next' = [next EXCEPT ![n] = c]
  /\ collector' = [collector EXCEPT ![n] = "out"]
  /\ UNCHANGED <<ownerVars, ended, pipe, result, moved>>

(* The pipes, the fork and the detached thread.  When a pipe or the fork   *)
(* fails what was opened is closed again and nothing has changed.          *)
start_async(n, streams, k) ==
  /\ owner = "out"
  /\ n = id_ + 1
  /\ id_' = n
  /\ child' = [child EXCEPT ![n] = "running"]
  /\ redirect' = [redirect EXCEPT ![n] = streams]
  /\ left' = [left EXCEPT ![n] = IF streams = {} THEN 0 ELSE k]
  /\ \E c \in Choices(streams, k) : next' = [next EXCEPT ![n] = c]
  /\ collector' = [collector EXCEPT ![n] = "out"]
  /\ UNCHANGED <<has_exited_, owner, asked, ended, pipe, result, moved>>

-----------------------------------------------------------------------------
(* The thread that collects the n-th child's result. *)

Collect(n, from, to) ==
  /\ collector[n] = from
  /\ collector' = [collector EXCEPT ![n] = to]

(* read() of read_pipe returns data. *)
read(n) ==
  /\ collector[n] \in Streams
  /\ pipe[n][collector[n]] > 0
  /\ pipe' = [pipe EXCEPT ![n][collector[n]] = @ - 1]
  /\ UNCHANGED <<ownerVars, lifeVars, programVars, resultVars>>

(* Slip: an empty pipe is taken for a closed one. *)
at_end_Empty(n, s) == s \in redirect[n] => pipe[n][s] = 0

(* read() returns 0: the pipe is empty and the child has closed it; or the *)
(* stream is not redirected, and read_pipe returns at once.                *)
at_end(n, s) == s \in redirect[n] => pipe[n][s] = 0 /\ ~Running(n)

read_pipe_end(n) ==
  /\ \/ Collect(n, "out", "err") /\ at_end(n, "out")
     \/ Collect(n, "err", "wait4") /\ at_end(n, "err")
  /\ UNCHANGED <<ownerVars, lifeVars, programVars, pipe, result, moved>>

(* wait4() reaps the child, or fails with ECHILD when somebody else did:   *)
(* status is still -1, which gives the exit code -1 as a signal does.      *)
wait4(n) ==
  /\ Collect(n, "wait4", "store")
  /\ ~Running(n)
  /\ child' = [child EXCEPT ![n] = "reaped"]
  /\ result' = [result EXCEPT ![n] =
                  IF child[n] = "zombie" THEN ended[n] ELSE "killed"]
  /\ UNCHANGED <<ownerVars, ended, programVars, pipe, moved>>

(* has_exited_.store(true), whichever child the object has by now; but the *)
(* one it writes to is the one that was started, wherever it has moved.    *)
store(n) ==
  /\ Collect(n, "store", "set")
  /\ has_exited_' = (has_exited_ \/ n \notin moved)
  /\ moved' = moved \ {n}
  /\ UNCHANGED <<id_, owner, asked, lifeVars, programVars, pipe, result>>

set_value(n) ==
  /\ Collect(n, "set", "done")
  /\ UNCHANGED <<ownerVars, lifeVars, programVars, pipe, result, moved>>

-----------------------------------------------------------------------------
(* The owner. *)

Go(from, to) ==
  /\ owner = from /\ owner' = to
  /\ UNCHANGED <<id_, programVars, pipe, resultVars>>

Kills == id_ # 0 /\ ~has_exited_

(* future.get(), which is also what start() does after start_async(). *)
get ==
  /\ Go("out", "waiting")
  /\ id_ # 0
  /\ UNCHANGED <<has_exited_, asked, lifeVars>>

got ==
  /\ Go("waiting", "out")
  /\ collector[id_] = "done"
  /\ UNCHANGED <<has_exited_, asked, lifeVars>>

(* kill(), which returns at once when there is nothing to kill. *)
kill ==
  /\ Go("out", "term")
  /\ Kills
  /\ asked' = asked \cup {id_}
  /\ UNCHANGED <<has_exited_, lifeVars>>

(* SIGTERM, which a child may ignore. *)
term ==
  /\ Go("term", "poll")
  /\ \E fatal \in BOOLEAN : Signal(id_, fatal)
  /\ UNCHANGED <<has_exited_, asked>>

(* Slip: waitpid(WNOHANG) that found nothing ends the loop as well. *)
poll_Trusting ==
  /\ Go("poll", "out")
  /\ child' = [child EXCEPT ![id_] = IF @ = "zombie" THEN "reaped" ELSE @]
  /\ has_exited_' = TRUE
  /\ UNCHANGED <<ended, asked>>

(* waitpid(WNOHANG) reaps the child; while it runs, and when the collector *)
(* was first (ECHILD), the loop goes on.                                   *)
poll ==
  /\ Go("poll", "out")
  /\ child[id_] = "zombie"
  /\ child' = [child EXCEPT ![id_] = "reaped"]
  /\ has_exited_' = TRUE
  /\ UNCHANGED <<ended, asked>>

(* The grace period is over. *)
deadline ==
  /\ Go("poll", IF has_exited_ THEN "out" ELSE "sigkill")
  /\ UNCHANGED <<has_exited_, asked, lifeVars>>

(* Slip: SIGTERM again. *)
sigkill_Term ==
  /\ Go("sigkill", "reap") \/ Go("last_sigkill", "last_reap")
  /\ \E fatal \in BOOLEAN : Signal(id_, fatal)
  /\ UNCHANGED <<has_exited_, asked>>

(* SIGKILL, in kill() and in the destructor. *)
sigkill ==
  /\ Go("sigkill", "reap") \/ Go("last_sigkill", "last_reap")
  /\ Signal(id_, TRUE)
  /\ UNCHANGED <<has_exited_, asked>>

(* The waitpid() that follows, which waits as long as the child runs; only *)
(* kill() stores has_exited_.                                              *)
reap ==
  /\ \/ Go("reap", "out") /\ has_exited_' = TRUE
     \/ Go("last_reap", "destroyed") /\ UNCHANGED has_exited_
  /\ ~Running(id_)
  /\ child' = [child EXCEPT ![id_] = "reaped"]
  /\ UNCHANGED <<ended, asked>>

(* ~Process() *)
destroy ==
  /\ Go("out", IF Kills THEN "last_sigkill" ELSE "destroyed")
  /\ asked' = IF Kills THEN asked \cup {id_} ELSE asked
  /\ UNCHANGED <<has_exited_, lifeVars>>

(* Process(Process &&), or its operator= of an object without a child: the *)
(* pid and the flag go over, and the threads stay with the old object.     *)
move ==
  /\ owner = "out"
  /\ id_ # 0
  /\ moved' = {n \in 1..id_ : collector[n] \notin {"set", "done"}}
  /\ UNCHANGED <<ownerVars, lifeVars, programVars, pipe, collector, result>>

-----------------------------------------------------------------------------

Child(n) == write(n) \/ exit(n)

Collector(n) == read(n) \/ read_pipe_end(n) \/ wait4(n) \/ store(n) \/ set_value(n)

Owner == got \/ term \/ poll \/ deadline \/ sigkill \/ reap

Next ==
  \/ \E n \in Children, streams \in SUBSET Streams, k \in 0..MaxOutput :
       start_async(n, streams, k)
  \/ get \/ kill \/ move \/ destroy \/ Owner
  \/ \E n \in Children : Child(n) \/ Collector(n)

(* The child, the collecting thread and a call of the owner's go on when   *)
(* they can: the child is a program that ends.                             *)
Fairness ==
  /\ WF_vars(Owner)
  /\ \A n \in Children : WF_vars(Child(n)) /\ WF_vars(Collector(n))

Spec == Init /\ [][Next]_vars /\ Fairness

-----------------------------------------------------------------------------

(* Types of the state; the object knows the last child it has started. *)
TypeOK ==
  /\ id_ \in 0..MaxStarts /\ has_exited_ \in BOOLEAN
  /\ owner \in Owners /\ asked \subseteq Children
  /\ child \in [Children -> Lives] /\ ended \in [Children -> Ends]
  /\ redirect \in [Children -> SUBSET Streams]
  /\ left \in [Children -> 0..MaxOutput]
  /\ next \in [Children -> Streams \cup {"exit"}]
  /\ pipe \in [Children -> [Streams -> 0..Capacity]]
  /\ collector \in [Children -> Collectors] /\ result \in [Children -> Ends]
  /\ moved \subseteq 1..id_
  /\ \A n \in Children : child[n] # "none" <=> n <= id_

(* When the result is ready, nothing the child wrote is missing from it,   *)
(* the child is reaped, and the exit status is the one it ended with,      *)
(* unless kill() or the destructor went for it: then they may have reaped  *)
(* it first, and the status is that of a killed child.                     *)
ResultComplete ==
  \A n \in Children : collector[n] \in {"store", "set", "done"} =>
    /\ child[n] = "reaped"
    /\ \A s \in Streams : pipe[n][s] = 0
    /\ result[n] \in {ended[n], "killed"}
    /\ n \notin asked => result[n] = "exited"

(* An object that has started one child and says it has exited, or that is *)
(* destroyed, leaves no process behind, running or a zombie.               *)
ExitedIsReaped ==
  id_ = 1 /\ (has_exited_ \/ owner = "destroyed") => child[id_] = "reaped"

BothRedirected == \E n \in Children : n = id_ /\ redirect[n] = Streams

(* kill() and the destructor return, whatever the child does, and so do    *)
(* start() and the future's get(), unless both streams are redirected.     *)
CallsReturn ==
  /\ owner \in Owners \ {"out", "waiting", "destroyed"}
       ~> owner \in {"out", "destroyed"}
  /\ owner = "waiting" ~> (owner = "out" \/ BothRedirected)
==============================================================================

------------------------------- MODULE EventFlag -------------------------------
(***************************************************************************)
(* EFlag::EventFlag: a pattern of flags that only grows and threads that   *)
(* wait for it to match.                                                   *)
(*                                                                         *)
(* The pattern is changed under mutex_, and evaluating the predicate and   *)
(* joining the wait set happen under it too, so each is one step; set()    *)
(* notifies only after it has released the mutex, which is another step.   *)
(* A Flag, 64 bits wide, is the set of its bits that are 1.                *)
(***************************************************************************)
EXTENDS Naturals

CONSTANTS Bits,        \* the flags in use
          Waiters,     \* the threads that call wait() or timed_wait()
          Setters      \* the threads that call set()

VARIABLES pattern_,
          pc,          \* where each waiter is, see States
          want,        \* the pattern each waiter waits for
          mode,        \* its MatchMode
          timed,       \* whether it called timed_wait()
          result,      \* what its last call returned, "none" while inside
          notifying    \* the setters that have still to notify

call == <<want, mode, timed>>
vars == <<pattern_, pc, call, result, notifying>>

(* "out", "check" (about to evaluate the predicate under mutex_),          *)
(* "blocked" (in the wait set), "expired" (deadline passed, about to       *)
(* evaluate the predicate for the last time).                              *)
States == {"out", "check", "blocked", "expired"}

Init ==
  /\ pattern_ = {}
  /\ pc = [w \in Waiters |-> "out"]
  /\ want = [w \in Waiters |-> {}]
  /\ mode = [w \in Waiters |-> "OR"]
  /\ timed = [w \in Waiters |-> FALSE]
  /\ result = [w \in Waiters |-> "none"]
  /\ notifying = {}

(* AND compares for equality, OR for a common bit. *)
match(w) ==
  IF mode[w] = "AND" THEN want[w] = pattern_ ELSE want[w] \cap pattern_ # {}

Inside(w) == pc[w] # "out"

(* wait() and timed_wait() *)
wait(w, flags, m, t) ==
  /\ ~Inside(w)
  /\ pc' = [pc EXCEPT ![w] = "check"]
  /\ want' = [want EXCEPT ![w] = flags]
  /\ mode' = [mode EXCEPT ![w] = m]
  /\ timed' = [timed EXCEPT ![w] = t]
  /\ result' = [result EXCEPT ![w] = "none"]
  /\ UNCHANGED <<pattern_, notifying>>

(* The predicate holds: wait() returns, timed_wait() returns true. *)
Pass(w) ==
  /\ pc[w] \in {"check", "expired"}
  /\ match(w)
  /\ pc' = [pc EXCEPT ![w] = "out"]
  /\ result' = [result EXCEPT ![w] = "true"]
  /\ UNCHANGED <<pattern_, call, notifying>>

Block(w) ==
  /\ pc[w] = "check"
  /\ ~match(w)
  /\ pc' = [pc EXCEPT ![w] = "blocked"]
  /\ UNCHANGED <<pattern_, call, result, notifying>>

Spurious(w) ==
  /\ pc[w] = "blocked"
  /\ pc' = [pc EXCEPT ![w] = "check"]
  /\ UNCHANGED <<pattern_, call, result, notifying>>

Expire(w) ==
  /\ timed[w]
  /\ pc[w] \in {"check", "blocked"}
  /\ pc' = [pc EXCEPT ![w] = "expired"]
  /\ UNCHANGED <<pattern_, call, result, notifying>>

(* timed_wait() returns false. *)
GiveUp(w) ==
  /\ pc[w] = "expired"
  /\ ~match(w)
  /\ pc' = [pc EXCEPT ![w] = "out"]
  /\ result' = [result EXCEPT ![w] = "false"]
  /\ UNCHANGED <<pattern_, call, notifying>>

Evaluate(w) == Pass(w) \/ Block(w) \/ GiveUp(w)

(* set(): pattern_ |= pattern, under the mutex ... *)
set(s, flags) ==
  /\ s \notin notifying
  /\ pattern_' = pattern_ \cup flags
  /\ notifying' = notifying \cup {s}
  /\ UNCHANGED <<pc, call, result>>

(* Slip: the notification reaches one waiter. *)
notify_One(s) ==
  /\ s \in notifying
  /\ notifying' = notifying \ {s}
  /\ \/ \E w \in Waiters :
          /\ pc[w] = "blocked"
          /\ pc' = [pc EXCEPT ![w] = "check"]
     \/ /\ \A w \in Waiters : pc[w] # "blocked"
        /\ UNCHANGED pc
  /\ UNCHANGED <<pattern_, call, result>>

(* Slip: nobody is notified. *)
notify_Nobody(s) ==
  /\ s \in notifying
  /\ notifying' = notifying \ {s}
  /\ UNCHANGED <<pattern_, pc, call, result>>

(* ... then notify_all(), after the mutex is released. *)
notify(s) ==
  /\ s \in notifying
  /\ notifying' = notifying \ {s}
  /\ pc' = [w \in Waiters |-> IF pc[w] = "blocked" THEN "check" ELSE pc[w]]
  /\ UNCHANGED <<pattern_, call, result>>

Next ==
  \/ \E w \in Waiters :
       \/ \E flags \in SUBSET Bits, m \in {"AND", "OR"}, t \in BOOLEAN : wait(w, flags, m, t)
       \/ Evaluate(w)
       \/ Spurious(w)
       \/ Expire(w)
  \/ \E s \in Setters :
       \/ \E flags \in SUBSET Bits : set(s, flags)
       \/ notify(s)

(* Threads that can run do, and clocks advance. *)
Fairness ==
  /\ \A w \in Waiters : WF_vars(Evaluate(w)) /\ WF_vars(Expire(w))
  /\ \A s \in Setters : WF_vars(notify(s))

Safety == Init /\ [][Next]_vars

Spec == Safety /\ Fairness

-----------------------------------------------------------------------------

(* Types of the state; a call that has not returned has no result. *)
TypeOK ==
  /\ pattern_ \subseteq Bits
  /\ pc \in [Waiters -> States]
  /\ want \in [Waiters -> SUBSET Bits]
  /\ mode \in [Waiters -> {"AND", "OR"}]
  /\ timed \in [Waiters -> BOOLEAN]
  /\ result \in [Waiters -> {"none", "true", "false"}]
  /\ notifying \subseteq Setters
  /\ \A w \in Waiters : Inside(w) => result[w] = "none"

(* A waiter whose pattern matches is never left asleep: a setter that has  *)
(* released the mutex is still on its way to notify it.                    *)
NoLostWakeup ==
  \A w \in Waiters : pc[w] = "blocked" /\ match(w) => notifying # {}

(* timed_wait() returns, and wait() returns when its match lasts: an OR    *)
(* match always does, an AND match until another flag is set.              *)
MatchedWaiterReturns ==
  \A w \in Waiters : []<>~(Inside(w) /\ (timed[w] \/ match(w)))

==============================================================================

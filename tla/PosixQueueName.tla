---------------------------- MODULE PosixQueueName ----------------------------
(***************************************************************************)
(* The life of the name of a PosixMessageQueue<T>: the objects that open   *)
(* it, as Owner or Attach, in processes that may crash, and the kernel,    *)
(* which keeps the queue of a name until it is unlinked, and a queue       *)
(* without a name until nobody has it open any more.                       *)
(*                                                                         *)
(* What goes on in a queue is the matter of PosixMessageQueue: here it     *)
(* holds messages or none.  All objects have the same T, and mq_open()     *)
(* fails only where there is no such name.                                 *)
(***************************************************************************)
EXTENDS Naturals

CONSTANTS Processes,   \* the processes
          Instances,   \* the objects they may have of that name
          In,          \* In[o]: the process of object o
          Sizes,       \* the values of max_msg that owners ask for
          Queues,      \* the kernel's queues
          None         \* no queue

ASSUME InAssumption == In \in [Instances -> Processes]
ASSUME SizesAssumption == Sizes \subseteq Nat \ {0}
ASSUME NoneAssumption == None \notin Queues

VARIABLES named,       \* the queue that has the name, if any
          max_msg,     \* the max_msg each queue was created with, 0 if never
          filled,      \* the queues that hold messages
          state,       \* where each object is in its life, see States
          owner_,      \* the objects that are an Owner
          mqd_,        \* the queue that each object has opened
          wanted,      \* the max_msg each owner asked for (history)
          found,       \* the objects that found messages there (history)
          leftover,    \* the queues of owners that have crashed (history)
          shared       \* the owners there are have met others (history)

kernel == <<named, max_msg, filled>>
objects == <<state, owner_, mqd_>>
nameHistory == <<wanted, found, leftover, shared>>
nameVars == <<kernel, objects, nameHistory>>

(* "closed": its destructor has closed the descriptor, and not yet         *)
(* unlinked the name.                                                      *)
States == {"none", "open", "closed"}

NameInit ==
  /\ named = None
  /\ max_msg = [q \in Queues |-> 0]
  /\ filled = {}
  /\ state = [o \in Instances |-> "none"]
  /\ owner_ = {}
  /\ mqd_ = [o \in Instances |-> None]
  /\ wanted = [o \in Instances |-> 0]
  /\ found = {} /\ leftover = {} /\ shared = FALSE

-----------------------------------------------------------------------------
(* The constructors. *)

Open(o, q) ==
  /\ state[o] = "none"
  /\ state' = [state EXCEPT ![o] = "open"]
  /\ mqd_' = [mqd_ EXCEPT ![o] = q]

(* No queue has the name: a new one gets it. *)
create(q, size) ==
  /\ named' = q
  /\ max_msg' = [max_msg EXCEPT ![q] = size]
  /\ filled' = filled \ {q} /\ leftover' = leftover \ {q}

InUse(q) == q = named \/ \E o \in Instances : state[o] # "none" /\ mqd_[o] = q

(* mq_open(O_CREAT | O_RDWR): the queue of the name, as it is, or a new    *)
(* one, and only then max_msg is looked at.                                *)
open_owner(o, size) ==
  /\ IF named # None
     THEN /\ Open(o, named)
          /\ found' = IF named \in filled THEN found \cup {o} ELSE found
          /\ UNCHANGED <<kernel, leftover>>
     ELSE \E q \in {r \in Queues : ~InUse(r)} :
            Open(o, q) /\ create(q, size) /\ UNCHANGED found
  /\ wanted' = [wanted EXCEPT ![o] = size]
  /\ owner_' = owner_ \cup {o}
  /\ shared' = (owner_ # {})

(* mq_open(O_RDWR), which throws where there is no such name. *)
open_attach(o) ==
  /\ named # None
  /\ Open(o, named)
  /\ UNCHANGED <<kernel, owner_, nameHistory>>

(* do_send(), and mq_receive() of the last message. *)
do_send(o) ==
  /\ state[o] = "open"
  /\ filled' = filled \cup {mqd_[o]}
  /\ UNCHANGED <<named, max_msg, objects, nameHistory>>

mq_receive(o) ==
  /\ state[o] = "open"
  /\ filled' = filled \ {mqd_[o]}
  /\ UNCHANGED <<named, max_msg, objects, nameHistory>>

-----------------------------------------------------------------------------
(* ~PosixMessageQueue(): mq_close(), and mq_unlink() by an owner. *)

(* Objects are no more; owners that have met others count as such until    *)
(* they are all gone.                                                      *)
Gone(dying) ==
  /\ state' = [o \in Instances |-> IF o \in dying THEN "none" ELSE state[o]]
  /\ mqd_' = [o \in Instances |-> IF o \in dying THEN None ELSE mqd_[o]]
  /\ wanted' = [o \in Instances |-> IF o \in dying THEN 0 ELSE wanted[o]]
  /\ owner_' = owner_ \ dying
  /\ found' = found \ dying
  /\ shared' = (shared /\ owner_ \ dying # {})

(* Slip: whoever closes unlinks, too. *)
close_Unlinks(o) ==
  /\ state[o] = "open"
  /\ state' = [state EXCEPT ![o] = "closed"]
  /\ UNCHANGED <<kernel, owner_, mqd_, nameHistory>>

(* Slip: nobody unlinks. *)
close_Only(o) ==
  /\ state[o] = "open"
  /\ Gone({o})
  /\ UNCHANGED <<kernel, leftover>>

close(o) ==
  /\ state[o] = "open"
  /\ IF o \in owner_
     THEN /\ state' = [state EXCEPT ![o] = "closed"]
          /\ UNCHANGED <<owner_, mqd_, nameHistory>>
     ELSE Gone({o}) /\ UNCHANGED leftover
  /\ UNCHANGED kernel

(* The name is taken from whatever queue has it by now; if none has, the   *)
(* error is ignored.                                                       *)
unlink(o) ==
  /\ state[o] = "closed"
  /\ named' = None
  /\ Gone({o})
  /\ UNCHANGED <<max_msg, filled, leftover>>

(* The process dies: the kernel closes its descriptors, and nobody unlinks *)
(* for it.                                                                 *)
crash(p) ==
  LET dying == {o \in Instances : In[o] = p /\ state[o] # "none"} IN
    /\ dying # {}
    /\ Gone(dying)
    /\ leftover' = leftover \cup {mqd_[o] : o \in dying \cap owner_}
    /\ UNCHANGED kernel

-----------------------------------------------------------------------------

NameNext ==
  \/ \E o \in Instances :
       \/ \E size \in Sizes : open_owner(o, size)
       \/ open_attach(o)
       \/ do_send(o) \/ mq_receive(o) \/ close(o) \/ unlink(o)
  \/ \E p \in Processes : crash(p)

NameSpec == NameInit /\ [][NameNext]_nameVars

-----------------------------------------------------------------------------

(* Types of the state; an object that there is has opened a queue. *)
NameTypeOK ==
  /\ named \in Queues \cup {None}
  /\ max_msg \in [Queues -> Sizes \cup {0}]
  /\ filled \subseteq Queues
  /\ state \in [Instances -> States]
  /\ owner_ \subseteq {o \in Instances : state[o] # "none"}
  /\ mqd_ \in [Instances -> Queues \cup {None}]
  /\ \A o \in Instances : state[o] # "none" => mqd_[o] # None
  /\ wanted \in [Instances -> Sizes \cup {0}]
  /\ found \subseteq Instances
  /\ leftover \subseteq Queues
  /\ shared \in BOOLEAN

(* A queue keeps its name no longer than it has an owner, in whatever      *)
(* order owners come and go: only one whose owner crashed is left behind,  *)
(* until the next owner of the name is destroyed.                          *)
NameHasOwner ==
  named # None => named \in leftover \/ \E o \in owner_ : mqd_[o] = named

(* "Owner: a new queue is created": an owner alone with its name has the   *)
(* queue that Attach objects get, it was empty, and it is of the size that *)
(* was asked for; but not where a crashed owner left a queue, which        *)
(* O_CREAT opens as it is, and not once a second owner has come.           *)
OwnerHasNewQueue ==
  \A o \in owner_ :
    state[o] = "open" /\ mqd_[o] \notin leftover /\ ~shared =>
      named = mqd_[o] /\ max_msg[named] = wanted[o] /\ o \notin found
==============================================================================

------------------------------- MODULE Monitor -------------------------------
(***************************************************************************)
(* What mutexes and condition variables promise to an application: at most *)
(* one thread is inside a mutex; a thread that waits on a condition leaves *)
(* the mutex in the same step, and comes back after a notification, when   *)
(* the mutex is free.  In which order threads are let in is left open.     *)
(***************************************************************************)
CONSTANTS Threads, Mutexes, Conds

VARIABLES
  inside,    \* inside[m]: who has locked m
  entering,  \* entering[m]: who wants to
  waiting    \* waiting[c]: pairs of a thread and the mutex it gave up

vars == <<inside, entering, waiting>>

Init ==
  /\ inside = [m \in Mutexes |-> {}]
  /\ entering = [m \in Mutexes |-> {}]
  /\ waiting = [c \in Conds |-> {}]

Suspended(t) ==
  \/ \E m \in Mutexes : t \in entering[m]
  \/ \E c \in Conds, m \in Mutexes : <<t, m>> \in waiting[c]

Request(t, m) ==
  /\ ~ Suspended(t)
  /\ entering' = [entering EXCEPT ![m] = @ \cup {t}]
  /\ UNCHANGED <<inside, waiting>>

Enter(t, m) ==
  /\ inside[m] = {}
  /\ t \in entering[m] \/ ~ Suspended(t)
  /\ inside' = [inside EXCEPT ![m] = {t}]
  /\ entering' = [entering EXCEPT ![m] = @ \ {t}]
  /\ UNCHANGED waiting

Leave(t, m) ==
  /\ t \in inside[m] /\ ~ Suspended(t)
  /\ inside' = [inside EXCEPT ![m] = @ \ {t}]
  /\ UNCHANGED <<entering, waiting>>

Wait(t, m, c) ==
  /\ t \in inside[m] /\ ~ Suspended(t)
  /\ inside' = [inside EXCEPT ![m] = @ \ {t}]
  /\ waiting' = [waiting EXCEPT ![c] = @ \cup {<<t, m>>}]
  /\ UNCHANGED entering

(* By a thread that is not itself suspended. *)
Notify(t, c, woken) ==
  /\ ~ Suspended(t)
  /\ waiting' = [waiting EXCEPT ![c] = @ \ woken]
  /\ entering' = [m \in Mutexes |-> entering[m] \cup {u \in Threads : <<u, m>> \in woken}]
  /\ UNCHANGED inside

Next ==
  \E t \in Threads :
    \/ \E m \in Mutexes :
         \/ Request(t, m) \/ Enter(t, m) \/ Leave(t, m)
         \/ \E c \in Conds : Wait(t, m, c)
    \/ \E c \in Conds : \E woken \in SUBSET waiting[c] : Notify(t, c, woken)

Spec == Init /\ [][Next]_vars
=============================================================================

---------------------------- MODULE ThreadRegistry ----------------------------
(***************************************************************************)
(* What the thread table promises to the threads that call it, without its *)
(* slots, its scans and its mutex: a set of at most Capacity structures,   *)
(* which every call looks at and changes at one moment between its start   *)
(* and its end.  A registration is refused at a moment when the set is     *)
(* full, and only an unregistration takes a structure out.                 *)
(***************************************************************************)
EXTENDS Naturals, FiniteSets

CONSTANTS Procs, Threads, Capacity, NULL

VARIABLES
  listed,   \* the structures in the table
  asks,     \* asks[p]: what p has called for and not got
  about,    \* about[p]: the structure that call is about
  answer    \* answer[p]: what the last call has returned, until p goes on

registryVars == <<listed, asks, about, answer>>

Init ==
  /\ listed = {}
  /\ asks = [p \in Procs |-> "nothing"]
  /\ about = [p \in Procs |-> NULL]
  /\ answer = [p \in Procs |-> "none"]

\* p asks for something about a structure of T.
Ask(p, what, T) ==
  /\ asks[p] = "nothing"
  /\ asks' = [asks EXCEPT ![p] = what]
  /\ \E t \in T : about' = [about EXCEPT ![p] = t]
  /\ answer' = [answer EXCEPT ![p] = "none"]
  /\ UNCHANGED listed

\* The call of p takes effect and has the answer a.
Answer(p, what, a) ==
  /\ asks[p] = what
  /\ asks' = [asks EXCEPT ![p] = "nothing"]
  /\ about' = [about EXCEPT ![p] = NULL]
  /\ answer' = [answer EXCEPT ![p] = a]

Register(p) ==
  /\ Answer(p, "register", "SUCCESS")
  /\ about[p] \notin listed
  /\ Cardinality(listed) < Capacity
  /\ listed' = listed \cup {about[p]}

Refuse(p) ==
  /\ Answer(p, "register", "NOT_FOUND")
  /\ Cardinality(listed) = Capacity
  /\ UNCHANGED listed

Unregister(p) ==
  /\ Answer(p, "unregister", "SUCCESS")
  /\ about[p] \in listed
  /\ listed' = listed \ {about[p]}

Miss(p) ==
  /\ Answer(p, "unregister", "NOT_FOUND")
  /\ about[p] \notin listed
  /\ UNCHANGED listed

Find(p) ==
  /\ \E a \in listed \cup {NULL} : Answer(p, "find", a)
  /\ UNCHANGED listed

GoOn(p) ==
  /\ answer' = [answer EXCEPT ![p] = "none"]
  /\ UNCHANGED <<listed, asks, about>>

Next ==
  \E p \in Procs :
    \/ Register(p) \/ Refuse(p) \/ Unregister(p) \/ Miss(p) \/ Find(p)
    \/ \E what \in {"register", "unregister"} : Ask(p, what, Threads)
    \/ Ask(p, "find", {NULL})
    \/ GoOn(p)

Spec == Init /\ [][Next]_registryVars
===============================================================================

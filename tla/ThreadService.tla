---------------------------- MODULE ThreadService ----------------------------
(***************************************************************************)
(* What the thread API promises to its client, without the table, the      *)
(* mutex and the operating system: a thread is listed from its creation to *)
(* its destruction, at most Capacity threads are listed at a time, the     *)
(* function of a thread has returned before a join of it returns, and the  *)
(* structure of a listed thread can be used again only after that join and *)
(* after the thread has left the list.                                     *)
(***************************************************************************)
EXTENDS Naturals, FiniteSets

CONSTANTS Threads, Capacity

VARIABLES
  status,   \* status[t]: what has become of the thread of the structure t
  listed    \* the structures that are listed

serviceVars == <<status, listed>>

Set(t, s) == status' = [status EXCEPT ![t] = s]

Init ==
  /\ status = [t \in Threads |-> "none"]
  /\ listed = {}

Start(t) ==
  /\ status[t] = "none"
  /\ Set(t, "running")
  /\ UNCHANGED listed

Finish(t) ==
  /\ status[t] = "running"
  /\ Set(t, "finished")
  /\ UNCHANGED listed

List(t) ==
  /\ t \notin listed
  /\ status[t] \in {"running", "finished"}
  /\ Cardinality(listed) < Capacity
  /\ listed' = listed \cup {t}
  /\ UNCHANGED status

\* A creation that fails gives the structure up; its thread is not listed.
Abandon(t) ==
  /\ t \notin listed
  /\ status[t] \in {"running", "finished"}
  /\ Set(t, "none")
  /\ UNCHANGED listed

Join(t) ==
  /\ t \in listed
  /\ status[t] = "finished"
  /\ Set(t, "joined")
  /\ UNCHANGED listed

Unlist(t) ==
  /\ t \in listed
  /\ status[t] = "joined"
  /\ listed' = listed \ {t}
  /\ UNCHANGED status

Release(t) ==
  /\ t \notin listed
  /\ status[t] = "joined"
  /\ Set(t, "none")
  /\ UNCHANGED listed

Next ==
  \E t \in Threads :
    \/ Start(t) \/ Finish(t) \/ List(t) \/ Abandon(t)
    \/ Join(t) \/ Unlist(t) \/ Release(t)

Spec == Init /\ [][Next]_serviceVars
==============================================================================

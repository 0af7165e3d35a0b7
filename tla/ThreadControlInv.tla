--------------------------- MODULE ThreadControlInv ---------------------------
(***************************************************************************)
(* The inductive invariant of ThreadControl!ControlSpec.  It is weaker     *)
(* than that of TTThreadInv, because a destroy may overtake the end of a   *)
(* join by another caller: the structure of a caller at "join_active" may  *)
(* be freed and given out again, a handle may be detached that is another  *)
(* thread's by now, and a destroy may find no entry.                       *)
(***************************************************************************)
EXTENDS ThreadControl, TTThreadInv

\* A thread of the library, detached or not, calls only tt_thread_self.
WorkerCalls ==
  \A h \in Handles :
    pc[h] # "idle" => pc[h] \in FindLabels /\ os[h] \in {"running", "detached"}

\* A structure that is still to be joined is not TERMINATED, and one that is
\* TERMINATED and active is between the two stores of its join.
SharedStructInv ==
  \A t \in Threads :
    /\ t \notin allocated => state[t] = "CREATED" /\ mayDestroy[t] = NULL
    /\ mayJoin[t] # NULL => state[t] = "CREATED" /\ mayDestroy[t] # NULL
    /\ state[t] = "TERMINATED" =>
         mayDestroy[t] # NULL /\ (t \in active => Storing(t))

\* What the structure of a call is, by the call.
SharedCallInv ==
  \A p \in Procs :
    /\ Works(p) /\ pc[p] # "join_active" => arg[p] \in allocated
    /\ ~Works(p) /\ pc[p] \notin {"find_unlock", "find_ret"} => arg[p] = NULL
    /\ Creates(p) => mayDestroy[arg[p]] = NULL
    /\ pc[p] = "join_wait" => mayJoin[arg[p]] = p
    /\ pc[p] = "join_state" =>
         /\ mayJoin[arg[p]] = NULL
         /\ mayDestroy[arg[p]] # NULL
         /\ state[arg[p]] = "CREATED"
    /\ pc[p] \in DestroyLabels =>
         mayDestroy[arg[p]] = p /\ state[arg[p]] = "TERMINATED"

\* No two callers are about to store TERMINATED in the same structure.
StoreAlone ==
  \A p, q \in Procs :
    pc[p] = "join_state" /\ pc[q] = "join_state" /\ arg[p] = arg[q] => p = q

\* result tells whether the structure of a create is in the table; that of a
\* destroy which has found its entry is not.
SharedResultOf(p) ==
  /\ pc[p] \notin UnlistedLabels \cup {"reg_unlock", "reg_ret"} =>
       result[p] = "NOT_FOUND"
  /\ Creates(p) =>
       (result[p] = "SUCCESS" <=> \E i \in Slots : table[i] = arg[p])
  /\ pc[p] \in {"destroy_detach", "destroy_free"} => result[p] = "SUCCESS"
  /\ pc[p] \in UnlistedLabels /\ result[p] = "SUCCESS" =>
       \A i \in Slots : table[i] # arg[p]

SharedResultInv == \A p \in Procs : SharedResultOf(p)

SharedInv ==
  /\ TypeOK /\ LockInv /\ InitAlone /\ WorkerCalls
  /\ SharedStructInv /\ SharedCallInv /\ CreateAlone /\ StoreAlone
  /\ ScanInv /\ SharedResultInv /\ OneEntryEach /\ NoDanglingEntry
  /\ UnjoinedIsListed
===============================================================================

----------------------------- MODULE TTThreadInv -----------------------------
(***************************************************************************)
(* The inductive invariant of TTThread!Spec.  The safety properties of     *)
(* TTThread follow from it (TTThreadProofs); TLC checks it as an invariant *)
(* of a run.                                                               *)
(***************************************************************************)
EXTENDS TTThread

\* The labels of a registration, of a destroy (in UnlistedLabels from the end of the
\* scan on), of a join and of a lookup.
RegLabels == {"reg_lock", "reg_scan", "reg_fill", "reg_unlock", "reg_ret"}
UnlistedLabels == {"unreg_unlock", "unreg_ret", "destroy_detach", "destroy_free"}
DestroyLabels == {"unreg_lock", "unreg_scan", "unreg_unlock", "unreg_ret",
                  "destroy_detach", "destroy_free"}
JoinLabels == {"join_wait", "join_state", "join_active"}
FindLabels == {"find_lock", "find_scan", "find_unlock", "find_ret"}

Creates(p) == pc[p] \in RegLabels \cup {"create"}
Works(p) == pc[p] \in RegLabels \cup DestroyLabels \cup JoinLabels \cup {"create"}

\* The mutex of the table points to a pthread mutex once it is initialised, and
\* the thread in the critical section holds that one.  No thread holds another, nor
\* any outside the critical section.
LockInv ==
  /\ initialized => lock \in MutexObjs
  /\ \A p \in Procs : pc[p] \in Holding => initialized /\ owner[lock] = p
  /\ \A o \in MutexObjs : owner[o] # NULL => o = lock /\ pc[owner[o]] \in Holding

\* While tt_thread_init runs nothing else does.
InitAlone ==
  \A p \in Procs :
    pc[p] \in InitLabels =>
      /\ \A q \in Procs : q # p => pc[q] = "idle"
      /\ \A h \in Handles : os[h] \in {"free", "exited"}
      /\ \A i \in Slots : table[i] = NULL

\* A thread of the library calls only tt_thread_self, and only while it runs.
WorkerInv ==
  \A h \in Handles :
    /\ os[h] # "detached"
    /\ pc[h] # "idle" => pc[h] \in FindLabels /\ os[h] = "running"

\* What a structure is when malloc has not given it out, and when its client may
\* use it.
StructInv ==
  \A t \in Threads :
    /\ t \notin allocated =>
         /\ handle[t] = NULL
         /\ mayDestroy[t] = NULL
         /\ t \notin active
    /\ mayDestroy[t] # NULL => handle[t] # NULL
    /\ mayJoin[t] # NULL => mayDestroy[t] # NULL
    /\ t \in allocated /\ state[t] = "CREATED" => t \in active
    /\ state[t] = "TERMINATED" =>
         /\ mayDestroy[t] # NULL
         /\ mayJoin[t] = NULL
         /\ t \in active => Storing(t)

\* What the structure of a call of p is, by the call.
CallOf(p) ==
  /\ Works(p) => arg[p] \in allocated
  /\ ~Works(p) /\ pc[p] \notin {"find_unlock", "find_ret"} => arg[p] = NULL
  /\ Creates(p) => mayDestroy[arg[p]] = NULL
  /\ pc[p] = "create" => handle[arg[p]] = NULL
  /\ pc[p] \in RegLabels => handle[arg[p]] # NULL
  /\ pc[p] \in JoinLabels => mayDestroy[arg[p]] # NULL
  /\ pc[p] = "join_wait" => mayJoin[arg[p]] = p
  /\ pc[p] \in {"join_state", "join_active"} => mayJoin[arg[p]] = NULL
  /\ pc[p] = "join_state" => state[arg[p]] = "CREATED"
  /\ pc[p] = "join_active" => state[arg[p]] = "TERMINATED" /\ arg[p] \in active
  /\ pc[p] # "destroy_detach"
  /\ pc[p] \in DestroyLabels =>
       /\ mayDestroy[arg[p]] = p
       /\ state[arg[p]] = "TERMINATED"
       /\ arg[p] \notin active

CallInv == \A p \in Procs : CallOf(p)

\* No two callers have joined the same structure and are still to store that.
Joined == {"join_state", "join_active"}

JoinAlone ==
  \A p, q \in Procs :
    pc[p] \in Joined /\ pc[q] \in Joined /\ arg[p] = arg[q] => p = q

\* No two callers create the same structure.
CreateAlone ==
  \A p, q \in Procs : Creates(p) /\ Creates(q) /\ arg[p] = arg[q] => p = q

\* A thread that has not been joined has a handle of its own.
Unjoined(t) == handle[t] # NULL /\ (mayDestroy[t] = NULL \/ mayJoin[t] # NULL)

HandleInv ==
  \A t \in Threads :
    Unjoined(t) =>
      /\ os[handle[t]] \in {"running", "exited"}
      /\ \A u \in Threads : Unjoined(u) /\ handle[u] = handle[t] => u = t

\* How far the scan of p has come.
ScanOf(p) ==
  /\ pc[p] \notin {"reg_scan", "reg_fill", "unreg_scan", "find_scan"} => idx[p] = 0
  /\ pc[p] = "reg_scan" => \A i \in Slots : i < idx[p] => table[i] # NULL
  /\ pc[p] = "reg_fill" => table[idx[p]] = NULL
  /\ pc[p] = "reg_unlock" /\ result[p] = "NOT_FOUND" =>
       \A i \in Slots : table[i] # NULL
  /\ pc[p] = "unreg_scan" => \A i \in Slots : i < idx[p] => table[i] # arg[p]
  /\ pc[p] = "find_unlock" /\ arg[p] # NULL => \E i \in Slots : table[i] = arg[p]

ScanInv == \A p \in Procs : ScanOf(p)

\* result tells whether the structure of a create is in the table, and for a
\* destroy whether it has been taken out.
ResultOf(p) ==
  /\ pc[p] \in UnlistedLabels => result[p] = "SUCCESS"
  /\ pc[p] \notin UnlistedLabels \cup {"reg_unlock", "reg_ret"} =>
       result[p] = "NOT_FOUND"
  /\ Creates(p) =>
       (result[p] = "SUCCESS" <=> \E i \in Slots : table[i] = arg[p])

ResultInv == \A p \in Procs : ResultOf(p)

\* Entries are distinct, and are those of the structures that have been
\* registered and not unregistered.
TableInv ==
  /\ \A i, j \in Slots : table[i] = table[j] /\ table[i] # NULL => i = j
  /\ \A i \in Slots : table[i] # NULL => table[i] \in allocated
  /\ \A t \in Threads :
       mayDestroy[t] # NULL =>
         ( (\E i \in Slots : table[i] = t)
           <=> ~(/\ arg[mayDestroy[t]] = t
                 /\ pc[mayDestroy[t]] \in UnlistedLabels) )

Inv ==
  /\ TypeOK /\ LockInv /\ InitAlone /\ WorkerInv /\ StructInv /\ CallInv
  /\ CreateAlone /\ JoinAlone /\ HandleInv /\ ScanInv /\ ResultInv /\ TableInv
==============================================================================

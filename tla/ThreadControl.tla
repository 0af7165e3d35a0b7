--------------------------- MODULE ThreadControl ---------------------------
(***************************************************************************)
(* The thread API with the functions that look at a thread and control it: *)
(* tt_thread_get_state and tt_thread_set_priority, which use the fields of *)
(* the structure without a lock while other callers create, join and       *)
(* destroy.  A caller may use a structure that it has still to join or to  *)
(* destroy.                                                                *)
(*                                                                         *)
(* tt_thread_suspend and tt_thread_resume only return                      *)
(* TT_ERROR_NOT_IMPLEMENTED, and tt_thread_sleep uses nothing of the       *)
(* library: they are no steps.                                             *)
(***************************************************************************)
EXTENDS TTThread

\* What tt_thread_get_state returns: one read of the field.
GetState(t) == state[t]

\* The result of pthread_setschedparam is ignored.  The handle is taken for the
\* address of one: the read either yields a handle or ends the program, which then
\* takes no more steps.
SetPriority(c, t) ==
  /\ pc[c] = "idle"
  /\ c \in {mayJoin[t], mayDestroy[t]}
  /\ \E level \in Priorities : priority' = [priority EXCEPT ![t] = level]
  /\ UNCHANGED <<mutexVars, tableVars, allocated, state, active, os, rightVars>>

ControlNext ==
  \/ SharedNext
  \/ \E c \in Callers, t \in Threads : SetPriority(c, t)

ControlSpec == Init /\ [][ControlNext]_vars

(***************************************************************************)
(* Properties                                                              *)
(***************************************************************************)
\* A thread that get_state calls TERMINATED has been joined, and stays TERMINATED
\* for as long as its structure exists: a caller that relies on the answer is not
\* refused with TT_ERROR_THREAD_ACTIVE when it destroys the thread.
TerminatedIsFinal ==
  [][\A t \in Threads :
       GetState(t) = "TERMINATED" =>
         /\ mayJoin[t] = NULL
         /\ t \in allocated' => GetState(t)' = "TERMINATED"]_vars

\* A thread that is still to be joined is in the table, whatever the destroys that
\* overtake joins, and the detaches that fail, have done to other threads.
UnjoinedIsListed ==
  \A t \in Threads : mayJoin[t] # NULL => \E i \in Slots : table[i] = t

\* tt_thread_destroy finds is_active set (tt_platform_linux.c:214) only when
\* pthread_join has returned and its caller is between the two stores, of the state
\* and of is_active (121-122).  That says nothing of the moment of pthread_detach
\* (215): by then the join may have returned and the handle be another thread's.
ActiveSeenOnlyInJoin ==
  [][\A p \in Procs :
       pc[p] = "unreg_ret" /\ pc'[p] = "destroy_detach" =>
         mayJoin[arg[p]] = NULL /\ Storing(arg[p])]_vars
=============================================================================

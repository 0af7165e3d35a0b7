----------------------------- MODULE ErrorCtxInv -----------------------------
(***************************************************************************)
(* The inductive invariant of ErrorCtx!Spec.  The safety properties of     *)
(* ErrorCtx follow from it (ErrorCtxProofs); TLC checks it as an invariant *)
(* of a run.                                                               *)
(***************************************************************************)
EXTENDS ErrorCtx

SetLabels == {"set_lock", "set_store", "set_take", "set_unlock", "set_report"}

\* A thread in the critical section holds the pthread mutex that the mutex points
\* to, and no thread holds any pthread mutex elsewhere.  Who is past the test of
\* the flag finds the mutex initialised.
LockInv ==
  /\ initialized => lock \in MutexObjs
  /\ open => initialized
  /\ \A p \in Procs :
       /\ pc[p] \in Waiting \cup Holding => initialized
       /\ pc[p] \in Holding => owner[lock] = p
       /\ \A o \in MutexObjs : owner[o] = p => o = lock /\ pc[p] \in Holding

\* While tt_error_init runs, the context is closed and nothing else runs.
InitAlone ==
  \A p \in Procs :
    pc[p] \in InitLabels =>
      /\ ~open
      /\ initialized \/ pc[p] = "init_mutex"
      /\ depth[p] = 0
      /\ \A q \in Procs : q # p => pc[q] = "idle"

\* What init and deinit have stored stays until they open or close the context.
StoredInv ==
  \A p \in Procs :
    /\ pc[p] \in {"init_callback", "init_open"} => last = SUCCESS
    /\ pc[p] \in {"init_open", "deinit_open"} => callback = NULL

\* A thread is in a callback when the callback has been entered and not left, and
\* the bound leaves room for the callback of a set_last under way.
DepthInv ==
  \A p \in Procs :
    /\ pc[p] = "idle" => depth[p] = 0
    /\ pc[p] = "callback" => depth[p] > 0
    /\ pc[p] \in SetLabels /\ err[p] # SUCCESS => depth[p] < MaxDepth

Inv == TypeOK /\ LockInv /\ InitAlone /\ StoredInv /\ DepthInv
==============================================================================

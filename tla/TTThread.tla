------------------------------- MODULE TTThread -------------------------------
(***************************************************************************)
(* The thread API of tt_thread.c with its Linux platform functions, on top *)
(* of the thread table.  The callers create, join and destroy threads; the *)
(* threads they create run a function that may call tt_thread_self and may *)
(* return.                                                                 *)
(*                                                                         *)
(* What the library leaves to its client is stated apart from its steps:   *)
(*   Spec        tt_thread_init is called while nothing else runs, before  *)
(*               any other call; one caller joins a thread, once, and one, *)
(*               the same or another, destroys it when that join has       *)
(*               returned.                                                 *)
(*   SharedSpec  as Spec, but nobody waits for the join of another caller  *)
(*               to return.                                                *)
(***************************************************************************)
EXTENDS TTThreadTable

CONSTANTS
  Callers,      \* the threads the library did not create
  Priorities,   \* the levels of tt_thread_priority_t looked at
  NORMAL        \* TT_THREAD_PRIORITY_NORMAL

ASSUME ThreadAssumption ==
  /\ Procs = Callers \cup Handles
  /\ Callers \cap Handles = {}
  /\ NORMAL \in Priorities

VARIABLES
  allocated,   \* the tt_thread_t structures malloc has given out
  state,       \* state[t]: the field state
  active,      \* the structures whose field is_active is true
  priority,    \* priority[t]: the field priority
  os,          \* os[h]: what the operating system knows of the thread h
  mayJoin,     \* mayJoin[t]: the caller that is to join t
  mayDestroy   \* mayDestroy[t]: the caller that is to destroy t

threadVars == <<allocated, state, active, priority>>
rightVars == <<mayJoin, mayDestroy>>
vars == <<mutexVars, tableVars, threadVars, os, rightVars>>

\* RUNNING and SUSPENDED of tt_thread_state_t are never stored.
States == {"CREATED", "TERMINATED"}

\* free: no thread has the handle.  exited: the function has returned and the
\* thread waits to be joined.  detached: it runs and nobody can join it.
OsStates == {"free", "running", "exited", "detached"}

Labels == TableLabels \cup
  {"create", "join_wait", "join_state", "join_active",
   "destroy_detach", "destroy_free"}

TypeOK ==
  /\ MutexTypeOK
  /\ table \in [Slots -> Threads \cup {NULL}]
  /\ handle \in [Threads -> Handles \cup {NULL}]
  /\ pc \in [Procs -> Labels]
  /\ arg \in [Procs -> Threads \cup {NULL}]
  /\ idx \in [Procs -> Slots]
  /\ result \in [Procs -> {"NOT_FOUND", "SUCCESS"}]
  /\ allocated \in SUBSET Threads
  /\ state \in [Threads -> States]
  /\ active \in SUBSET Threads
  /\ priority \in [Threads -> Priorities]
  /\ os \in [Handles -> OsStates]
  /\ mayJoin \in [Threads -> Callers \cup {NULL}]
  /\ mayDestroy \in [Threads -> Callers \cup {NULL}]

Init ==
  /\ MutexZeroed
  /\ table = [i \in Slots |-> NULL]
  /\ handle = [t \in Threads |-> NULL]
  /\ pc = [p \in Procs |-> "idle"]
  /\ arg = [p \in Procs |-> NULL]
  /\ idx = [p \in Procs |-> 0]
  /\ result = [p \in Procs |-> "NOT_FOUND"]
  /\ allocated = {}
  /\ state = [t \in Threads |-> "CREATED"]
  /\ active = {}
  /\ priority = [t \in Threads |-> NORMAL]
  /\ os = [h \in Handles |-> "free"]
  /\ mayJoin = [t \in Threads |-> NULL]
  /\ mayDestroy = [t \in Threads |-> NULL]

Return(p) == Goto(p, "idle") /\ ForgetLocals(p)

\* malloc returns t, and the fields are stored; the priority is that of the
\* attributes.
Malloc(t) ==
  /\ t \notin allocated
  /\ allocated' = allocated \cup {t}
  /\ state' = [state EXCEPT ![t] = "CREATED"]
  /\ active' = active \cup {t}
  /\ \E level \in Priorities : priority' = [priority EXCEPT ![t] = level]

\* free(t): what the cell holds afterwards is of no account.
Free(t) ==
  /\ allocated' = allocated \ {t}
  /\ state' = [state EXCEPT ![t] = "CREATED"]
  /\ active' = active \ {t}
  /\ priority' = [priority EXCEPT ![t] = NORMAL]
  /\ handle' = [handle EXCEPT ![t] = NULL]
  /\ mayJoin' = [mayJoin EXCEPT ![t] = NULL]
  /\ mayDestroy' = [mayDestroy EXCEPT ![t] = NULL]

(***************************************************************************)
(* tt_thread_init and tt_thread_table_cleanup                              *)
(***************************************************************************)
InitCall(p) ==
  /\ pc[p] = "idle"
  /\ Goto(p, "init_mutex")
  /\ UNCHANGED <<mutexVars, table, handle, arg, idx, result, threadVars, os,
                 rightVars>>

CleanupCall(p) ==
  /\ pc[p] = "idle"
  /\ Goto(p, "init_lock")
  /\ UNCHANGED <<mutexVars, table, handle, arg, idx, result, threadVars, os,
                 rightVars>>

(***************************************************************************)
(* tt_thread_create.  A malloc that fails changes nothing.                 *)
(***************************************************************************)
CreateCall(p) ==
  /\ pc[p] = "idle"
  /\ \E t \in Threads :
       Malloc(t) /\ arg' = [arg EXCEPT ![p] = t]
  /\ Goto(p, "create")
  /\ UNCHANGED <<mutexVars, table, handle, idx, result, os, rightVars>>

MutCreateDetached(p) ==   \* the attributes make the thread detached
  /\ pc[p] = "create"
  /\ \E h \in Handles :
       /\ os[h] = "free"
       /\ os' = [os EXCEPT ![h] = "detached"]
       /\ handle' = [handle EXCEPT ![arg[p]] = h]
  /\ Goto(p, "reg_lock")
  /\ UNCHANGED <<mutexVars, table, arg, idx, result, threadVars, rightVars>>

\* pthread_create starts a thread and stores its handle.
CreateSpawn(p) ==
  /\ pc[p] = "create"
  /\ \E h \in Handles :
       /\ os[h] = "free"
       /\ os' = [os EXCEPT ![h] = "running"]
       /\ handle' = [handle EXCEPT ![arg[p]] = h]
  /\ Goto(p, "reg_lock")
  /\ UNCHANGED <<mutexVars, table, arg, idx, result, threadVars, rightVars>>

\* tt_platform_thread_create fails; the structure is freed.
CreateNoThread(p) ==
  /\ pc[p] = "create"
  /\ Free(arg[p])
  /\ Return(p)
  /\ UNCHANGED <<mutexVars, table, os>>

CreateDone(p) ==
  /\ pc[p] = "reg_ret"
  /\ result[p] = "SUCCESS"
  /\ mayJoin' = [mayJoin EXCEPT ![arg[p]] = p]
  /\ mayDestroy' = [mayDestroy EXCEPT ![arg[p]] = p]
  /\ Return(p)
  /\ UNCHANGED <<mutexVars, table, handle, threadVars, os>>

\* The table is full.  tt_platform_thread_destroy finds the state CREATED and
\* refuses, its result is ignored and the structure is freed: the thread that
\* pthread_create started goes on.
CreateRollback(p) ==
  /\ pc[p] = "reg_ret"
  /\ result[p] # "SUCCESS"
  /\ state[arg[p]] # "TERMINATED"
  /\ Free(arg[p])
  /\ Return(p)
  /\ UNCHANGED <<mutexVars, table, os>>

(***************************************************************************)
(* tt_thread_join                                                          *)
(***************************************************************************)
MutJoinCall(p, t) ==   \* TERMINATED is stored before pthread_join
  /\ pc[p] = "idle"
  /\ mayJoin[t] = p
  /\ arg' = [arg EXCEPT ![p] = t]
  /\ state' = [state EXCEPT ![t] = "TERMINATED"]
  /\ Goto(p, "join_wait")
  /\ UNCHANGED <<mutexVars, table, handle, idx, result, allocated, active,
                 priority, os, rightVars>>

JoinCall(p, t) ==
  /\ pc[p] = "idle"
  /\ mayJoin[t] = p
  /\ arg' = [arg EXCEPT ![p] = t]
  /\ Goto(p, "join_wait")
  /\ UNCHANGED <<mutexVars, table, handle, idx, result, threadVars, os,
                 rightVars>>

MutJoinWaitState(p) ==   \* the wrapper that would store TERMINATED does not run
  /\ pc[p] = "join_wait"
  /\ state[arg[p]] = "TERMINATED"
  /\ os[handle[arg[p]]] = "exited"
  /\ os' = [os EXCEPT ![handle[arg[p]]] = "free"]
  /\ mayJoin' = [mayJoin EXCEPT ![arg[p]] = NULL]
  /\ Goto(p, "join_state")
  /\ UNCHANGED <<mutexVars, table, handle, arg, idx, result, threadVars,
                 mayDestroy>>

\* pthread_join returns 0.  Until the thread exits the caller waits.
JoinWait(p) ==
  /\ pc[p] = "join_wait"
  /\ os[handle[arg[p]]] = "exited"
  /\ os' = [os EXCEPT ![handle[arg[p]]] = "free"]
  /\ mayJoin' = [mayJoin EXCEPT ![arg[p]] = NULL]
  /\ Goto(p, "join_state")
  /\ UNCHANGED <<mutexVars, table, handle, arg, idx, result, threadVars,
                 mayDestroy>>

\* pthread_join returns ESRCH or EINVAL: TT_ERROR_THREAD_JOIN.
JoinFails(p) ==
  /\ pc[p] = "join_wait"
  /\ os[handle[arg[p]]] \in {"free", "detached"}
  /\ Return(p)
  /\ UNCHANGED <<mutexVars, table, handle, threadVars, os, rightVars>>

JoinState(p) ==
  /\ pc[p] = "join_state"
  /\ state' = [state EXCEPT ![arg[p]] = "TERMINATED"]
  /\ Goto(p, "join_active")
  /\ UNCHANGED <<mutexVars, table, handle, arg, idx, result, allocated,
                 active, priority, os, rightVars>>

MutJoinActive(p) ==   \* is_active stays true
  /\ pc[p] = "join_active"
  /\ Return(p)
  /\ UNCHANGED <<mutexVars, table, handle, threadVars, os, rightVars>>

JoinActive(p) ==
  /\ pc[p] = "join_active"
  /\ active' = active \ {arg[p]}
  /\ Return(p)
  /\ UNCHANGED <<mutexVars, table, handle, allocated, state, priority, os,
                 rightVars>>

(***************************************************************************)
(* tt_thread_destroy.  TT_ERROR_THREAD_ACTIVE changes nothing.             *)
(***************************************************************************)
MutDestroyAnyState(p, t) ==   \* the state is not tested
  /\ pc[p] = "idle"
  /\ mayDestroy[t] = p
  /\ arg' = [arg EXCEPT ![p] = t]
  /\ Goto(p, "unreg_lock")
  /\ UNCHANGED <<mutexVars, table, handle, idx, result, threadVars, os,
                 rightVars>>

MutDestroyFreesFirst(p, t) ==   \* free before tt_thread_table_unregister
  /\ pc[p] = "idle"
  /\ mayDestroy[t] = p
  /\ state[t] = "TERMINATED"
  /\ Free(t)
  /\ arg' = [arg EXCEPT ![p] = t]
  /\ Goto(p, "unreg_lock")
  /\ UNCHANGED <<mutexVars, table, idx, result, os>>

DestroyCall(p, t) ==
  /\ pc[p] = "idle"
  /\ mayDestroy[t] = p
  /\ state[t] = "TERMINATED"
  /\ arg' = [arg EXCEPT ![p] = t]
  /\ Goto(p, "unreg_lock")
  /\ UNCHANGED <<mutexVars, table, handle, idx, result, threadVars, os,
                 rightVars>>

\* tt_thread_table_unregister has failed, and its error is returned.
DestroyNotFound(p) ==
  /\ pc[p] = "unreg_ret"
  /\ result[p] # "SUCCESS"
  /\ Return(p)
  /\ UNCHANGED <<mutexVars, table, handle, threadVars, os, rightVars>>

\* The entry is gone, and is_active is read.
DestroyLook(p) ==
  /\ pc[p] = "unreg_ret"
  /\ result[p] = "SUCCESS"
  /\ Goto(p, IF arg[p] \in active THEN "destroy_detach" ELSE "destroy_free")
  /\ UNCHANGED <<mutexVars, table, handle, arg, idx, result, threadVars, os,
                 rightVars>>

\* is_active was true, and pthread_detach returns 0.
DestroyDetach(p) ==
  /\ pc[p] = "destroy_detach"
  /\ LET h == handle[arg[p]] IN
       \/ os[h] = "running" /\ os' = [os EXCEPT ![h] = "detached"]
       \/ os[h] = "exited" /\ os' = [os EXCEPT ![h] = "free"]
  /\ Goto(p, "destroy_free")
  /\ UNCHANGED <<mutexVars, table, handle, arg, idx, result, threadVars,
                 rightVars>>

\* pthread_detach fails: TT_ERROR_THREAD_DETACH.  The entry of the table is
\* gone, the structure is not freed.
DestroyNoDetach(p) ==
  /\ pc[p] = "destroy_detach"
  /\ os[handle[arg[p]]] \in {"free", "detached"}
  /\ Return(p)
  /\ UNCHANGED <<mutexVars, table, handle, threadVars, os, rightVars>>

\* is_active is stored and the structure freed.
DestroyFree(p) ==
  /\ pc[p] = "destroy_free"
  /\ Free(arg[p])
  /\ Return(p)
  /\ UNCHANGED <<mutexVars, table, os>>

(***************************************************************************)
(* tt_thread_self                                                          *)
(***************************************************************************)
InUserCode(p) ==
  /\ pc[p] = "idle"
  /\ p \in Handles => os[p] \in {"running", "detached"}

SelfCall(p) ==
  /\ InUserCode(p)
  /\ Goto(p, "find_lock")
  /\ UNCHANGED <<mutexVars, table, handle, arg, idx, result, threadVars, os,
                 rightVars>>

SelfReturn(p) ==
  /\ pc[p] = "find_ret"
  /\ Return(p)
  /\ UNCHANGED <<mutexVars, table, handle, threadVars, os, rightVars>>

(***************************************************************************)
(* The function of a thread returns, or calls tt_platform_thread_exit.     *)
(***************************************************************************)
Exit(h) ==
  /\ InUserCode(h)
  /\ os' = [os EXCEPT ![h] = IF @ = "running" THEN "exited" ELSE "free"]
  /\ UNCHANGED <<mutexVars, tableVars, threadVars, rightVars>>

(***************************************************************************)
(* The specification                                                       *)
(***************************************************************************)
TableStep(p) ==
  /\ \/ InitMutex(p) \/ InitNoMutex(p)
     \/ InitLock(p) \/ InitClear(p) \/ InitUnlock(p)
     \/ RegLock(p) \/ RegPass(p) \/ RegTake(p) \/ RegFill(p) \/ RegUnlock(p)
     \/ UnregLock(p) \/ UnregPass(p) \/ UnregClear(p) \/ UnregUnlock(p)
     \/ FindLock(p) \/ FindPass(p) \/ FindHit(p) \/ FindUnlock(p)
  /\ UNCHANGED <<threadVars, os, rightVars>>

\* The steps of a call that has begun.
Step(p) ==
  \/ TableStep(p)
  \/ CreateSpawn(p) \/ CreateNoThread(p) \/ CreateDone(p) \/ CreateRollback(p)
  \/ JoinWait(p) \/ JoinFails(p) \/ JoinState(p) \/ JoinActive(p)
  \/ DestroyNotFound(p) \/ DestroyLook(p)
  \/ DestroyDetach(p) \/ DestroyNoDetach(p) \/ DestroyFree(p)
  \/ SelfReturn(p)

\* A new call other than tt_thread_init.
Call(p) ==
  \/ SelfCall(p)
  \/ /\ p \in Callers
     /\ \/ CreateCall(p)
        \/ \E t \in Threads : JoinCall(p, t) \/ DestroyCall(p, t)

InitLabels == {"init_mutex", "init_lock", "init_clear", "init_unlock"}

\* tt_thread_init has returned TT_SUCCESS and no other is under way.
Ready ==
  /\ initialized
  /\ \A p \in Procs : pc[p] \notin InitLabels

\* Nothing of the library is in use.
Quiescent ==
  /\ \A p \in Procs : pc[p] = "idle"
  /\ \A h \in Handles : os[h] \in {"free", "exited"}
  /\ \A i \in Slots : table[i] = NULL

\* What the library and the functions of its threads do, and the calls that begin
\* while nothing else is under way.
Proceed ==
  \/ \E p \in Procs : Step(p)
  \/ \E h \in Handles : Exit(h)
  \/ Quiescent /\ \E p \in Callers : InitCall(p)
  \/ Quiescent /\ Ready /\ \E p \in Callers : CleanupCall(p)

Act == Proceed \/ (Ready /\ \E p \in Procs : Call(p))

\* A caller leaves the join of t, or its destroy, to another one.
HandOff(c, d, t) ==
  /\ pc[c] = "idle"
  /\ \/ /\ mayJoin[t] = c
        /\ mayJoin' = [mayJoin EXCEPT ![t] = d]
        /\ UNCHANGED mayDestroy
     \/ /\ mayDestroy[t] = c
        /\ mayDestroy' = [mayDestroy EXCEPT ![t] = d]
        /\ UNCHANGED mayJoin
  /\ UNCHANGED <<mutexVars, tableVars, threadVars, os>>

SharedNext ==
  \/ Act
  \/ \E c \in Callers, d \in Callers, t \in Threads : HandOff(c, d, t)

SharedSpec == Init /\ [][SharedNext]_vars

\* A caller that joined t has stored its state and not yet its is_active.
Storing(t) == \E c \in Callers : pc[c] = "join_active" /\ arg[c] = t

\* A destroy that does not find the state CREATED waits for the join to return.
Ordered == \A p \in Callers, t \in Threads : DestroyCall(p, t) => ~Storing(t)

Next ==
  \/ Proceed
  \/ Ready /\ (\E p \in Procs : Call(p)) /\ Ordered
  \/ \E c \in Callers, d \in Callers, t \in Threads : HandOff(c, d, t)

Spec == Init /\ [][Next]_vars

\* The scheduler lets every thread that can run in the library run.  Nothing is
\* assumed of the functions of the threads or of a caller's next call.
FairSpec == Spec /\ \A p \in Procs : WF_vars(Step(p))

(***************************************************************************)
(* Safety under any client                                                 *)
(***************************************************************************)
\* The table is read and written by one thread at a time, the one that holds
\* the pthread mutex that g_thread_table_mutex points to now; and no other pthread
\* mutex is held, nor this one by a thread that has left the function.
MutualExclusion ==
  /\ \A p \in Procs : pc[p] \in Holding => owner[lock] = p
  /\ \A o \in MutexObjs : owner[o] # NULL => o = lock /\ pc[owner[o]] \in Holding

\* An entry of the table points to a structure that has not been freed, so that
\* tt_thread_table_find_by_handle may read its handle.
NoDanglingEntry ==
  \A i \in Slots : table[i] # NULL => table[i] \in allocated

\* A structure has at most one entry: unregister, which clears the first one,
\* leaves none behind.
OneEntryEach ==
  \A i, j \in Slots : table[i] = table[j] /\ table[i] # NULL => i = j

\* tt_thread_table_register fails only when every slot is in use at that time.
FullWhenRefused ==
  \A p \in Procs :
    pc[p] = "reg_unlock" /\ result[p] = "NOT_FOUND"
      => \A i \in Slots : table[i] # NULL

Kept(i) ==
  table[i] # NULL /\ table'[i] # table[i] =>
    /\ table'[i] = NULL
    /\ \E c \in Callers :
         /\ mayDestroy[table[i]] = c
         /\ arg[c] = table[i]
         /\ result'[c] = "SUCCESS"

\* The entry of a thread is removed by the caller that destroys this thread, and
\* by nothing else: not overwritten by a registration, nor wiped by
\* tt_thread_init or tt_thread_table_cleanup.
EntryKept == [][\A i \in Slots : Kept(i)]_vars

(***************************************************************************)
(* Safety when a thread is destroyed after its join has returned           *)
(***************************************************************************)
\* A thread that tt_thread_create has returned is in the table until its
\* destroy takes it out, so tt_thread_destroy never returns
\* TT_ERROR_NOT_FOUND.
PublishedIsListed ==
  /\ \A t \in Threads :
       mayDestroy[t] # NULL =>
         \/ \E i \in Slots : table[i] = t
         \/ \E p \in Callers : arg[p] = t /\ result[p] = "SUCCESS"
  /\ \A p \in Procs : pc[p] = "unreg_ret" => result[p] = "SUCCESS"

\* A thread that has not been joined has a handle of its own, which names a
\* thread that runs or waits to be joined: pthread_join cannot fail, and cannot
\* take the result of another thread.
JoinFindsItsThread ==
  \A t \in Threads :
    mayJoin[t] # NULL =>
      /\ handle[t] # NULL
      /\ os[handle[t]] \in {"running", "exited"}
      /\ \A u \in Threads : mayJoin[u] # NULL /\ handle[u] = handle[t] => u = t

\* tt_thread_destroy frees a structure only when pthread_join has collected its
\* thread, and never goes on to pthread_detach.
DestroyedIsJoined ==
  \A p \in Procs :
    /\ pc[p] # "destroy_detach"
    /\ pc[p] \in {"unreg_lock", "unreg_scan", "unreg_unlock", "unreg_ret",
                  "destroy_free"}
      => /\ arg[p] \in allocated \ active
         /\ mayJoin[arg[p]] = NULL
         /\ state[arg[p]] = "TERMINATED"

\* A call that is under way has a structure that is allocated.
NoUseAfterFree ==
  \A p \in Procs :
    pc[p] # "find_ret" /\ arg[p] # NULL => arg[p] \in allocated

(***************************************************************************)
(* The thread API implements ThreadService.  A thread counts as joined     *)
(* from the return of pthread_join: that is when the caller gives its      *)
(* right to join up.                                                       *)
(***************************************************************************)
Listed == {table[i] : i \in Slots} \ {NULL}

Status(t) ==
  IF handle[t] = NULL
    THEN "none"
    ELSE IF mayDestroy[t] # NULL /\ mayJoin[t] = NULL
           THEN "joined"
           ELSE IF os[handle[t]] = "running" THEN "running" ELSE "finished"

StatusOf == [t \in Threads |-> Status(t)]

Service ==
  INSTANCE ThreadService
    WITH Capacity <- MaxThreads,
         status <- StatusOf,
         listed <- Listed

\* Every step of the API is a step of ThreadService or changes nothing of it.
ImplementsService == Service!Spec

(***************************************************************************)
(* The thread table implements ThreadRegistry, whichever calls meet in it. *)
(* A call takes effect when it writes the table, or when its scan has come *)
(* to its end.                                                             *)
(***************************************************************************)
Asks(p) ==
  CASE pc[p] \in {"reg_lock", "reg_scan", "reg_fill"} -> "register"
    [] pc[p] \in {"unreg_lock", "unreg_scan"} -> "unregister"
    [] pc[p] \in {"find_lock", "find_scan"} -> "find"
    [] OTHER -> "nothing"

About(p) == IF Asks(p) \in {"register", "unregister"} THEN arg[p] ELSE NULL

Answer(p) ==
  CASE pc[p] \in {"reg_unlock", "reg_ret", "unreg_unlock", "unreg_ret"} -> result[p]
    [] pc[p] \in {"find_unlock", "find_ret"} -> arg[p]
    [] OTHER -> "none"

AsksOf == [p \in Procs |-> Asks(p)]
AboutOf == [p \in Procs |-> About(p)]
AnswerOf == [p \in Procs |-> Answer(p)]

Registry ==
  INSTANCE ThreadRegistry
    WITH Capacity <- MaxThreads,
         listed <- Listed,
         asks <- AsksOf,
         about <- AboutOf,
         answer <- AnswerOf

\* Register, unregister and find_by_handle of any threads act one after the other.
ImplementsRegistry == Registry!Spec

(***************************************************************************)
(* Liveness                                                                *)
(***************************************************************************)
\* Whoever takes the mutex of the table gives it back, through every path of
\* the functions.
MutexReleased ==
  \A o \in MutexObjs : (owner[o] # NULL) ~> (owner[o] = NULL)

\* tt_thread_join returns once the function of the thread has returned.
JoinReturns ==
  \A c \in Callers :
    (pc[c] = "join_wait" /\ os[handle[arg[c]]] = "exited") ~> (pc[c] = "idle")

(***************************************************************************)
(* What the documents say and the code does not do                         *)
(***************************************************************************)
\* tt_thread_self returns the structure of the calling thread, or NULL
\* (tt_thread.h:111-115).
SelfIsCaller ==
  \A p \in Procs :
    pc[p] = "find_ret" /\ arg[p] # NULL => handle[arg[p]] = p

\* tt_thread_create creates a thread or returns an error (tt_thread.h:51-63),
\* and cleans up before it returns an error (tt_thread.c:91-95): every thread it
\* started has a structure through which it can be joined.
NoOrphan ==
  \A h \in Handles :
    os[h] \in {"running", "exited"} => \E t \in allocated : handle[t] = h
===============================================================================

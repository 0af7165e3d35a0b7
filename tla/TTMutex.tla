------------------------------- MODULE TTMutex -------------------------------
(***************************************************************************)
(* One tt_mutex_t of the Linux build: the structure of tt_mutex.h and the  *)
(* functions of tt_platform_linux.c that tt_mutex.c forwards to.  The      *)
(* structure points to a pthread mutex that tt_mutex_init takes from the   *)
(* heap, so a second tt_mutex_init makes the structure point to another    *)
(* pthread mutex, whoever holds the first one.                             *)
(*                                                                         *)
(* The module gives the effect of each call for a thread p; the modules    *)
(* that use a mutex give the threads their program counters.               *)
(***************************************************************************)
CONSTANTS
  Procs,        \* the threads that call the library
  MutexObjs,    \* the heap cells a pthread_mutex_t can be put in
  NULL          \* the null pointer, and "no owner"

VARIABLES
  lock,         \* mutex->lock: the pthread mutex the structure points to
  initialized,  \* mutex->initialized
  owner,        \* owner[o]: the thread that holds the pthread mutex o
  made          \* the pthread mutexes taken from the heap and not freed

mutexVars == <<lock, initialized, owner, made>>

MutexTypeOK ==
  /\ lock \in MutexObjs \cup {NULL}
  /\ initialized \in BOOLEAN
  /\ owner \in [MutexObjs -> Procs \cup {NULL}]
  /\ made \in SUBSET MutexObjs

\* A static tt_mutex_t: all fields zero.
MutexZeroed ==
  /\ lock = NULL
  /\ initialized = FALSE
  /\ owner = [o \in MutexObjs |-> NULL]
  /\ made = {}

\* malloc and pthread_mutex_init succeed.  The old value of mutex->lock is
\* overwritten, not freed.
MutexInit(o) ==
  /\ o \in MutexObjs \ made
  /\ made' = made \cup {o}
  /\ owner' = [owner EXCEPT ![o] = NULL]
  /\ lock' = o
  /\ initialized' = TRUE

\* pthread_mutex_lock(o) returns 0.
Acquire(p, o) ==
  /\ owner[o] = NULL
  /\ owner' = [owner EXCEPT ![o] = p]
  /\ UNCHANGED <<lock, initialized, made>>

\* A thread inside the call while another holds the pthread mutex waits: the
\* action is disabled.
MutexLock(p) ==
  /\ initialized
  /\ Acquire(p, lock)

\* A default pthread mutex does not look at who unlocks it.
MutexUnlock ==
  /\ initialized
  /\ owner' = [owner EXCEPT ![lock] = NULL]
  /\ UNCHANGED <<lock, initialized, made>>
==============================================================================

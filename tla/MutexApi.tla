------------------------------ MODULE MutexApi ------------------------------
(***************************************************************************)
(* All calls of tt_mutex.h on one mutex, by the threads Procs, in the two  *)
(* builds of tt_mutex.c: for Linux, where the structure points to a        *)
(* pthread mutex, and the general one, where its field lock is the flag of *)
(* a spinlock.                                                             *)
(*                                                                         *)
(* The client keeps the rules of a mutex: it does not lock what it holds,  *)
(* only the holder unlocks, and init and destroy alternate and come while  *)
(* no thread holds the mutex and no other call is under way.  Nothing else *)
(* is ordered.  Since initialized changes then only, its test is part of   *)
(* the step that follows it.                                               *)
(***************************************************************************)
EXTENDS TTMutex

CONSTANT Builds   \* the builds looked at, "linux" and "generic"

ASSUME ApiAssumption ==
  /\ Builds \subseteq {"linux", "generic"}
  /\ NULL \notin Procs \cup MutexObjs

VARIABLES
  build,    \* which of the two tt_mutex.c is; it never changes
  flag,     \* generic build: mutex->lock, set and cleared atomically
  pc,       \* where each thread is
  holds,    \* holds[p]: p has locked the mutex and not unlocked it
  answer    \* answer[p]: what the last call of p has returned

apiVars == <<mutexVars, build, flag, pc, holds, answer>>

Answers == {"none", "success", "busy", "refused", "locked", "free"}

TypeOK ==
  /\ MutexTypeOK
  /\ build \in Builds
  /\ flag \in BOOLEAN
  /\ pc \in [Procs -> {"idle", "lock", "look"}]
  /\ holds \in [Procs -> BOOLEAN]
  /\ answer \in [Procs -> Answers]

Init ==
  /\ MutexZeroed
  /\ build \in Builds
  /\ flag = FALSE
  /\ pc = [p \in Procs |-> "idle"]
  /\ holds = [p \in Procs |-> FALSE]
  /\ answer = [p \in Procs |-> "none"]

Goto(p, l) == pc' = [pc EXCEPT ![p] = l]

Answer(p, a) == answer' = [answer EXCEPT ![p] = a]

\* No thread holds the mutex and no call is under way.
Unused == \A p \in Procs : pc[p] = "idle" /\ ~holds[p]

(***************************************************************************)
(* The lock word of each build                                             *)
(***************************************************************************)
Taken == IF build = "linux" THEN owner[lock] # NULL ELSE flag

MutSeize(p) ==   \* the result of __atomic_test_and_set is not looked at
  \/ build = "linux" /\ Acquire(p, lock) /\ UNCHANGED flag
  \/ build = "generic" /\ flag' = TRUE /\ UNCHANGED mutexVars

\* pthread_mutex_lock and pthread_mutex_trylock returning 0;
\* __atomic_test_and_set returning false.
Seize(p) ==
  \/ build = "linux" /\ Acquire(p, lock) /\ UNCHANGED flag
  \/ build = "generic" /\ ~flag /\ flag' = TRUE /\ UNCHANGED mutexVars

MutRelease ==   \* the flag is not cleared
  \/ build = "linux" /\ MutexUnlock /\ UNCHANGED flag
  \/ build = "generic" /\ UNCHANGED <<mutexVars, flag>>

Release ==
  \/ build = "linux" /\ MutexUnlock /\ UNCHANGED flag
  \/ build = "generic" /\ flag' = FALSE /\ UNCHANGED mutexVars

(***************************************************************************)
(* tt_mutex_init and tt_mutex_destroy                                      *)
(***************************************************************************)
InitMutex(p) ==
  /\ Unused /\ ~initialized
  /\ \/ build = "linux" /\ \E o \in MutexObjs : MutexInit(o)
     \/ build = "generic" /\ initialized' = TRUE /\ UNCHANGED <<lock, owner, made>>
  /\ flag' = FALSE
  /\ Answer(p, "success")
  /\ UNCHANGED <<build, pc, holds>>

\* malloc fails.
InitFails(p) ==
  /\ Unused /\ ~initialized
  /\ build = "linux"
  /\ Answer(p, "refused")
  /\ UNCHANGED <<mutexVars, build, flag, pc, holds>>

MutFreeMutex(p) ==   \* the pthread mutex is not freed
  /\ Unused /\ initialized
  /\ build = "linux"
  /\ initialized' = FALSE
  /\ Answer(p, "success")
  /\ UNCHANGED <<lock, owner, made, build, flag, pc, holds>>

\* pthread_mutex_destroy succeeds, since the mutex is unused.  The pointer is left as
\* it is, to freed memory.
FreeMutex(p) ==
  /\ Unused /\ initialized
  /\ build = "linux"
  /\ made' = made \ {lock}
  /\ initialized' = FALSE
  /\ Answer(p, "success")
  /\ UNCHANGED <<lock, owner, build, flag, pc, holds>>

CloseMutex(p) ==
  /\ Unused /\ initialized
  /\ build = "generic"
  /\ initialized' = FALSE
  /\ Answer(p, "success")
  /\ UNCHANGED <<lock, owner, made, build, flag, pc, holds>>

Destroy(p) == FreeMutex(p) \/ CloseMutex(p)

(***************************************************************************)
(* tt_mutex_lock and tt_mutex_unlock                                       *)
(***************************************************************************)
LockCall(p) ==
  /\ pc[p] = "idle" /\ ~holds[p]
  /\ initialized
  /\ Goto(p, "lock")
  /\ UNCHANGED <<mutexVars, build, flag, holds, answer>>

\* Waits, asleep or spinning, until the mutex is free.
Lock(p) ==
  /\ pc[p] = "lock"
  /\ Seize(p)
  /\ holds' = [holds EXCEPT ![p] = TRUE]
  /\ Answer(p, "success")
  /\ Goto(p, "idle")
  /\ UNCHANGED build

Unlock(p) ==
  /\ pc[p] = "idle" /\ holds[p]
  /\ initialized
  /\ Release
  /\ holds' = [holds EXCEPT ![p] = FALSE]
  /\ Answer(p, "success")
  /\ UNCHANGED <<build, pc>>

\* lock, unlock and trylock of a mutex that is not initialised, and destroy of one
\* in the general build.
Refused(p) ==
  /\ pc[p] = "idle"
  /\ ~initialized
  /\ Answer(p, "refused")
  /\ UNCHANGED <<mutexVars, build, flag, pc, holds>>

(***************************************************************************)
(* tt_mutex_trylock                                                        *)
(***************************************************************************)
TryLock(p) ==
  /\ pc[p] = "idle" /\ initialized
  /\ Seize(p)
  /\ holds' = [holds EXCEPT ![p] = TRUE]
  /\ Answer(p, "success")
  /\ UNCHANGED <<build, pc>>

TryBusy(p) ==
  /\ pc[p] = "idle" /\ initialized
  /\ Taken
  /\ Answer(p, "busy")
  /\ UNCHANGED <<mutexVars, build, flag, pc, holds>>

(***************************************************************************)
(* tt_mutex_is_locked: for Linux a pthread_mutex_trylock and, if it takes  *)
(* the mutex, a pthread_mutex_unlock; for the general build one load.      *)
(***************************************************************************)
IsLockedTake(p) ==
  /\ pc[p] = "idle" /\ initialized
  /\ build = "linux"
  /\ Seize(p)
  /\ Goto(p, "look")
  /\ UNCHANGED <<build, holds, answer>>

MutIsLockedGive(p) ==   \* the unlock is missing
  /\ pc[p] = "look"
  /\ Goto(p, "idle")
  /\ Answer(p, "free")
  /\ UNCHANGED <<mutexVars, build, flag, holds>>

IsLockedGive(p) ==
  /\ pc[p] = "look"
  /\ Release
  /\ Goto(p, "idle")
  /\ Answer(p, "free")
  /\ UNCHANGED <<build, holds>>

IsLocked(p) ==
  /\ pc[p] = "idle"
  /\ \/ initialized /\ Taken /\ Answer(p, "locked")
     \/ initialized /\ build = "generic" /\ ~Taken /\ Answer(p, "free")
     \/ ~initialized /\ Answer(p, "free")
  /\ UNCHANGED <<mutexVars, build, flag, pc, holds>>

(***************************************************************************)
(* The specification                                                       *)
(***************************************************************************)
Next ==
  \E p \in Procs :
    \/ InitMutex(p) \/ InitFails(p) \/ Destroy(p)
    \/ LockCall(p) \/ Lock(p) \/ Unlock(p) \/ Refused(p)
    \/ TryLock(p) \/ TryBusy(p)
    \/ IsLockedTake(p) \/ IsLockedGive(p) \/ IsLocked(p)

Spec == Init /\ [][Next]_apiVars

\* A thread that waits, asleep or spinning, is run again.
FairSpec == Spec /\ \A p \in Procs : WF_apiVars(Lock(p))

(***************************************************************************)
(* Properties                                                              *)
(***************************************************************************)
Holders == {p \in Procs : holds[p]}
Looking == {p \in Procs : pc[p] = "look"}

\* The lock and the trylock of two threads do not both succeed before an unlock,
\* whatever is_locked does to the mutex in between.
LockExclusive == \A p, q \in Holders : p = q

\* An initialised mutex of the Linux build has exactly one pthread mutex on the
\* heap, the one it points to, and any other mutex none: no cycle of init and
\* destroy loses memory or frees it twice.
HeapExact ==
  made = IF build = "linux" /\ initialized THEN {lock} ELSE {}

\* trylock answers TT_ERROR_BUSY, and is_locked true, only when a thread has locked
\* the mutex.
AnswersAreTrue ==
  [][\A p \in Procs :
       answer'[p] # answer[p] /\ answer'[p] \in {"busy", "locked"}
         => Holders # {}]_apiVars

\* A mutex that nobody holds does not leave those who wait for it waiting: one of
\* them, or another thread, takes it or looks at it.  Who it is neither build says,
\* so that a thread can spin for ever only while others take the mutex.
WaitersGoOn ==
  \A p \in Procs :
    (pc[p] = "lock" /\ Holders = {}) ~> (Holders # {} \/ Looking # {})

Service ==
  INSTANCE LockService
    WITH ready <- initialized, holders <- Holders, looking <- Looking

\* Both builds implement LockService: in the general one nobody is ever looking.
ImplementsLockService == Service!Spec

(***************************************************************************)
(* The inductive invariant: the lock word is taken exactly when a thread   *)
(* holds the mutex or looks at it.                                         *)
(***************************************************************************)
LinuxInv ==
  build = "linux" =>
    /\ ~flag
    /\ initialized => lock \in MutexObjs
    /\ \A p \in Procs, o \in MutexObjs :
         owner[o] = p <=> o = lock /\ initialized /\ (holds[p] \/ pc[p] = "look")

GenericInv ==
  build = "generic" =>
    /\ \A o \in MutexObjs : owner[o] = NULL
    /\ flag <=> Holders # {}
    /\ Looking = {}

CallInv ==
  \A p \in Procs :
    /\ pc[p] # "idle" \/ holds[p] => initialized
    /\ pc[p] # "idle" => ~holds[p]

Inv == TypeOK /\ LockExclusive /\ HeapExact /\ LinuxInv /\ GenericInv /\ CallInv
=============================================================================

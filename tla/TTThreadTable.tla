---------------------------- MODULE TTThreadTable ----------------------------
(***************************************************************************)
(* The thread table of tt_thread_internal.c: a fixed array of slots        *)
(* guarded by g_thread_table_mutex.  Every function is a sequence of steps *)
(* of the thread p that calls it, one step per memory access that another  *)
(* thread could observe; the variables pc, arg, idx and result are the     *)
(* locals of the call.  A call that has ended leaves them at their initial *)
(* values.                                                                 *)
(*                                                                         *)
(* Entering a function is setting pc[p] to its first label, which the      *)
(* module that composes the table does (TTThread).  The functions end at   *)
(* "reg_ret", "unreg_ret" and "find_ret", where that module goes on.       *)
(*                                                                         *)
(* A definition whose name starts with Mut is a wrong version of the one   *)
(* that follows it; no specification uses it.  Putting it in the place of  *)
(* the right one must make a property fail.                                *)
(***************************************************************************)
EXTENDS Naturals, TTMutex

CONSTANTS
  Threads,      \* the heap cells a tt_thread_t can be put in
  Handles,      \* the pthread_t values; a handle is also the thread it names
  MaxThreads    \* TT_MAX_THREADS

ASSUME TableAssumption ==
  /\ MaxThreads \in Nat \ {0}
  /\ NULL \notin Threads \cup Handles \cup Procs \cup MutexObjs

VARIABLES
  table,   \* g_thread_table[i].thread, NULL when .in_use is false
  handle,  \* handle[t]: the field handle of the structure t
  pc,      \* where each thread is in the library, "idle" when outside
  arg,     \* the structure the call is about, or has found
  idx,     \* the loop variable i
  result   \* the local result of register and unregister

tableVars == <<table, handle, pc, arg, idx, result>>

Slots == 0 .. MaxThreads - 1

\* The labels at which a thread is in a critical section of the table.
Holding == {"init_clear", "init_unlock", "reg_scan", "reg_fill", "reg_unlock",
            "unreg_scan", "unreg_unlock", "find_scan", "find_unlock"}

TableLabels == Holding \cup
  {"idle", "init_mutex", "init_lock", "reg_lock", "reg_ret",
   "unreg_lock", "unreg_ret", "find_lock", "find_ret"}

Goto(p, l) == pc' = [pc EXCEPT ![p] = l]

\* The locals of p as they are outside the library.
ForgetLocals(p) ==
  /\ arg' = [arg EXCEPT ![p] = NULL]
  /\ idx' = [idx EXCEPT ![p] = 0]
  /\ result' = [result EXCEPT ![p] = "NOT_FOUND"]

MutNextSlotTooFar(p, done) ==   \* i <= TT_MAX_THREADS
  IF idx[p] \in Slots
    THEN idx' = [idx EXCEPT ![p] = @ + 1] /\ UNCHANGED pc
    ELSE idx' = [idx EXCEPT ![p] = 0] /\ Goto(p, done)

MutNextSlotTooShort(p, done) ==   \* i < TT_MAX_THREADS - 1
  IF idx[p] + 2 \in Slots
    THEN idx' = [idx EXCEPT ![p] = @ + 1] /\ UNCHANGED pc
    ELSE idx' = [idx EXCEPT ![p] = 0] /\ Goto(p, done)

\* The for loop goes to the next slot, or ends after the last one.
NextSlot(p, done) ==
  IF idx[p] + 1 \in Slots
    THEN idx' = [idx EXCEPT ![p] = @ + 1] /\ UNCHANGED pc
    ELSE idx' = [idx EXCEPT ![p] = 0] /\ Goto(p, done)

\* tt_mutex_lock(&g_thread_table_mutex) between two labels.
LockTable(p, from, to) ==
  /\ pc[p] = from
  /\ MutexLock(p)
  /\ Goto(p, to)
  /\ UNCHANGED <<table, handle, arg, idx, result>>

\* tt_mutex_unlock(&g_thread_table_mutex) between two labels.
UnlockTable(p, from, to) ==
  /\ pc[p] = from
  /\ MutexUnlock
  /\ Goto(p, to)
  /\ UNCHANGED <<table, handle, arg, idx, result>>

(***************************************************************************)
(* tt_thread_table_init and tt_thread_table_cleanup (which starts at       *)
(* "init_lock").                                                           *)
(***************************************************************************)
InitMutex(p) ==
  /\ pc[p] = "init_mutex"
  /\ \E o \in MutexObjs : MutexInit(o)
  /\ Goto(p, "init_lock")
  /\ UNCHANGED <<table, handle, arg, idx, result>>

\* tt_mutex_init fails: TT_ERROR_MEMORY or TT_ERROR_MUTEX_INIT.
InitNoMutex(p) ==
  /\ pc[p] = "init_mutex"
  /\ Goto(p, "idle")
  /\ UNCHANGED <<mutexVars, table, handle, arg, idx, result>>

InitLock(p) == LockTable(p, "init_lock", "init_clear")

InitClear(p) ==
  /\ pc[p] = "init_clear"
  /\ table' = [i \in Slots |-> NULL]
  /\ Goto(p, "init_unlock")
  /\ UNCHANGED <<mutexVars, handle, arg, idx, result>>

InitUnlock(p) == UnlockTable(p, "init_unlock", "idle")

(***************************************************************************)
(* tt_thread_table_register(arg[p])                                        *)
(***************************************************************************)
MutRegTryLock(p) ==   \* tt_mutex_trylock, its TT_ERROR_BUSY ignored
  /\ pc[p] = "reg_lock"
  /\ Goto(p, "reg_scan")
  /\ UNCHANGED <<mutexVars, table, handle, arg, idx, result>>

RegLock(p) == LockTable(p, "reg_lock", "reg_scan")

\* The slot is in use.
RegPass(p) ==
  /\ pc[p] = "reg_scan"
  /\ table[idx[p]] # NULL
  /\ NextSlot(p, "reg_unlock")
  /\ UNCHANGED <<mutexVars, table, handle, arg, result>>

MutRegTakeAny(p) ==   \* in_use is not tested
  /\ pc[p] = "reg_scan"
  /\ Goto(p, "reg_fill")
  /\ UNCHANGED <<mutexVars, table, handle, arg, idx, result>>

\* The slot is free; it is written in the next step.
RegTake(p) ==
  /\ pc[p] = "reg_scan"
  /\ table[idx[p]] = NULL
  /\ Goto(p, "reg_fill")
  /\ UNCHANGED <<mutexVars, table, handle, arg, idx, result>>

MutRegFillNoBreak(p) ==   \* the loop goes on after the first free slot
  /\ pc[p] = "reg_fill"
  /\ table' = [table EXCEPT ![idx[p]] = arg[p]]
  /\ result' = [result EXCEPT ![p] = "SUCCESS"]
  /\ IF idx[p] + 1 \in Slots
       THEN idx' = [idx EXCEPT ![p] = @ + 1] /\ Goto(p, "reg_scan")
       ELSE idx' = [idx EXCEPT ![p] = 0] /\ Goto(p, "reg_unlock")
  /\ UNCHANGED <<mutexVars, handle, arg>>

RegFill(p) ==
  /\ pc[p] = "reg_fill"
  /\ table' = [table EXCEPT ![idx[p]] = arg[p]]
  /\ result' = [result EXCEPT ![p] = "SUCCESS"]
  /\ idx' = [idx EXCEPT ![p] = 0]
  /\ Goto(p, "reg_unlock")
  /\ UNCHANGED <<mutexVars, handle, arg>>

RegUnlock(p) == UnlockTable(p, "reg_unlock", "reg_ret")

(***************************************************************************)
(* tt_thread_table_unregister(arg[p])                                      *)
(***************************************************************************)
UnregLock(p) == LockTable(p, "unreg_lock", "unreg_scan")

UnregPass(p) ==
  /\ pc[p] = "unreg_scan"
  /\ table[idx[p]] # arg[p]
  /\ NextSlot(p, "unreg_unlock")
  /\ UNCHANGED <<mutexVars, table, handle, arg, result>>

MutUnregKeep(p) ==   \* the entry is found and not cleared
  /\ pc[p] = "unreg_scan"
  /\ table[idx[p]] = arg[p]
  /\ result' = [result EXCEPT ![p] = "SUCCESS"]
  /\ idx' = [idx EXCEPT ![p] = 0]
  /\ Goto(p, "unreg_unlock")
  /\ UNCHANGED <<mutexVars, table, handle, arg>>

UnregClear(p) ==
  /\ pc[p] = "unreg_scan"
  /\ table[idx[p]] = arg[p]
  /\ table' = [table EXCEPT ![idx[p]] = NULL]
  /\ result' = [result EXCEPT ![p] = "SUCCESS"]
  /\ idx' = [idx EXCEPT ![p] = 0]
  /\ Goto(p, "unreg_unlock")
  /\ UNCHANGED <<mutexVars, handle, arg>>

UnregUnlock(p) == UnlockTable(p, "unreg_unlock", "unreg_ret")

(***************************************************************************)
(* tt_thread_table_find_by_handle(pthread_self()), p being the handle.     *)
(***************************************************************************)
FindLock(p) == LockTable(p, "find_lock", "find_scan")

\* The condition of the scan.  memcmp returns 0 on equality, so it selects an
\* entry in use whose handle is another one.
Selects(p, t) == t # NULL /\ handle[t] # p

FindPass(p) ==
  /\ pc[p] = "find_scan"
  /\ ~Selects(p, table[idx[p]])
  /\ NextSlot(p, "find_unlock")
  /\ UNCHANGED <<mutexVars, table, handle, arg, result>>

MutFindHitReturns(p) ==   \* return from inside the loop, the mutex held
  /\ pc[p] = "find_scan"
  /\ Selects(p, table[idx[p]])
  /\ arg' = [arg EXCEPT ![p] = table[idx[p]]]
  /\ idx' = [idx EXCEPT ![p] = 0]
  /\ Goto(p, "find_ret")
  /\ UNCHANGED <<mutexVars, table, handle, result>>

FindHit(p) ==
  /\ pc[p] = "find_scan"
  /\ Selects(p, table[idx[p]])
  /\ arg' = [arg EXCEPT ![p] = table[idx[p]]]
  /\ idx' = [idx EXCEPT ![p] = 0]
  /\ Goto(p, "find_unlock")
  /\ UNCHANGED <<mutexVars, table, handle, result>>

FindUnlock(p) == UnlockTable(p, "find_unlock", "find_ret")
==============================================================================

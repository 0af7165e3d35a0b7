------------------------- MODULE ThreadControlProofs -------------------------
(***************************************************************************)
(* SharedInv is an invariant of ThreadControl!ControlSpec, in which a      *)
(* destroy need not wait for the join of another caller to return, and     *)
(* every caller may look at its threads and control them; the safety that  *)
(* is left follows from it, and the table implements ThreadRegistry. The   *)
(* lemmas of TTThreadProofs on the mutex, the scans and the creations hold *)
(* here too; those on the structures, the calls and the entries are proved *)
(* anew, from what is left of them.                                        *)
(***************************************************************************)
EXTENDS ThreadControlInv, TTThreadRefinement

\* Threads of the library only look themselves up, detached or not.
LEMMA WorkerCallsStep ==
  ASSUME TypeOK, WorkerCalls, Act
  PROVE  WorkerCalls'
<1> USE ThreadAssumption DEF TypeOK, WorkerCalls, FindLabels, Goto, Return
<1>1. ASSUME NEW p \in Procs, TableStep(p) PROVE WorkerCalls'
  <2>0. UNCHANGED os
    BY <1>1 DEF TableStep
  <2> USE <2>0
  <2>1. CASE InitMutex(p) \/ InitNoMutex(p)
    BY <2>1 DEF InitMutex, InitNoMutex
  <2>2. CASE InitLock(p) \/ InitClear(p) \/ InitUnlock(p)
    BY <2>2 DEF InitLock, InitClear, InitUnlock, LockTable, UnlockTable
  <2>3. CASE RegLock(p) \/ UnregLock(p) \/ FindLock(p) \/ RegUnlock(p)
             \/ UnregUnlock(p) \/ FindUnlock(p)
    BY <2>3 DEF RegLock, UnregLock, FindLock, RegUnlock, UnregUnlock,
                FindUnlock, LockTable, UnlockTable
  <2>4. CASE RegPass(p) \/ UnregPass(p) \/ FindPass(p)
    BY <2>4 DEF RegPass, UnregPass, FindPass, NextSlot
  <2>5. CASE RegTake(p) \/ RegFill(p) \/ UnregClear(p) \/ FindHit(p)
    BY <2>5 DEF RegTake, RegFill, UnregClear, FindHit
  <2> QED
    BY <1>1, <2>1, <2>2, <2>3, <2>4, <2>5 DEF TableStep
<1>2. ASSUME NEW p \in Procs, Step(p), ~TableStep(p) PROVE WorkerCalls'
  <2>1. CASE CreateSpawn(p)
    BY <2>1 DEF CreateSpawn
  <2>2. CASE CreateNoThread(p) \/ CreateDone(p) \/ CreateRollback(p)
    BY <2>2 DEF CreateNoThread, CreateDone, CreateRollback
  <2>3. CASE JoinWait(p)
    BY <2>3 DEF JoinWait
  <2>4. CASE JoinFails(p) \/ JoinState(p) \/ JoinActive(p) \/ SelfReturn(p)
    BY <2>4 DEF JoinFails, JoinState, JoinActive, SelfReturn
  <2>5. CASE DestroyNotFound(p) \/ DestroyLook(p) \/ DestroyNoDetach(p)
             \/ DestroyFree(p)
    BY <2>5 DEF DestroyNotFound, DestroyLook, DestroyNoDetach, DestroyFree
  <2>6. CASE DestroyDetach(p)
    BY <2>6 DEF DestroyDetach
  <2> QED
    BY <1>2, <2>1, <2>2, <2>3, <2>4, <2>5, <2>6 DEF Step
<1>3. ASSUME NEW p \in Procs, Call(p) PROVE WorkerCalls'
  BY <1>3 DEF Call, SelfCall, InUserCode, CreateCall, JoinCall, DestroyCall
<1>4. ASSUME NEW p \in Callers, InitCall(p) \/ CleanupCall(p) PROVE WorkerCalls'
  BY <1>4 DEF InitCall, CleanupCall
<1>5. ASSUME NEW h \in Handles, Exit(h) PROVE WorkerCalls'
  BY <1>5 DEF Exit, InUserCode, tableVars
<1> QED
  BY <1>1, <1>2, <1>3, <1>4, <1>5 DEF Act, Proceed

\* A structure is TERMINATED only after its join, whoever joins and destroys it.
LEMMA SharedStructStep ==
  ASSUME TypeOK, WorkerCalls, SharedStructInv, SharedCallInv, Act
  PROVE  SharedStructInv'
<1> USE TableAssumption, ThreadAssumption DEF TypeOK, SharedStructInv, States
<1>1. ASSUME NEW p \in Procs, TableStep(p) PROVE SharedStructInv'
  <2>1. UNCHANGED <<allocated, state, active, mayJoin, mayDestroy>>
    BY <1>1, TableFrame
  <2>2. \A t \in Threads : Storing(t) => Storing(t)'
    BY <1>1, StoringStays, TableFrame DEF Step, TableLabels, Holding
  <2> QED
    BY <2>1, <2>2 DEF Storing
<1>2. ASSUME NEW p \in Procs, Step(p), ~TableStep(p) PROVE SharedStructInv'
  <2>0. pc[p] # "join_active" => \A t \in Threads : Storing(t) => Storing(t)'
    BY <1>2, StoringStays
  <2>1. CASE CreateSpawn(p) \/ JoinFails(p) \/ SelfReturn(p)
             \/ DestroyNotFound(p) \/ DestroyLook(p) \/ DestroyDetach(p)
             \/ DestroyNoDetach(p)
    <3>1. /\ pc[p] # "join_active"
          /\ UNCHANGED <<allocated, state, active, mayJoin, mayDestroy>>
      BY <2>1 DEF CreateSpawn, JoinFails, SelfReturn, DestroyNotFound, DestroyLook,
                  DestroyDetach, DestroyNoDetach, threadVars, rightVars
    <3> QED
      BY <2>0, <3>1 DEF Storing
  <2>2. CASE CreateNoThread(p) \/ CreateRollback(p) \/ DestroyFree(p)
    <3>1. pc[p] # "join_active" /\ Free(arg[p])
      BY <2>2 DEF CreateNoThread, CreateRollback, DestroyFree
    <3> QED
      BY <2>0, <3>1 DEF Free, Storing
  <2>3. CASE CreateDone(p)
    <3>1. /\ pc[p] = "reg_ret"
          /\ mayJoin' = [mayJoin EXCEPT ![arg[p]] = p]
          /\ mayDestroy' = [mayDestroy EXCEPT ![arg[p]] = p]
          /\ UNCHANGED <<allocated, state, active>>
      BY <2>3 DEF CreateDone, threadVars
    <3>2. /\ arg[p] \in allocated /\ mayDestroy[arg[p]] = NULL
          /\ state[arg[p]] = "CREATED"
      BY <3>1 DEF SharedCallInv, Works, Creates, RegLabels
    <3> QED
      BY <2>0, <3>1, <3>2 DEF Storing
  <2>4. CASE JoinWait(p)
    <3>1. /\ pc[p] = "join_wait"
          /\ mayJoin' = [mayJoin EXCEPT ![arg[p]] = NULL]
          /\ UNCHANGED <<allocated, state, active, mayDestroy>>
      BY <2>4 DEF JoinWait, threadVars
    <3> QED
      BY <2>0, <3>1 DEF Storing
  <2>5. CASE JoinState(p)
    <3>1. /\ pc[p] = "join_state"
          /\ state' = [state EXCEPT ![arg[p]] = "TERMINATED"]
          /\ pc'[p] = "join_active" /\ UNCHANGED arg
          /\ UNCHANGED <<allocated, active, mayJoin, mayDestroy>>
      BY <2>5 DEF JoinState, Goto, rightVars
    <3>2. /\ arg[p] \in allocated
          /\ mayJoin[arg[p]] = NULL
          /\ mayDestroy[arg[p]] # NULL
      BY <3>1 DEF SharedCallInv, Works, JoinLabels
    <3>3. p \in Callers
      BY <3>1 DEF WorkerCalls, FindLabels
    <3>4. Storing(arg[p])'
      BY <3>1, <3>3 DEF Storing
    <3> QED
      BY <2>0, <3>1, <3>2, <3>4 DEF Storing
  <2>6. CASE JoinActive(p)
    <3>1. /\ active' = active \ {arg[p]}
          /\ UNCHANGED <<allocated, state, mayJoin, mayDestroy>>
      BY <2>6 DEF JoinActive, rightVars
    <3>2. \A t \in Threads \ {arg[p]} : Storing(t) => Storing(t)'
      BY <1>2, OutsideFrame DEF Storing
    <3> QED
      BY <3>1, <3>2 DEF Storing
  <2> QED
    BY <1>2, <2>1, <2>2, <2>3, <2>4, <2>5, <2>6 DEF Step
<1>3. ASSUME NEW p \in Procs, Call(p) \/ InitCall(p) \/ CleanupCall(p)
      PROVE  SharedStructInv'
  <2>0. \A t \in Threads : Storing(t) => Storing(t)'
    <3>1. pc[p] # "join_active"
      BY <1>3 DEF Call, SelfCall, InUserCode, CreateCall, JoinCall, DestroyCall,
                  InitCall, CleanupCall
    <3> QED
      BY <1>3, <3>1, StoringStays
  <2>1. CASE CreateCall(p)
    <3>1. UNCHANGED <<mayJoin, mayDestroy>> /\ \E t \in Threads : Malloc(t)
      BY <2>1 DEF CreateCall, rightVars
    <3> QED
      BY <2>0, <3>1 DEF Malloc, Storing
  <2>2. CASE ~CreateCall(p)
    <3>1. UNCHANGED <<allocated, state, active, mayJoin, mayDestroy>>
      BY <1>3, <2>2 DEF Call, SelfCall, JoinCall, DestroyCall, InitCall,
                        CleanupCall, threadVars, rightVars
    <3> QED
      BY <2>0, <3>1 DEF Storing
  <2> QED
    BY <2>1, <2>2
<1>4. ASSUME NEW h \in Handles, Exit(h) PROVE SharedStructInv'
  BY <1>4 DEF Exit, Storing, tableVars, threadVars, rightVars
<1> QED
  BY <1>1, <1>2, <1>3, <1>4 DEF Act, Proceed

\* The structure of a call is not freed under it, except that of a caller whose
\* join has only is_active to store.
LEMMA SharedCallStep ==
  ASSUME TypeOK, WorkerCalls, SharedStructInv, SharedCallInv, CreateAlone,
         StoreAlone, Act
  PROVE  SharedCallInv'
<1> USE TableAssumption, ThreadAssumption
    DEF TypeOK, SharedCallInv, Works, Creates, RegLabels, DestroyLabels,
        JoinLabels, Goto, Return, ForgetLocals
<1>1. ASSUME NEW p \in Procs, TableStep(p) PROVE SharedCallInv'
  <2> USE <1>1, TableFrame
  <2>1. CASE InitMutex(p) \/ InitNoMutex(p)
    BY <2>1 DEF InitMutex, InitNoMutex, FindHit
  <2>2. CASE InitLock(p) \/ InitClear(p) \/ InitUnlock(p)
    BY <2>2 DEF InitLock, InitClear, InitUnlock, LockTable, UnlockTable
  <2>3. CASE RegLock(p) \/ UnregLock(p) \/ FindLock(p) \/ RegUnlock(p)
             \/ UnregUnlock(p) \/ FindUnlock(p)
    BY <2>3 DEF RegLock, UnregLock, FindLock, RegUnlock, UnregUnlock,
                FindUnlock, LockTable, UnlockTable
  <2>4. CASE RegPass(p) \/ UnregPass(p) \/ FindPass(p)
    BY <2>4 DEF RegPass, UnregPass, FindPass, NextSlot
  <2>5. CASE RegTake(p) \/ RegFill(p) \/ UnregClear(p)
    BY <2>5 DEF RegTake, RegFill, UnregClear
  <2>6. CASE FindHit(p)
    <3>1. pc'[p] = "find_unlock"
      BY <2>6 DEF FindHit
    <3> QED
      BY <3>1
  <2> QED
    BY <1>1, <2>1, <2>2, <2>3, <2>4, <2>5, <2>6 DEF TableStep
<1>2. ASSUME NEW p \in Procs, Step(p), ~TableStep(p) PROVE SharedCallInv'
  <2>1. CASE CreateSpawn(p)
    BY <2>1 DEF CreateSpawn, threadVars, rightVars
  <2>2. CASE CreateNoThread(p) \/ CreateRollback(p)
    <3>1. /\ Creates(p) /\ Free(arg[p])
          /\ pc' = [pc EXCEPT ![p] = "idle"]
          /\ arg' = [arg EXCEPT ![p] = NULL]
      BY <2>2 DEF CreateNoThread, CreateRollback
    <3>2. ASSUME NEW q \in Procs, q # p, Works(q), pc[q] # "join_active"
          PROVE  arg[q] \in Threads \ {arg[p]}
      BY <3>1, <3>2 DEF CreateAlone, SharedStructInv
    <3> QED
      BY <3>1, <3>2 DEF Free
  <2>3. CASE CreateDone(p)
    <3>1. /\ pc[p] = "reg_ret"
          /\ mayJoin' = [mayJoin EXCEPT ![arg[p]] = p]
          /\ mayDestroy' = [mayDestroy EXCEPT ![arg[p]] = p]
          /\ pc' = [pc EXCEPT ![p] = "idle"]
          /\ arg' = [arg EXCEPT ![p] = NULL]
          /\ UNCHANGED <<allocated, state>>
      BY <2>3 DEF CreateDone, threadVars
    <3>2. ASSUME NEW q \in Procs, q # p, Works(q), pc[q] # "join_active"
          PROVE  arg[q] \in Threads \ {arg[p]}
      BY <3>1, <3>2 DEF CreateAlone, SharedStructInv
    <3> QED
      BY <3>1, <3>2
  <2>4. CASE JoinWait(p)
    BY <2>4 DEF JoinWait, threadVars, SharedStructInv
  <2>5. CASE JoinState(p)
    BY <2>5 DEF JoinState, rightVars, StoreAlone, SharedStructInv
  <2>6. CASE JoinActive(p)
    BY <2>6 DEF JoinActive, rightVars
  <2>7. CASE JoinFails(p) \/ SelfReturn(p) \/ DestroyNotFound(p)
             \/ DestroyLook(p) \/ DestroyDetach(p) \/ DestroyNoDetach(p)
    BY <2>7 DEF JoinFails, SelfReturn, DestroyNotFound, DestroyLook,
                DestroyDetach, DestroyNoDetach, threadVars, rightVars
  <2>8. CASE DestroyFree(p)
    BY <2>8 DEF DestroyFree, Free, SharedStructInv
  <2> QED
    BY <1>2, <2>1, <2>2, <2>3, <2>4, <2>5, <2>6, <2>7, <2>8 DEF Step
<1>3. ASSUME NEW p \in Procs, Call(p) PROVE SharedCallInv'
  <2>1. CASE SelfCall(p)
    BY <2>1 DEF SelfCall, InUserCode, threadVars, rightVars
  <2>2. CASE p \in Callers /\ CreateCall(p)
    BY <2>2 DEF CreateCall, Malloc, rightVars, SharedStructInv
  <2>3. ASSUME p \in Callers, NEW t \in Threads,
               JoinCall(p, t) \/ DestroyCall(p, t)
        PROVE  SharedCallInv'
    BY <2>3 DEF JoinCall, DestroyCall, SharedStructInv, threadVars, rightVars
  <2> QED
    BY <1>3, <2>1, <2>2, <2>3 DEF Call
<1>4. ASSUME NEW p \in Callers, InitCall(p) \/ CleanupCall(p)
      PROVE  SharedCallInv'
  BY <1>4 DEF InitCall, CleanupCall, threadVars, rightVars
<1>5. ASSUME NEW h \in Handles, Exit(h) PROVE SharedCallInv'
  BY <1>5 DEF Exit, tableVars, threadVars, rightVars
<1> QED
  BY <1>1, <1>2, <1>3, <1>4, <1>5 DEF Act, Proceed

\* The right to join, which one caller has, is used up when pthread_join returns.
LEMMA StoreAloneStep ==
  ASSUME TypeOK, SharedCallInv, StoreAlone, Act
  PROVE  StoreAlone'
<1> USE TableAssumption, ThreadAssumption DEF TypeOK, StoreAlone
<1>1. ASSUME NEW p \in Procs, TableStep(p) PROVE StoreAlone'
  BY <1>1, TableFrame DEF TableLabels, Holding
<1>2. ASSUME NEW p \in Procs, JoinWait(p) PROVE StoreAlone'
  <2>1. \A q \in Procs : pc[q] = "join_state" => arg[q] # arg[p]
    BY <1>2 DEF JoinWait, SharedCallInv
  <2> QED
    BY <1>2, <2>1 DEF JoinWait, Goto
<1>3. ASSUME NEW p \in Procs, ~JoinWait(p),
             \/ Step(p) /\ ~TableStep(p)
             \/ Call(p) \/ InitCall(p) \/ CleanupCall(p)
      PROVE  StoreAlone'
  <2>1. pc'[p] # "join_state"
    <3> USE DEF Goto, Return
    <3>1. CASE Step(p) /\ ~TableStep(p)
      BY <1>3, <3>1
         DEF Step, CreateSpawn, CreateNoThread, CreateDone, CreateRollback,
             JoinFails, JoinState, JoinActive, DestroyNotFound, DestroyLook,
             DestroyDetach, DestroyNoDetach, DestroyFree, SelfReturn
    <3>2. CASE Call(p) \/ InitCall(p) \/ CleanupCall(p)
      BY <3>2 DEF Call, SelfCall, CreateCall, JoinCall, DestroyCall, InitCall,
                  CleanupCall
    <3> QED
      BY <1>3, <3>1, <3>2
  <2> QED
    BY <1>3, <2>1, OutsideFrame
<1>4. ASSUME NEW h \in Handles, Exit(h) PROVE StoreAlone'
  BY <1>4 DEF Exit, tableVars
<1> QED
  BY <1>1, <1>2, <1>3, <1>4 DEF Act, Proceed, Step

\* The result of a register or unregister agrees with the table.
LEMMA SharedResultStep ==
  ASSUME TypeOK, InitAlone, SharedStructInv, SharedCallInv, CreateAlone,
         ScanInv, SharedResultInv, OneEntryEach, NoDanglingEntry, Act
  PROVE  SharedResultInv'
<1> USE TableAssumption, ThreadAssumption
    DEF TypeOK, SharedResultInv, SharedResultOf, Creates, RegLabels,
        UnlistedLabels
<1>1. ASSUME NEW p \in Procs, TableStep(p) PROVE SharedResultInv'
  <2>1. ASSUME NEW q \in Procs, q # p PROVE SharedResultOf(q)'
    <3>0. pc'[q] = pc[q] /\ arg'[q] = arg[q] /\ result'[q] = result[q]
      BY <1>1, <2>1, TableFrame
    <3>1. Creates(q) => arg[q] \in Threads /\ mayDestroy[arg[q]] = NULL
      BY DEF SharedCallInv, Works
    <3>2. CASE InitClear(p)
      BY <2>1, <3>0, <3>2 DEF InitClear, InitAlone, InitLabels
    <3>3. CASE RegFill(p)
      <4>1. table' = [table EXCEPT ![idx[p]] = arg[p]] /\ table[idx[p]] = NULL
        BY <3>3 DEF RegFill, ScanInv, ScanOf
      <4>2. Creates(q) => arg[q] # arg[p]
        BY <2>1, <3>3 DEF RegFill, CreateAlone
      <4>3. pc[q] \in DestroyLabels => arg[q] # arg[p]
        BY <3>3 DEF RegFill, SharedCallInv
      <4> QED
        BY <3>0, <3>1, <4>1, <4>2, <4>3 DEF DestroyLabels
    <3>4. CASE UnregClear(p)
      <4>1. table' = [table EXCEPT ![idx[p]] = NULL] /\ table[idx[p]] = arg[p]
        BY <3>4 DEF UnregClear
      <4>2. Creates(q) => arg[q] # arg[p]
        BY <3>1, <3>4 DEF UnregClear, SharedCallInv, DestroyLabels
      <4>3. pc[q] \in DestroyLabels => arg[q] \in Threads
        BY DEF SharedCallInv, Works, DestroyLabels
      <4> QED
        BY <3>0, <3>1, <4>1, <4>2, <4>3 DEF DestroyLabels
    <3>5. CASE UNCHANGED table
      BY <3>0, <3>5
    <3> QED
      BY <1>1, <3>2, <3>3, <3>4, <3>5, TableWriters
  <2>2. SharedResultOf(p)'
    <3> USE DEF Goto
    <3>1. CASE InitMutex(p) \/ InitNoMutex(p) \/ InitClear(p)
      BY <3>1 DEF InitMutex, InitNoMutex, InitClear
    <3>2. CASE InitLock(p) \/ InitUnlock(p) \/ FindLock(p) \/ FindUnlock(p)
               \/ RegLock(p) \/ UnregLock(p)
      BY <3>2 DEF InitLock, InitUnlock, FindLock, FindUnlock, RegLock,
                  UnregLock, LockTable, UnlockTable
    <3>3. CASE RegUnlock(p) \/ UnregUnlock(p)
      BY <3>3 DEF RegUnlock, UnregUnlock, UnlockTable
    <3>4. CASE RegPass(p) \/ FindPass(p) \/ UnregPass(p)
      BY <3>4 DEF RegPass, FindPass, UnregPass, NextSlot
    <3>5. CASE RegTake(p) \/ FindHit(p)
      BY <3>5 DEF RegTake, FindHit
    <3>6. CASE RegFill(p)
      BY <3>6 DEF RegFill
    <3>7. CASE UnregClear(p)
      <4>1. arg[p] \in Threads
        BY <3>7 DEF UnregClear, SharedCallInv, Works, DestroyLabels
      <4>2. \A i \in Slots : table'[i] # arg[p]
        BY <3>7, <4>1 DEF UnregClear, OneEntryEach
      <4> QED
        BY <3>7, <4>2 DEF UnregClear
    <3> QED
      BY <1>1, <3>1, <3>2, <3>3, <3>4, <3>5, <3>6, <3>7 DEF TableStep
  <2> QED
    BY <2>1, <2>2
<1>2. ASSUME NEW p \in Procs,
             \/ Step(p) /\ ~TableStep(p)
             \/ Call(p) \/ InitCall(p) \/ CleanupCall(p)
      PROVE  SharedResultInv'
  <2>1. ASSUME NEW q \in Procs, q # p PROVE SharedResultOf(q)'
    BY <1>2, <2>1, OutsideFrame, OutsideTable
  <2>2. SharedResultOf(p)'
    <3> USE DEF Goto, Return, ForgetLocals
    <3>1. CASE Step(p) /\ ~TableStep(p)
      <4>1. CASE CreateSpawn(p) \/ CreateNoThread(p) \/ CreateDone(p)
                 \/ CreateRollback(p)
        BY <4>1 DEF CreateSpawn, CreateNoThread, CreateDone, CreateRollback
      <4>2. CASE JoinWait(p) \/ JoinFails(p) \/ JoinState(p) \/ JoinActive(p)
                 \/ SelfReturn(p)
        BY <4>2 DEF JoinWait, JoinFails, JoinState, JoinActive, SelfReturn
      <4>3. CASE DestroyNotFound(p) \/ DestroyLook(p) \/ DestroyDetach(p)
                 \/ DestroyNoDetach(p) \/ DestroyFree(p)
        BY <4>3 DEF DestroyNotFound, DestroyLook, DestroyDetach,
                    DestroyNoDetach, DestroyFree
      <4> QED
        BY <3>1, <4>1, <4>2, <4>3 DEF Step
    <3>2. CASE SelfCall(p) \/ InitCall(p) \/ CleanupCall(p)
      BY <3>2 DEF SelfCall, InUserCode, InitCall, CleanupCall
    <3>3. CASE CreateCall(p)
      BY <3>3 DEF CreateCall, Malloc, NoDanglingEntry
    <3>4. ASSUME NEW t \in Threads, JoinCall(p, t) \/ DestroyCall(p, t)
          PROVE  SharedResultOf(p)'
      BY <3>4 DEF JoinCall, DestroyCall
    <3> QED
      BY <1>2, <3>1, <3>2, <3>3, <3>4 DEF Call
  <2> QED
    BY <2>1, <2>2
<1>3. ASSUME NEW h \in Handles, Exit(h) PROVE SharedResultInv'
  BY <1>3 DEF Exit, tableVars
<1> QED
  BY <1>1, <1>2, <1>3, ThreadAssumption DEF Act, Proceed

\* A structure is freed when it has no entry: a create that fails has made none,
\* and a destroy has taken the one it had.
LEMMA EntriesStep ==
  ASSUME TypeOK, SharedCallInv, ScanInv, SharedResultInv, OneEntryEach,
         NoDanglingEntry, Act
  PROVE  OneEntryEach' /\ NoDanglingEntry'
<1> USE TableAssumption, ThreadAssumption
    DEF TypeOK, OneEntryEach, NoDanglingEntry
<1>1. ASSUME NEW p \in Procs, TableStep(p)
      PROVE  OneEntryEach' /\ NoDanglingEntry'
  <2>0. UNCHANGED allocated
    BY <1>1, TableFrame
  <2>1. CASE InitClear(p)
    BY <2>0, <2>1 DEF InitClear
  <2>2. CASE RegFill(p)
    <3>1. /\ table' = [table EXCEPT ![idx[p]] = arg[p]]
          /\ arg[p] \in allocated
          /\ \A i \in Slots : table[i] # arg[p]
      BY <2>2 DEF RegFill, SharedCallInv, Works, Creates, RegLabels,
                  SharedResultInv, SharedResultOf
    <3> QED
      BY <2>0, <3>1
  <2>3. CASE UnregClear(p)
    BY <2>0, <2>3 DEF UnregClear
  <2>4. CASE UNCHANGED table
    BY <2>0, <2>4
  <2> QED
    BY <1>1, <2>1, <2>2, <2>3, <2>4, TableWriters
<1>2. ASSUME NEW p \in Procs, Step(p), ~TableStep(p)
      PROVE  OneEntryEach' /\ NoDanglingEntry'
  <2>0. UNCHANGED table
    BY <1>2, OutsideTable
  <2>1. CASE CreateNoThread(p) \/ CreateRollback(p) \/ DestroyFree(p)
    <3>1. allocated' = allocated \ {arg[p]}
      BY <2>1 DEF CreateNoThread, CreateRollback, DestroyFree, Free
    <3>2. \A i \in Slots : table[i] # arg[p]
      BY <2>1 DEF CreateNoThread, CreateRollback, DestroyFree, SharedResultInv,
                  SharedResultOf, Creates, RegLabels, UnlistedLabels
    <3> QED
      BY <2>0, <3>1, <3>2
  <2>2. CASE UNCHANGED allocated
    BY <2>0, <2>2
  <2> QED
    BY <1>2, <2>1, <2>2
       DEF Step, CreateSpawn, CreateDone, JoinWait, JoinFails, JoinState,
           JoinActive, DestroyNotFound, DestroyLook, DestroyDetach,
           DestroyNoDetach, SelfReturn, threadVars
<1>3. ASSUME NEW p \in Procs, Call(p) \/ InitCall(p) \/ CleanupCall(p)
      PROVE  OneEntryEach' /\ NoDanglingEntry'
  <2>1. UNCHANGED table /\ allocated \subseteq allocated'
    BY <1>3 DEF Call, SelfCall, CreateCall, Malloc, JoinCall, DestroyCall,
                InitCall, CleanupCall, threadVars
  <2> QED
    BY <2>1
<1>4. ASSUME NEW h \in Handles, Exit(h) PROVE OneEntryEach' /\ NoDanglingEntry'
  BY <1>4 DEF Exit, tableVars, threadVars
<1> QED
  BY <1>1, <1>2, <1>3, <1>4 DEF Act, Proceed

\* A create lists its thread before it gives the right to join it, and a destroy
\* takes out only a thread that has been joined.
LEMMA ListedStep ==
  ASSUME TypeOK, InitAlone, SharedStructInv, SharedCallInv, ScanInv,
         SharedResultInv, UnjoinedIsListed, Act
  PROVE  UnjoinedIsListed'
<1> USE TableAssumption, ThreadAssumption DEF TypeOK, UnjoinedIsListed
<1>1. ASSUME NEW p \in Procs, TableStep(p) PROVE UnjoinedIsListed'
  <2>0. UNCHANGED mayJoin
    BY <1>1, TableFrame
  <2>1. CASE InitClear(p)
    BY <2>0, <2>1 DEF InitClear, InitAlone, InitLabels
  <2>2. CASE RegFill(p)
    <3>1. table' = [table EXCEPT ![idx[p]] = arg[p]] /\ table[idx[p]] = NULL
      BY <2>2 DEF RegFill, ScanInv, ScanOf
    <3> QED
      BY <2>0, <3>1
  <2>3. CASE UnregClear(p)
    <3>1. table' = [table EXCEPT ![idx[p]] = NULL] /\ table[idx[p]] = arg[p]
      BY <2>3 DEF UnregClear
    <3>2. arg[p] \in Threads /\ mayJoin[arg[p]] = NULL
      BY <2>3 DEF UnregClear, SharedCallInv, Works, DestroyLabels, SharedStructInv
    <3> QED
      BY <2>0, <3>1, <3>2
  <2>4. CASE UNCHANGED table
    BY <2>0, <2>4
  <2> QED
    BY <1>1, <2>1, <2>2, <2>3, <2>4, TableWriters
<1>2. ASSUME NEW p \in Procs, Step(p), ~TableStep(p) PROVE UnjoinedIsListed'
  <2>0. UNCHANGED table
    BY <1>2, OutsideTable
  <2>1. CASE CreateDone(p)
    <3>1. /\ mayJoin' = [mayJoin EXCEPT ![arg[p]] = p]
          /\ \E i \in Slots : table[i] = arg[p]
      BY <2>1 DEF CreateDone, SharedResultInv, SharedResultOf, Creates, RegLabels
    <3> QED
      BY <2>0, <3>1
  <2>2. CASE \A t \in Threads : mayJoin'[t] \in {mayJoin[t], NULL}
    BY <2>0, <2>2
  <2> QED
    BY <1>2, <2>1, <2>2
       DEF Step, CreateSpawn, CreateNoThread, CreateRollback, JoinWait, JoinFails,
           JoinState, JoinActive, DestroyNotFound, DestroyLook, DestroyDetach,
           DestroyNoDetach, DestroyFree, SelfReturn, Free, rightVars
<1>3. ASSUME NEW p \in Procs, Call(p) \/ InitCall(p) \/ CleanupCall(p)
      PROVE  UnjoinedIsListed'
  <2>1. UNCHANGED <<table, mayJoin>>
    BY <1>3 DEF Call, SelfCall, CreateCall, JoinCall, DestroyCall, InitCall,
                CleanupCall, rightVars
  <2> QED
    BY <2>1
<1>4. ASSUME NEW h \in Handles, Exit(h) PROVE UnjoinedIsListed'
  BY <1>4 DEF Exit, tableVars, rightVars
<1> QED
  BY <1>1, <1>2, <1>3, <1>4 DEF Act, Proceed

\* A caller gives a right away only between its calls: no call counts on it.
LEMMA HandOffStep ==
  ASSUME SharedInv, NEW c \in Callers, NEW d \in Callers, NEW t \in Threads,
         HandOff(c, d, t)
  PROVE  SharedInv'
<1> USE TableAssumption, ThreadAssumption DEF SharedInv, TypeOK
<1>1. /\ pc[c] = "idle"
      /\ UNCHANGED <<mutexVars, tableVars, threadVars, os>>
      /\ \/ /\ mayJoin[t] = c
            /\ mayJoin' = [mayJoin EXCEPT ![t] = d]
            /\ UNCHANGED mayDestroy
         \/ /\ mayDestroy[t] = c
            /\ mayDestroy' = [mayDestroy EXCEPT ![t] = d]
            /\ UNCHANGED mayJoin
  BY DEF HandOff
<1>2. TypeOK' /\ LockInv' /\ InitAlone' /\ WorkerCalls'
  BY <1>1 DEF MutexTypeOK, LockInv, InitAlone, WorkerCalls, mutexVars,
              tableVars, threadVars
<1>3. SharedStructInv'
  BY <1>1 DEF SharedStructInv, Storing, tableVars, threadVars
<1>4. SharedCallInv'
  BY <1>1 DEF SharedCallInv, Works, Creates, RegLabels, DestroyLabels,
              JoinLabels, tableVars, threadVars
<1>5. /\ CreateAlone' /\ StoreAlone' /\ ScanInv' /\ SharedResultInv'
      /\ OneEntryEach' /\ NoDanglingEntry' /\ UnjoinedIsListed'
  BY <1>1 DEF CreateAlone, Creates, StoreAlone, ScanInv, ScanOf,
              SharedResultInv, SharedResultOf, OneEntryEach, NoDanglingEntry,
              UnjoinedIsListed, tableVars, threadVars
<1> QED
  BY <1>2, <1>3, <1>4, <1>5

\* Besides its type, the invariant does not look at the priority.
LEMMA SamePriority ==
  ASSUME SharedInv, TypeOK',
         UNCHANGED <<mutexVars, tableVars, allocated, state, active, os,
                     rightVars>>
  PROVE  SharedInv'
<1> USE DEF SharedInv, mutexVars, tableVars, rightVars
<1>1. LockInv' /\ InitAlone' /\ WorkerCalls'
  BY DEF LockInv, InitAlone, WorkerCalls
<1>2. SharedStructInv' /\ SharedCallInv' /\ CreateAlone' /\ StoreAlone'
  BY DEF SharedStructInv, Storing, SharedCallInv, Works, Creates, CreateAlone,
         StoreAlone
<1>3. /\ ScanInv' /\ SharedResultInv'
      /\ OneEntryEach' /\ NoDanglingEntry' /\ UnjoinedIsListed'
  BY DEF ScanInv, ScanOf, SharedResultInv, SharedResultOf, Creates,
         OneEntryEach, NoDanglingEntry, UnjoinedIsListed
<1> QED
  BY <1>1, <1>2, <1>3

\* Every step of ThreadControl preserves the invariant.
LEMMA ControlStep == SharedInv /\ [ControlNext]_vars => SharedInv'
<1> SUFFICES ASSUME SharedInv, [ControlNext]_vars PROVE SharedInv'
  OBVIOUS
<1>1. CASE Act
  <2> USE <1>1 DEF SharedInv
  <2>1. TypeOK' /\ LockInv' /\ InitAlone' /\ WorkerCalls'
    BY TypeStep, LockStep, InitAloneStep, WorkerCallsStep DEF WorkerCalls
  <2>2. SharedStructInv' /\ SharedCallInv' /\ StoreAlone'
    BY SharedStructStep, SharedCallStep, StoreAloneStep
  <2>3. CreateAlone'
    BY CreateAloneStep DEF SharedCallInv, Works, Creates, RegLabels
  <2>4. ScanInv'
    BY ScanStep DEF SharedCallInv, Works, RegLabels, DestroyLabels, JoinLabels
  <2>5. /\ SharedResultInv'
        /\ OneEntryEach' /\ NoDanglingEntry' /\ UnjoinedIsListed'
    BY SharedResultStep, EntriesStep, ListedStep
  <2> QED
    BY <2>1, <2>2, <2>3, <2>4, <2>5
<1>2. ASSUME NEW c \in Callers, NEW d \in Callers, NEW t \in Threads,
             HandOff(c, d, t)
      PROVE  SharedInv'
  BY <1>2, HandOffStep
<1>3. ASSUME NEW c \in Callers, NEW t \in Threads, SetPriority(c, t)
      PROVE  SharedInv'
  <2>1. TypeOK'
    <3>1. priority' \in [Threads -> Priorities]
      BY <1>3 DEF SetPriority, SharedInv, TypeOK
    <3> QED
      BY <1>3, <3>1 DEF SetPriority, SharedInv, TypeOK, MutexTypeOK, mutexVars,
                        tableVars, rightVars
  <2> QED
    BY <1>3, <2>1, SamePriority DEF SetPriority
<1>4. CASE UNCHANGED vars
  <2>1. TypeOK'
    BY <1>4 DEF SharedInv, TypeOK, MutexTypeOK, vars, mutexVars, tableVars,
                threadVars, rightVars
  <2> QED
    BY <1>4, <2>1, SamePriority DEF vars, threadVars
<1> QED
  BY <1>1, <1>2, <1>3, <1>4 DEF ControlNext, SharedNext

\* Nothing is allocated and nobody is in the library.
LEMMA InitSharedInv == Init => SharedInv
<1> SUFFICES ASSUME Init PROVE SharedInv
  OBVIOUS
<1>1. Inv
  BY InitInv
<1>2. WorkerCalls /\ SharedStructInv /\ StoreAlone
  BY ThreadAssumption
     DEF Init, WorkerCalls, SharedStructInv, StoreAlone
<1>3. SharedCallInv /\ SharedResultInv
  BY DEF Init, SharedCallInv, SharedResultInv, SharedResultOf, Works, Creates,
         RegLabels, DestroyLabels, UnlistedLabels, JoinLabels
<1> QED
  BY <1>1, <1>2, <1>3
     DEF SharedInv, Inv, TableInv, OneEntryEach, NoDanglingEntry, Init,
         UnjoinedIsListed

-------------------------------------------------------------------------------
\* The invariant holds in every state the library can reach, whichever callers
\* join and destroy a thread, whatever their number and that of the slots.
THEOREM SharedInvariance == ControlSpec => []SharedInv
  BY InitSharedInv, ControlStep, PTL DEF ControlSpec

\* The thread in a critical section of the table holds the pthread mutex that
\* the mutex of the table points to, although the end of a join may be overtaken.
THEOREM SharedTableIsExclusive == ControlSpec => []MutualExclusion
<1>1. SharedInv => MutualExclusion
  BY DEF SharedInv, LockInv, MutualExclusion
<1> QED
  BY SharedInvariance, <1>1, PTL

\* Entries never point to a structure that has been freed, and no structure has
\* two, whoever frees it.
THEOREM SharedEntriesAreSound == ControlSpec => [](NoDanglingEntry /\ OneEntryEach)
<1>1. SharedInv => NoDanglingEntry /\ OneEntryEach
  BY DEF SharedInv
<1> QED
  BY SharedInvariance, <1>1, PTL

\* A registration is refused only when every slot is taken.
THEOREM SharedRefusedOnlyWhenFull == ControlSpec => []FullWhenRefused
<1>1. SharedInv => FullWhenRefused
  BY DEF SharedInv, ScanInv, ScanOf, FullWhenRefused
<1> QED
  BY SharedInvariance, <1>1, PTL

\* An entry is removed by the caller that destroys its thread at that time, and by
\* nothing else.
THEOREM SharedEntriesAreKept == ControlSpec => EntryKept
<1>1. ASSUME SharedInv, ControlNext PROVE \A i \in Slots : Kept(i)
  <2>1. CASE Act
    BY <1>1, <2>1, KeptStep DEF SharedInv, WorkerCalls, SharedCallInv, DestroyLabels
  <2>2. CASE UNCHANGED table
    BY <2>2 DEF Kept
  <2> QED
    BY <1>1, <2>1, <2>2
       DEF ControlNext, SharedNext, HandOff, SetPriority, tableVars
<1>2. ASSUME UNCHANGED vars PROVE \A i \in Slots : Kept(i)
  BY <1>2 DEF vars, tableVars, Kept
<1>3. SharedInv /\ [ControlNext]_vars => [\A i \in Slots : Kept(i)]_vars
  BY <1>1, <1>2
<1> QED
  BY SharedInvariance, <1>3, PTL DEF ControlSpec, EntryKept

\* A thread that is still to be joined is in the table, whoever destroys others.
THEOREM UnjoinedStaysListed == ControlSpec => []UnjoinedIsListed
<1>1. SharedInv => UnjoinedIsListed
  BY DEF SharedInv
<1> QED
  BY SharedInvariance, <1>1, PTL

\* The label "destroy_detach" is reached by DestroyLook alone.
LEMMA LookedActive ==
  ASSUME TypeOK, Act, NEW p \in Procs, pc[p] = "unreg_ret",
         pc'[p] = "destroy_detach"
  PROVE  arg[p] \in active
<1> USE ThreadAssumption DEF TypeOK, Goto, Return
<1>1. ASSUME NEW q \in Procs, Step(q) \/ Call(q) \/ InitCall(q) \/ CleanupCall(q)
      PROVE  q = p
  BY <1>1, TableFrame, OutsideFrame
<1>2. CASE Step(p)
  <2>1. ~TableStep(p)
    BY TableFrame
  <2> QED
    BY <1>2, <2>1
       DEF Step, CreateSpawn, CreateNoThread, CreateDone, CreateRollback, JoinWait,
           JoinFails, JoinState, JoinActive, DestroyNotFound, DestroyLook,
           DestroyDetach, DestroyNoDetach, DestroyFree, SelfReturn
<1>3. ~(Call(p) \/ InitCall(p) \/ CleanupCall(p))
  BY DEF Call, SelfCall, InUserCode, CreateCall, JoinCall, DestroyCall, InitCall,
         CleanupCall
<1>4. ~\E h \in Handles : Exit(h)
  BY DEF Exit, tableVars
<1> QED
  BY <1>1, <1>2, <1>3, <1>4 DEF Act, Proceed

\* A destroy finds is_active set only between the two stores of the join.
THEOREM ActiveIsSeenOnlyInJoin == ControlSpec => ActiveSeenOnlyInJoin
<1> DEFINE Seen == \A p \in Procs :
                     pc[p] = "unreg_ret" /\ pc'[p] = "destroy_detach" =>
                       mayJoin[arg[p]] = NULL /\ Storing(arg[p])
<1>1. ASSUME SharedInv, ControlNext \/ UNCHANGED vars PROVE Seen
  <2>1. ASSUME NEW p \in Procs, pc[p] = "unreg_ret", pc'[p] = "destroy_detach"
        PROVE  mayJoin[arg[p]] = NULL /\ Storing(arg[p])
    <3>1. arg[p] \in Threads /\ state[arg[p]] = "TERMINATED"
      BY <1>1, <2>1
         DEF SharedInv, TypeOK, SharedCallInv, Works, DestroyLabels
    <3>2. Act
      BY <1>1, <2>1 DEF ControlNext, SharedNext, HandOff, SetPriority, vars, tableVars
    <3>3. arg[p] \in active
      BY <1>1, <2>1, <3>2, LookedActive DEF SharedInv
    <3> QED
      BY <1>1, <3>1, <3>3 DEF SharedInv, SharedStructInv
  <2> QED
    BY <2>1
<1>2. SharedInv /\ [ControlNext]_vars => [Seen]_vars
  BY <1>1
<1> QED
  BY SharedInvariance, <1>2, PTL DEF ControlSpec, ActiveSeenOnlyInJoin

\* The field state of a structure changes by its allocation, by its release and by
\* the end of its join.
LEMMA StateWriters ==
  ASSUME TypeOK, NEW t \in Threads, Act, state'[t] # state[t]
  PROVE  t \notin allocated \/ t \notin allocated' \/ state'[t] = "TERMINATED"
<1> USE DEF TypeOK
<1>1. ASSUME NEW p \in Procs, Step(p)
      PROVE  t \notin allocated' \/ state'[t] = "TERMINATED"
  <2>1. ~TableStep(p)
    BY TableFrame
  <2> QED
    BY <1>1, <2>1
       DEF Step, CreateSpawn, CreateNoThread, CreateDone, CreateRollback,
           JoinWait, JoinFails, JoinState, JoinActive, DestroyNotFound,
           DestroyLook, DestroyDetach, DestroyNoDetach, DestroyFree, SelfReturn,
           Free, threadVars
<1>2. ASSUME NEW p \in Procs, Call(p) PROVE t \notin allocated
  BY <1>2 DEF Call, SelfCall, CreateCall, Malloc, JoinCall, DestroyCall, threadVars
<1> QED
  BY <1>1, <1>2 DEF Act, Proceed, InitCall, CleanupCall, Exit, threadVars

\* A thread that get_state calls TERMINATED has been joined, and its structure is
\* TERMINATED until it is freed.
THEOREM TerminatedStays == ControlSpec => TerminatedIsFinal
<1> DEFINE Final == \A t \in Threads :
                      GetState(t) = "TERMINATED" =>
                        /\ mayJoin[t] = NULL
                        /\ t \in allocated' => GetState(t)' = "TERMINATED"
<1>1. ASSUME SharedInv, ControlNext \/ UNCHANGED vars PROVE Final
  <2>1. ASSUME NEW t \in Threads, state[t] = "TERMINATED"
        PROVE  mayJoin[t] = NULL /\ t \in allocated
    BY <1>1, <2>1 DEF SharedInv, SharedStructInv
  <2>2. CASE Act
    BY <1>1, <2>1, <2>2, StateWriters DEF GetState, SharedInv
  <2>3. CASE UNCHANGED state
    BY <2>1, <2>3 DEF GetState
  <2> QED
    BY <1>1, <2>2, <2>3
       DEF ControlNext, SharedNext, HandOff, SetPriority, vars, threadVars
<1>2. SharedInv /\ [ControlNext]_vars => [Final]_vars
  BY <1>1
<1> QED
  BY SharedInvariance, <1>2, PTL DEF ControlSpec, TerminatedIsFinal

-------------------------------------------------------------------------------
\* A table with no free slot lists one structure per slot.
LEMMA FullTable ==
  ASSUME TypeOK, OneEntryEach, \A i \in Slots : table[i] # NULL
  PROVE  Cardinality(Listed) = MaxThreads
<1> DEFINE Entry == [i \in Slots |-> table[i]]
<1>1. IsFiniteSet(Slots) /\ Cardinality(Slots) = MaxThreads
  BY TableAssumption, FS_Interval DEF Slots
<1>2. Entry \in Surjection(Slots, Listed)
  BY DEF Surjection, Listed
<1>3. Entry \in Injection(Slots, Listed)
  BY DEF Injection, IsInjective, OneEntryEach, Listed
<1>4. ExistsBijection(Slots, Listed)
  BY <1>2, <1>3 DEF ExistsBijection, Bijection
<1> QED
  BY <1>1, <1>4, FS_Bijection

\* The two modules have the cardinality of the same standard module.
LEMMA RegistryCardinality == \A S : Registry!Cardinality(S) = Cardinality(S)
BY DEF Registry!Cardinality, Cardinality

\* The mapping of a thread reads the locals of that thread only.
LEMMA MappingMoves ==
  ASSUME NEW p \in Procs,
         \A q \in Procs \ {p} :
           pc'[q] = pc[q] /\ arg'[q] = arg[q] /\ result'[q] = result[q]
  PROVE  /\ AsksOf' = [AsksOf EXCEPT ![p] = Asks(p)']
         /\ AboutOf' = [AboutOf EXCEPT ![p] = About(p)']
         /\ AnswerOf' = [AnswerOf EXCEPT ![p] = Answer(p)']
<1>1. \A q \in Procs \ {p} :
        Asks(q)' = Asks(q) /\ About(q)' = About(q) /\ Answer(q)' = Answer(q)
  BY DEF Asks, About, Answer
<1> QED
  BY <1>1 DEF AsksOf, AboutOf, AnswerOf

\* The steps of the table's functions.
LEMMA TableStepRegisters ==
  ASSUME SharedInv, NEW p \in Procs, TableStep(p)
  PROVE  [Registry!Next]_<<Listed, AsksOf, AboutOf, AnswerOf>>
<1> USE TableAssumption DEF Goto
<1> DEFINE Seen == <<Asks(p), About(p), Answer(p)>>
<1>0. TypeOK
  BY DEF SharedInv
<1>1. /\ AsksOf' = [AsksOf EXCEPT ![p] = Asks(p)']
      /\ AboutOf' = [AboutOf EXCEPT ![p] = About(p)']
      /\ AnswerOf' = [AnswerOf EXCEPT ![p] = Answer(p)']
      /\ AsksOf[p] = Asks(p) /\ AboutOf[p] = About(p) /\ AnswerOf[p] = Answer(p)
  BY <1>0, TableFrame, MappingMoves DEF AsksOf, AboutOf, AnswerOf
<1>2. ASSUME UNCHANGED Listed, Seen' = Seen
      PROVE  UNCHANGED <<Listed, AsksOf, AboutOf, AnswerOf>>
  BY <1>1, <1>2 DEF AsksOf, AboutOf, AnswerOf
<1>3. CASE RegFill(p)
  <2>1. /\ table' = [table EXCEPT ![idx[p]] = arg[p]]
        /\ table[idx[p]] = NULL /\ idx[p] \in Slots
        /\ arg[p] \in Threads /\ arg[p] \notin Listed
    BY <1>0, <1>3
       DEF RegFill, TypeOK, SharedInv, ScanInv, ScanOf, SharedCallInv, Works,
           Creates, RegLabels, SharedResultInv, SharedResultOf, Listed
  <2>2. Listed' = Listed \cup {arg[p]}
    BY <1>0, <2>1 DEF Listed, TypeOK
  <2>3. /\ Asks(p) = "register" /\ About(p) = arg[p]
        /\ Asks(p)' = "nothing" /\ About(p)' = NULL /\ Answer(p)' = "SUCCESS"
    BY <1>0, <1>3 DEF RegFill, TypeOK, Asks, About, Answer
  <2>4. Registry!Register(p)
    BY <1>0, <1>1, <2>1, <2>2, <2>3, FreeSlot, RegistryCardinality
       DEF Registry!Register, Registry!Answer
  <2> QED
    BY <2>4 DEF Registry!Next
<1>4. CASE UnregClear(p)
  <2>1. /\ table' = [table EXCEPT ![idx[p]] = NULL]
        /\ table[idx[p]] = arg[p] /\ idx[p] \in Slots
        /\ arg[p] \in Threads
    BY <1>0, <1>4
       DEF UnregClear, TypeOK, SharedInv, SharedCallInv, Works, DestroyLabels
  <2>2. Listed' = Listed \ {arg[p]} /\ arg[p] \in Listed
    BY <1>0, <2>1 DEF Listed, TypeOK, SharedInv, OneEntryEach
  <2>3. /\ Asks(p) = "unregister" /\ About(p) = arg[p]
        /\ Asks(p)' = "nothing" /\ About(p)' = NULL /\ Answer(p)' = "SUCCESS"
    BY <1>0, <1>4 DEF UnregClear, TypeOK, Asks, About, Answer
  <2>4. Registry!Unregister(p)
    BY <1>1, <2>2, <2>3 DEF Registry!Unregister, Registry!Answer
  <2> QED
    BY <2>4 DEF Registry!Next
<1>5. CASE RegPass(p)
  <2>0. UNCHANGED Listed
    BY <1>5, SameListed DEF RegPass
  <2>1. CASE idx[p] + 1 \in Slots
    BY <1>2, <1>5, <2>0, <2>1 DEF RegPass, NextSlot, Asks, About, Answer
  <2>2. CASE idx[p] + 1 \notin Slots
    <3>1. \A i \in Slots : table[i] # NULL
      BY <1>0, <1>5, <2>2, LastSlot
         DEF RegPass, TypeOK, SharedInv, ScanInv, ScanOf
    <3>2. /\ Asks(p) = "register"
          /\ Asks(p)' = "nothing" /\ About(p)' = NULL /\ Answer(p)' = "NOT_FOUND"
      BY <1>0, <1>5, <2>2
         DEF RegPass, NextSlot, TypeOK, SharedInv, SharedResultInv,
             SharedResultOf, UnlistedLabels, Asks, About, Answer
    <3>3. Cardinality(Listed) = MaxThreads
      BY <1>0, <3>1, FullTable DEF SharedInv
    <3>4. Registry!Refuse(p)
      BY <1>1, <2>0, <3>2, <3>3, RegistryCardinality
         DEF Registry!Refuse, Registry!Answer
    <3> QED
      BY <3>4 DEF Registry!Next
  <2> QED
    BY <2>1, <2>2
<1>6. CASE UnregPass(p)
  <2>0. UNCHANGED Listed
    BY <1>6, SameListed DEF UnregPass
  <2>1. CASE idx[p] + 1 \in Slots
    BY <1>2, <1>6, <2>0, <2>1 DEF UnregPass, NextSlot, Asks, About, Answer
  <2>2. CASE idx[p] + 1 \notin Slots
    <3>1. arg[p] \notin Listed
      BY <1>0, <1>6, <2>2, LastSlot
         DEF UnregPass, TypeOK, SharedInv, ScanInv, ScanOf, Listed
    <3>2. /\ Asks(p) = "unregister" /\ About(p) = arg[p]
          /\ Asks(p)' = "nothing" /\ About(p)' = NULL /\ Answer(p)' = "NOT_FOUND"
      BY <1>0, <1>6, <2>2
         DEF UnregPass, NextSlot, TypeOK, SharedInv, SharedResultInv,
             SharedResultOf, UnlistedLabels, Asks, About, Answer
    <3>3. Registry!Miss(p)
      BY <1>1, <2>0, <3>1, <3>2 DEF Registry!Miss, Registry!Answer
    <3> QED
      BY <3>3 DEF Registry!Next
  <2> QED
    BY <2>1, <2>2
<1>7. CASE FindPass(p)
  <2>0. UNCHANGED Listed
    BY <1>7, SameListed DEF FindPass
  <2>1. CASE idx[p] + 1 \in Slots
    BY <1>2, <1>7, <2>0, <2>1 DEF FindPass, NextSlot, Asks, About, Answer
  <2>2. CASE idx[p] + 1 \notin Slots
    <3>1. arg[p] = NULL
      BY <1>7 DEF FindPass, SharedInv, SharedCallInv, Works, RegLabels,
                  DestroyLabels, JoinLabels
    <3>2. /\ Asks(p) = "find"
          /\ Asks(p)' = "nothing" /\ About(p)' = NULL /\ Answer(p)' = NULL
      BY <1>0, <1>7, <2>2, <3>1 DEF FindPass, NextSlot, TypeOK, Asks, About, Answer
    <3>3. Registry!Find(p)
      BY <1>1, <2>0, <3>2 DEF Registry!Find, Registry!Answer
    <3> QED
      BY <3>3 DEF Registry!Next
  <2> QED
    BY <2>1, <2>2
<1>8. CASE FindHit(p)
  <2>1. UNCHANGED Listed
    BY <1>8, SameListed DEF FindHit
  <2>2. table[idx[p]] \in Listed
    BY <1>0, <1>8 DEF FindHit, Selects, Listed, TypeOK
  <2>3. /\ Asks(p) = "find" /\ Asks(p)' = "nothing" /\ About(p)' = NULL
        /\ Answer(p)' = table[idx[p]]
    BY <1>0, <1>8 DEF FindHit, TypeOK, Asks, About, Answer
  <2>4. Registry!Find(p)
    BY <1>1, <2>1, <2>2, <2>3 DEF Registry!Find, Registry!Answer
  <2> QED
    BY <2>4 DEF Registry!Next
<1>9. CASE InitMutex(p) \/ InitNoMutex(p) \/ InitLock(p) \/ InitClear(p)
           \/ InitUnlock(p)
  <2>1. UNCHANGED table
    <3>1. CASE InitClear(p)
      BY <1>0, <3>1 DEF InitClear, SharedInv, InitAlone, InitLabels, TypeOK
    <3>2. CASE ~InitClear(p)
      BY <1>9, <3>2 DEF InitMutex, InitNoMutex, InitLock, InitUnlock, LockTable,
                        UnlockTable
    <3> QED
      BY <3>1, <3>2
  <2>2. Seen' = Seen
    BY <1>0, <1>9 DEF InitMutex, InitNoMutex, InitLock, InitClear, InitUnlock,
                      LockTable, UnlockTable, TypeOK, Asks, About, Answer
  <2> QED
    BY <1>2, <2>1, <2>2, SameListed
<1>10. CASE RegLock(p) \/ UnregLock(p) \/ FindLock(p) \/ RegTake(p)
            \/ RegUnlock(p) \/ UnregUnlock(p) \/ FindUnlock(p)
  <2>1. UNCHANGED table
    BY <1>10 DEF RegLock, UnregLock, FindLock, RegTake, RegUnlock, UnregUnlock,
                 FindUnlock, LockTable, UnlockTable
  <2>2. Seen' = Seen
    <3>1. CASE RegLock(p) \/ UnregLock(p) \/ FindLock(p)
      BY <1>0, <3>1 DEF RegLock, UnregLock, FindLock, LockTable, TypeOK, Asks,
                        About, Answer
    <3>2. CASE RegTake(p)
      BY <1>0, <3>2 DEF RegTake, TypeOK, Asks, About, Answer
    <3>3. CASE RegUnlock(p) \/ UnregUnlock(p) \/ FindUnlock(p)
      BY <1>0, <3>3 DEF RegUnlock, UnregUnlock, FindUnlock, UnlockTable, TypeOK,
                        Asks, About, Answer
    <3> QED
      BY <1>10, <3>1, <3>2, <3>3
  <2> QED
    BY <1>2, <2>1, <2>2, SameListed
<1> QED
  BY <1>3, <1>4, <1>5, <1>6, <1>7, <1>8, <1>9, <1>10 DEF TableStep

\* The steps outside the table begin a call of it, or go on after one.
LEMMA OutsideStepRegisters ==
  ASSUME SharedInv, NEW p \in Procs,
         \/ Step(p) /\ ~TableStep(p)
         \/ Call(p) \/ InitCall(p) \/ CleanupCall(p)
  PROVE  [Registry!Next]_<<Listed, AsksOf, AboutOf, AnswerOf>>
<1> USE TableAssumption DEF Goto, Return
<1>0. TypeOK /\ UNCHANGED Listed
  BY OutsideTable, SameListed DEF SharedInv
<1>1. /\ AsksOf' = [AsksOf EXCEPT ![p] = Asks(p)']
      /\ AboutOf' = [AboutOf EXCEPT ![p] = About(p)']
      /\ AnswerOf' = [AnswerOf EXCEPT ![p] = Answer(p)']
      /\ AsksOf[p] = Asks(p) /\ AboutOf[p] = About(p) /\ AnswerOf[p] = Answer(p)
  BY <1>0, OutsideFrame, MappingMoves DEF AsksOf, AboutOf, AnswerOf
<1>2. ASSUME Asks(p) = "nothing", Asks(p)' = "nothing", Answer(p)' = "none"
      PROVE  Registry!Next
  <2>1. About(p) = NULL /\ About(p)' = NULL
    BY <1>2 DEF About
  <2>2. UNCHANGED <<AsksOf, AboutOf>>
    BY <1>1, <1>2, <2>1 DEF AsksOf, AboutOf
  <2>3. Registry!GoOn(p)
    BY <1>0, <1>1, <1>2, <2>2 DEF Registry!GoOn
  <2> QED
    BY <2>3 DEF Registry!Next
<1>3. ASSUME NEW what \in {"register", "unregister"}, NEW t \in Threads,
             Asks(p) = "nothing", Asks(p)' = what, About(p)' = t,
             Answer(p)' = "none"
      PROVE  Registry!Next
  <2>1. Registry!Ask(p, what, Threads)
    BY <1>0, <1>1, <1>3 DEF Registry!Ask
  <2> QED
    BY <2>1 DEF Registry!Next
<1>4. CASE CreateSpawn(p)
  <2>1. arg[p] \in Threads /\ UNCHANGED arg /\ pc'[p] = "reg_lock"
    BY <1>0, <1>4 DEF CreateSpawn, TypeOK, SharedInv, SharedCallInv, Works
  <2>2. /\ Asks(p) = "nothing" /\ Asks(p)' = "register" /\ About(p)' = arg[p]
        /\ Answer(p)' = "none"
    BY <1>4, <2>1 DEF CreateSpawn, Asks, About, Answer
  <2> QED
    BY <1>3, <2>1, <2>2
<1>5. ASSUME NEW t \in Threads, DestroyCall(p, t)
      PROVE  Registry!Next
  <2>1. pc[p] = "idle" /\ pc'[p] = "unreg_lock" /\ arg'[p] = t
    BY <1>0, <1>5 DEF DestroyCall, TypeOK
  <2>2. /\ Asks(p) = "nothing" /\ Asks(p)' = "unregister" /\ About(p)' = t
        /\ Answer(p)' = "none"
    BY <2>1 DEF Asks, About, Answer
  <2> QED
    BY <1>3, <2>2
<1>6. CASE SelfCall(p)
  <2>1. pc[p] = "idle" /\ pc'[p] = "find_lock"
    BY <1>0, <1>6 DEF SelfCall, InUserCode, TypeOK
  <2>2. /\ Asks(p) = "nothing" /\ Asks(p)' = "find" /\ About(p)' = NULL
        /\ Answer(p)' = "none"
    BY <2>1 DEF Asks, About, Answer
  <2>3. Registry!Ask(p, "find", {NULL})
    BY <1>0, <1>1, <2>2 DEF Registry!Ask
  <2> QED
    BY <2>3 DEF Registry!Next
<1> DEFINE Away == JoinLabels \cup {"idle", "create", "destroy_detach", "destroy_free"}
<1>7. ASSUME pc[p] \in Away \cup {"reg_ret", "unreg_ret", "find_ret"},
             pc'[p] \in Away \cup {"init_mutex", "init_lock"}
      PROVE  Registry!Next
  <2>1. Asks(p) = "nothing" /\ Asks(p)' = "nothing" /\ Answer(p)' = "none"
    BY <1>7 DEF JoinLabels, Asks, Answer
  <2> QED
    BY <1>2, <2>1
<1>8. CASE Step(p) /\ ~TableStep(p) /\ ~CreateSpawn(p)
  <2>1. CASE CreateNoThread(p) \/ CreateDone(p) \/ CreateRollback(p)
             \/ SelfReturn(p)
    BY <1>0, <1>7, <2>1 DEF CreateNoThread, CreateDone, CreateRollback,
                            SelfReturn, TypeOK
  <2>2. CASE JoinWait(p) \/ JoinFails(p) \/ JoinState(p) \/ JoinActive(p)
    BY <1>0, <1>7, <2>2 DEF JoinWait, JoinFails, JoinState, JoinActive,
                            JoinLabels, TypeOK
  <2>3. CASE DestroyNotFound(p) \/ DestroyLook(p) \/ DestroyDetach(p)
             \/ DestroyNoDetach(p) \/ DestroyFree(p)
    BY <1>0, <1>7, <2>3 DEF DestroyNotFound, DestroyLook, DestroyDetach,
                            DestroyNoDetach, DestroyFree, TypeOK
  <2> QED
    BY <1>8, <2>1, <2>2, <2>3 DEF Step
<1>9. CASE \/ CreateCall(p) \/ InitCall(p) \/ CleanupCall(p)
           \/ \E t \in Threads : JoinCall(p, t)
  BY <1>0, <1>7, <1>9 DEF CreateCall, InitCall, CleanupCall, JoinCall,
                          JoinLabels, TypeOK
<1> QED
  BY <1>4, <1>5, <1>6, <1>8, <1>9 DEF Call

\* The thread table, used by any number of threads at once, is a set that they use
\* one after the other.
THEOREM RegistryRefinement == ControlSpec => ImplementsRegistry
<1>1. Init => Registry!Init
  BY DEF Init, Registry!Init, Listed, AsksOf, AboutOf, AnswerOf, Asks, About,
         Answer
<1>2. ASSUME SharedInv, [ControlNext]_vars
      PROVE  [Registry!Next]_<<Listed, AsksOf, AboutOf, AnswerOf>>
  <2>1. CASE Act
    <3>1. ASSUME NEW h \in Handles, Exit(h) PROVE UNCHANGED tableVars
      BY <3>1 DEF Exit
    <3>2. CASE UNCHANGED tableVars
      BY <3>2 DEF tableVars, Listed, AsksOf, AboutOf, AnswerOf, Asks, About, Answer
    <3> QED
      BY <1>2, <2>1, <3>1, <3>2, TableStepRegisters, OutsideStepRegisters,
         ThreadAssumption DEF Act, Proceed
  <2>2. CASE UNCHANGED tableVars
    BY <2>2 DEF tableVars, Listed, AsksOf, AboutOf, AnswerOf, Asks, About, Answer
  <2> QED
    BY <1>2, <2>1, <2>2 DEF ControlNext, SharedNext, HandOff, SetPriority, vars
<1>3. [Registry!Next]_<<Listed, AsksOf, AboutOf, AnswerOf>>
        => [Registry!Next]_(Registry!registryVars)
  BY DEF Registry!registryVars
<1> QED
  BY SharedInvariance, <1>1, <1>2, <1>3, PTL
     DEF ControlSpec, ImplementsRegistry, Registry!Spec

\* What holds when join and destroy are shared holds for the client of Spec, too.
LEMMA SpecIsControl == (Spec => ControlSpec) /\ (SharedSpec => ControlSpec)
<1>1. [Next]_vars => [ControlNext]_vars
  BY DEF ControlNext, SharedNext, Next, Act
<1>2. [SharedNext]_vars => [ControlNext]_vars
  BY DEF ControlNext
<1> QED
  BY <1>1, <1>2, PTL DEF Spec, SharedSpec, ControlSpec

\* So the table is the registry for the client of Spec, too.
THEOREM TableImplementsRegistry == Spec => ImplementsRegistry
  BY SpecIsControl, RegistryRefinement
===============================================================================
